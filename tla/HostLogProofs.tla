--------------------------- MODULE HostLogProofs ----------------------------
(***************************************************************************)
(* What holds of the log for every capacity, limit, number of files and    *)
(* set of message lengths: as long as the file works no message and no     *)
(* drop is unaccounted for, and the files always hold, oldest first, the   *)
(* end of everything that was ever written.                                *)
(***************************************************************************)
EXTENDS HostLog, SequenceTheorems, WellFoundedInduction, TLAPS

-----------------------------------------------------------------------------
(* Sequences and their sums, as far as the model computes them. The        *)
(* recursive functions of the model are unfolded by an induction over sets *)
(* of numbers.                                                             *)

LEMMA Least ==
  ASSUME NEW T \in SUBSET Nat, T # {}
  PROVE  \E x \in T : \A y \in T : ~(y < x)
  <1>1. PICK R : IsWellFoundedOn(R, Nat) /\ R = {p \in Nat \X Nat : p[1] < p[2]}
    BY NatLessThanWellFounded DEF OpToRel
  <1>2. PICK x \in T : \A y \in T : ~(<<y, x>> \in R)
    BY <1>1, WFMin
  <1>3. \A y \in T : y < x => <<y, x>> \in R
    BY <1>1
  <1> QED
    BY <1>2, <1>3

LEMMA SetInduction ==
  ASSUME NEW S, 0 \in S, \A n \in Nat : n \in S => n + 1 \in S
  PROVE  Nat \subseteq S
  <1> SUFFICES ASSUME Nat \ S # {} PROVE FALSE
    OBVIOUS
  <1>1. PICK x \in Nat \ S : \A y \in Nat \ S : ~(y < x)
    BY Least
  <1>2. x # 0 /\ x - 1 \in Nat /\ x - 1 < x /\ (x - 1) + 1 = x
    BY <1>1
  <1>3. x - 1 \in S
    BY <1>1, <1>2
  <1> QED
    BY <1>1, <1>2, <1>3

\* What is computed step by step from a first value.
Computed(n, f, b, step) == f = [i \in 0 .. n |-> IF i = 0 THEN b ELSE step[<<i, f[i - 1]>>]]

LEMMA ComputedExists ==
  ASSUME NEW V, NEW b \in V, NEW step \in [(Nat \ {0}) \X V -> V]
  PROVE  \A n \in Nat : \E f \in [0 .. n -> V] : Computed(n, f, b, step)
  <1> DEFINE S == {n \in Nat : \E f \in [0 .. n -> V] : Computed(n, f, b, step)}
  <1>1. 0 \in S
    <2> DEFINE f == [i \in 0 .. 0 |-> b]
    <2>1. \A i \in 0 .. 0 : i = 0
      OBVIOUS
    <2>2. Computed(0, f, b, step) /\ f \in [0 .. 0 -> V]
      BY <2>1 DEF Computed
    <2> HIDE DEF f
    <2> QED
      BY <2>2
  <1>2. ASSUME NEW n \in Nat, n \in S
        PROVE  n + 1 \in S
    <2>1. PICK f \in [0 .. n -> V] : Computed(n, f, b, step)
      BY <1>2
    <2> DEFINE g == [i \in 0 .. n + 1 |-> IF i = 0 THEN b ELSE step[<<i, f[i - 1]>>]]
    <2>2. ASSUME NEW i \in 0 .. n
          PROVE  g[i] = f[i]
      <3>1. g[i] = (IF i = 0 THEN b ELSE step[<<i, f[i - 1]>>])
        OBVIOUS
      <3>2. f[i] = (IF i = 0 THEN b ELSE step[<<i, f[i - 1]>>])
        <4> HIDE DEF g
        <4>1. f = [j \in 0 .. n |-> IF j = 0 THEN b ELSE step[<<j, f[j - 1]>>]]
          BY <2>1 DEF Computed
        <4> QED
          BY <4>1
      <3> QED
        BY <3>1, <3>2
    <2>3. ASSUME NEW i \in 0 .. n + 1
          PROVE  g[i] = (IF i = 0 THEN b ELSE step[<<i, g[i - 1]>>]) /\ g[i] \in V
      <3>1. i # 0 => i - 1 \in 0 .. n /\ i \in Nat \ {0}
        OBVIOUS
      <3>2. i # 0 => g[i - 1] = f[i - 1] /\ f[i - 1] \in V
        BY <2>2, <3>1
      <3>3. g[i] = (IF i = 0 THEN b ELSE step[<<i, f[i - 1]>>])
        OBVIOUS
      <3> HIDE DEF g
      <3> QED
        BY <3>1, <3>2, <3>3
    <2>4. g = [i \in 0 .. n + 1 |-> g[i]]
      OBVIOUS
    <2> HIDE DEF g
    <2>5. Computed(n + 1, g, b, step) /\ g \in [0 .. n + 1 -> V]
      BY <2>3, <2>4 DEF Computed
    <2> QED
      BY <2>5
  <1> HIDE DEF S
  <1>3. Nat \subseteq S
    BY <1>1, <1>2, SetInduction
  <1> QED
    BY <1>3 DEF S

(* Sums. *)
Sums(f, s, n) == f = [i \in 0 .. n |-> IF i = 0 THEN 0 ELSE f[i - 1] + s[i]]

LEMMA SumsStep ==
  ASSUME NEW n \in Nat, NEW s, NEW f, Sums(f, s, n)
  PROVE  f[0] = 0 /\ \A i \in 1 .. n : f[i] = f[i - 1] + s[i]
  <1>1. f = [i \in 0 .. n |-> IF i = 0 THEN 0 ELSE f[i - 1] + s[i]]
    BY DEF Sums
  <1>2. 0 \in 0 .. n
    OBVIOUS
  <1>3. f[0] = 0
    BY <1>1, <1>2
  <1>4. ASSUME NEW i \in 1 .. n PROVE f[i] = f[i - 1] + s[i]
    <2>1. i \in 0 .. n /\ i # 0
      OBVIOUS
    <2> QED
      BY <1>1, <2>1
  <1> QED
    BY <1>3, <1>4

LEMMA SumIs ==
  ASSUME NEW s \in Seq(Int), NEW n \in Nat, n = Len(s)
  PROVE  \E f \in [0 .. n -> Int] : Sums(f, s, n) /\ Sum(s) = f[n]
  <1> DEFINE step == [p \in (Nat \ {0}) \X Int |-> IF p[1] \in 1 .. n THEN p[2] + s[p[1]] ELSE 0]
  <1>0. \A i \in 1 .. n : s[i] \in Int
    OBVIOUS
  <1>1. step \in [(Nat \ {0}) \X Int -> Int]
    BY <1>0
  <1>2. \A i \in 1 .. n, x \in Int : step[<<i, x>>] = x + s[i]
    BY <1>0
  <1> HIDE DEF step
  <1>a. \A m \in Nat : \E f \in [0 .. m -> Int] : Computed(m, f, 0, step)
    <2>1. ASSUME NEW V, V = Int
          PROVE  \A m \in Nat : \E f \in [0 .. m -> V] : Computed(m, f, 0, step)
      <3>1. 0 \in V /\ step \in [(Nat \ {0}) \X V -> V]
        BY <1>1, <2>1
      <3> QED
        BY <3>1, ComputedExists
    <2> QED
      BY <2>1
  <1>3. PICK f \in [0 .. n -> Int] : Computed(n, f, 0, step)
    BY <1>a
  <1>4. ASSUME NEW i \in 0 .. n
        PROVE  f[i] = (IF i = 0 THEN 0 ELSE f[i - 1] + s[i])
    <2>1. f[i] = (IF i = 0 THEN 0 ELSE step[<<i, f[i - 1]>>])
      <3>1. f = [j \in 0 .. n |-> IF j = 0 THEN 0 ELSE step[<<j, f[j - 1]>>]]
        BY <1>3 DEF Computed
      <3> QED
        BY <3>1
    <2>2. i # 0 => i \in 1 .. n /\ i - 1 \in 0 .. n
      OBVIOUS
    <2> QED
      BY <1>2, <2>1, <2>2
  <1>5. Sums(f, s, n)
    BY <1>4 DEF Sums
  <1> DEFINE g == CHOOSE h : h = [i \in 0 .. Len(s) |-> IF i = 0 THEN 0 ELSE h[i - 1] + s[i]]
  <1>6. g = [i \in 0 .. Len(s) |-> IF i = 0 THEN 0 ELSE g[i - 1] + s[i]]
    BY <1>5 DEF Sums
  <1>7. Sum(s) = g[Len(s)]
    BY DEF Sum
  <1> HIDE DEF g
  <1>b. Sums(g, s, n)
    BY <1>6 DEF Sums
  <1>c. g[0] = 0 /\ \A i \in 1 .. n : g[i] = g[i - 1] + s[i]
    BY <1>b, SumsStep
  <1> DEFINE S == {i \in Nat : i <= n => g[i] \in Int}
  <1>8. 0 \in S
    BY <1>c
  <1>9. ASSUME NEW i \in Nat, i \in S
        PROVE  i + 1 \in S
    <2> SUFFICES ASSUME i + 1 <= n PROVE g[i + 1] \in Int
      OBVIOUS
    <2>1. i + 1 \in 1 .. n /\ (i + 1) - 1 = i /\ g[i] \in Int
      BY <1>9
    <2>2. g[i + 1] = g[i] + s[i + 1] /\ s[i + 1] \in Int
      BY <1>0, <1>c, <2>1
    <2> QED
      BY <2>1, <2>2
  <1> HIDE DEF S
  <1>10. Nat \subseteq S
    BY <1>8, <1>9, SetInduction
  <1>11. \A i \in 0 .. n : g[i] \in Int
    BY <1>10 DEF S
  <1>12. g \in [0 .. n -> Int]
    BY <1>b, <1>11 DEF Sums
  <1> QED
    BY <1>7, <1>b, <1>12

LEMMA SumJoined ==
  ASSUME NEW s \in Seq(Int), NEW t \in Seq(Int)
  PROVE  Sum(s \o t) = Sum(s) + Sum(t) /\ Sum(s) \in Int
  <1> DEFINE u == s \o t  n == Len(s)  m == Len(t)
  <1>1. u \in Seq(Int) /\ Len(u) = n + m /\ n \in Nat /\ m \in Nat
    OBVIOUS
  <1>2. /\ \A i \in 1 .. n : u[i] = s[i] /\ s[i] \in Int
        /\ \A i \in 1 .. m : u[n + i] = t[i] /\ t[i] \in Int
    OBVIOUS
  <1>0. n = Len(s) /\ m = Len(t)
    OBVIOUS
  <1> HIDE DEF u, n, m
  <1>3. PICK f \in [0 .. n -> Int] : Sums(f, s, n) /\ Sum(s) = f[n]
    BY <1>0, <1>1, SumIs
  <1>4. PICK g \in [0 .. m -> Int] : Sums(g, t, m) /\ Sum(t) = g[m]
    BY <1>0, <1>1, SumIs
  <1> DEFINE k == n + m
  <1>k. k \in Nat /\ k = n + m /\ Len(u) = k
    BY <1>1
  <1> HIDE DEF k
  <1>5. PICK h \in [0 .. k -> Int] : Sums(h, u, k) /\ Sum(u) = h[k]
    BY <1>1, <1>k, SumIs
  <1>6. f[0] = 0 /\ \A i \in 1 .. n : f[i] = f[i - 1] + s[i]
    BY <1>1, <1>3, SumsStep
  <1>7. g[0] = 0 /\ \A i \in 1 .. m : g[i] = g[i - 1] + t[i]
    BY <1>1, <1>4, SumsStep
  <1>8. h[0] = 0 /\ \A i \in 1 .. k : h[i] = h[i - 1] + u[i]
    BY <1>k, <1>5, SumsStep
  <1> DEFINE S == {i \in Nat : i <= n => h[i] = f[i]}
  <1>9. 0 \in S
    BY <1>6, <1>8
  <1>10. ASSUME NEW i \in Nat, i \in S
        PROVE  i + 1 \in S
    <2> SUFFICES ASSUME i + 1 <= n PROVE h[i + 1] = f[i + 1]
      OBVIOUS
    <2>1. i + 1 \in 1 .. n /\ i + 1 \in 1 .. k /\ (i + 1) - 1 = i /\ h[i] = f[i]
      BY <1>1, <1>k, <1>10
    <2>2. h[i + 1] = h[i] + u[i + 1] /\ f[i + 1] = f[i] + s[i + 1]
      BY <1>6, <1>8, <2>1
    <2> QED
      BY <1>2, <2>1, <2>2
  <1> HIDE DEF S
  <1>11. Nat \subseteq S
    BY <1>9, <1>10, SetInduction
  <1>12. h[n] = f[n] /\ f[n] \in Int
    BY <1>1, <1>11 DEF S
  <1> DEFINE T == {i \in Nat : i <= m => h[n + i] = f[n] + g[i]}
  <1>13. 0 \in T
    BY <1>1, <1>7, <1>12
  <1>14. ASSUME NEW i \in Nat, i \in T
         PROVE  i + 1 \in T
    <2> SUFFICES ASSUME i + 1 <= m PROVE h[n + (i + 1)] = f[n] + g[i + 1]
      OBVIOUS
    <2>1. /\ i + 1 \in 1 .. m /\ n + (i + 1) \in 1 .. k /\ (i + 1) - 1 = i
          /\ (n + (i + 1)) - 1 = n + i /\ h[n + i] = f[n] + g[i] /\ i \in 0 .. m
      BY <1>1, <1>k, <1>14
    <2>2. h[n + (i + 1)] = h[n + i] + u[n + (i + 1)]
      BY <1>8, <2>1
    <2>3. u[n + (i + 1)] = t[i + 1] /\ g[i + 1] = g[i] + t[i + 1]
      BY <1>2, <1>7, <2>1
    <2>4. g[i] \in Int /\ t[i + 1] \in Int
      BY <1>2, <2>1
    <2> QED
      BY <1>12, <2>1, <2>2, <2>3, <2>4
  <1> HIDE DEF T
  <1>15. Nat \subseteq T
    BY <1>13, <1>14, SetInduction
  <1>16. h[k] = f[n] + g[m]
    BY <1>1, <1>k, <1>15 DEF T
  <1> QED
    BY <1>3, <1>4, <1>5, <1>12, <1>16 DEF u

LEMMA SumFew ==
  /\ Sum(<<>>) = 0
  /\ \A n \in Int : Sum(<<n>>) = n
  <1>1. Sum(<<>>) = 0
    <2> DEFINE s == <<>>
    <2>1. s \in Seq(Int) /\ 0 = Len(s) /\ 0 \in Nat
      OBVIOUS
    <2> HIDE DEF s
    <2>2. PICK f \in [0 .. 0 -> Int] : Sums(f, s, 0) /\ Sum(s) = f[0]
      BY <2>1, SumIs
    <2>3. f[0] = 0
      BY <2>2, SumsStep
    <2> QED
      BY <2>2, <2>3 DEF s
  <1>2. ASSUME NEW n \in Int PROVE Sum(<<n>>) = n
    <2> DEFINE s == <<n>>
    <2>1. s \in Seq(Int) /\ 1 = Len(s) /\ s[1] = n /\ 1 \in Nat
      OBVIOUS
    <2> HIDE DEF s
    <2>2. PICK f \in [0 .. 1 -> Int] : Sums(f, s, 1) /\ Sum(s) = f[1]
      BY <2>1, SumIs
    <2>3. f[0] = 0 /\ \A i \in 1 .. 1 : f[i] = f[i - 1] + s[i]
      BY <2>2, SumsStep
    <2>4. f[1] = f[1 - 1] + s[1]
      BY <2>3
    <2> QED
      BY <2>1, <2>2, <2>3, <2>4 DEF s
  <1> QED
    BY <1>1, <1>2

Numbered(f, k, s, n) ==
  f = [i \in 0 .. n |-> IF i = 0 THEN <<>>
                        ELSE IF s[i].kind = k THEN Append(f[i - 1], s[i].n) ELSE f[i - 1]]

LEMMA NumberedStep ==
  ASSUME NEW n \in Nat, NEW s, NEW k, NEW f, Numbered(f, k, s, n)
  PROVE  /\ f[0] = <<>>
         /\ \A i \in 1 .. n : f[i] = IF s[i].kind = k THEN Append(f[i - 1], s[i].n) ELSE f[i - 1]
  <1>1. f = [i \in 0 .. n |-> IF i = 0 THEN <<>>
                        ELSE IF s[i].kind = k THEN Append(f[i - 1], s[i].n) ELSE f[i - 1]]
    BY DEF Numbered
  <1>2. 0 \in 0 .. n
    OBVIOUS
  <1>3. f[0] = <<>>
    BY <1>1, <1>2
  <1>4. ASSUME NEW i \in 1 .. n
        PROVE  f[i] = IF s[i].kind = k THEN Append(f[i - 1], s[i].n) ELSE f[i - 1]
    <2>1. i \in 0 .. n /\ i # 0
      OBVIOUS
    <2> QED
      BY <1>1, <2>1
  <1> QED
    BY <1>3, <1>4

LEMMA NumbersIs ==
  ASSUME NEW k, NEW s \in Seq(Records), NEW n \in Nat, n = Len(s)
  PROVE  \E f \in [0 .. n -> Seq(Nat)] : Numbered(f, k, s, n) /\ NumbersOf(k, s) = f[n]
  <1> DEFINE V == Seq(Nat)
             step == [p \in (Nat \ {0}) \X V |->
                        IF p[1] \in 1 .. n
                        THEN IF s[p[1]].kind = k THEN Append(p[2], s[p[1]].n) ELSE p[2]
                        ELSE <<>>]
  <1>0. ASSUME NEW i \in 1 .. n PROVE s[i].n \in Nat
    <2>1. s[i] \in Records
      OBVIOUS
    <2> QED
      BY <2>1 DEF Records
  <1>d. <<>> \in V /\ \A q \in V, x \in Nat : Append(q, x) \in V
    OBVIOUS
  <1> HIDE DEF V
  <1>1. step \in [(Nat \ {0}) \X V -> V]
    BY <1>0, <1>d
  <1>2. \A i \in 1 .. n, q \in V : step[<<i, q>>] = IF s[i].kind = k THEN Append(q, s[i].n) ELSE q
    OBVIOUS
  <1> HIDE DEF step
  <1>a. \A m \in Nat : \E f \in [0 .. m -> V] : Computed(m, f, <<>>, step)
    BY <1>1, <1>d, ComputedExists
  <1>3. PICK f \in [0 .. n -> V] : Computed(n, f, <<>>, step)
    BY <1>a
  <1>4. ASSUME NEW i \in 0 .. n
        PROVE  f[i] = IF i = 0 THEN <<>>
                      ELSE IF s[i].kind = k THEN Append(f[i - 1], s[i].n) ELSE f[i - 1]
    <2>1. f[i] = (IF i = 0 THEN <<>> ELSE step[<<i, f[i - 1]>>])
      <3>1. f = [j \in 0 .. n |-> IF j = 0 THEN <<>> ELSE step[<<j, f[j - 1]>>]]
        BY <1>3 DEF Computed
      <3> QED
        BY <3>1
    <2>2. i # 0 => i \in 1 .. n /\ i - 1 \in 0 .. n
      OBVIOUS
    <2> QED
      BY <1>2, <2>1, <2>2
  <1>5. Numbered(f, k, s, n)
    BY <1>4 DEF Numbered
  <1> DEFINE g == CHOOSE h : h =
                    [i \in 0 .. Len(s) |-> IF i = 0 THEN <<>>
                       ELSE IF s[i].kind = k THEN Append(h[i - 1], s[i].n) ELSE h[i - 1]]
  <1>6. g = [i \in 0 .. Len(s) |-> IF i = 0 THEN <<>>
                       ELSE IF s[i].kind = k THEN Append(g[i - 1], s[i].n) ELSE g[i - 1]]
    BY <1>5 DEF Numbered
  <1>7. NumbersOf(k, s) = g[Len(s)]
    BY DEF NumbersOf
  <1> HIDE DEF g
  <1>b. Numbered(g, k, s, n)
    BY <1>6 DEF Numbered
  <1>c. /\ g[0] = <<>>
        /\ \A i \in 1 .. n : g[i] = IF s[i].kind = k THEN Append(g[i - 1], s[i].n) ELSE g[i - 1]
    BY <1>b, NumberedStep
  <1> DEFINE S == {i \in Nat : i <= n => g[i] \in V}
  <1>8. 0 \in S
    BY <1>c, <1>d
  <1>9. ASSUME NEW i \in Nat, i \in S
        PROVE  i + 1 \in S
    <2> SUFFICES ASSUME i + 1 <= n PROVE g[i + 1] \in V
      OBVIOUS
    <2>1. i + 1 \in 1 .. n /\ (i + 1) - 1 = i /\ g[i] \in V
      BY <1>9
    <2>2. g[i + 1] = (IF s[i + 1].kind = k THEN Append(g[i], s[i + 1].n) ELSE g[i]) /\ s[i + 1].n \in Nat
      BY <1>0, <1>c, <2>1
    <2> QED
      BY <1>d, <2>1, <2>2
  <1> HIDE DEF S
  <1>10. Nat \subseteq S
    BY <1>8, <1>9, SetInduction
  <1>11. \A i \in 0 .. n : g[i] \in V
    BY <1>10 DEF S
  <1>12. g \in [0 .. n -> V]
    BY <1>b, <1>11 DEF Numbered
  <1> QED
    BY <1>7, <1>b, <1>12 DEF V

LEMMA ConcatAppend ==
  ASSUME NEW p \in Seq(Nat), NEW q \in Seq(Nat), NEW x \in Nat
  PROVE  Append(p \o q, x) = p \o Append(q, x)
  <1> DEFINE n == Len(p)  m == Len(q)  a == Append(p \o q, x)  b == p \o Append(q, x)
  <1>1. a \in Seq(Nat) /\ b \in Seq(Nat)
    OBVIOUS
  <1>2. Len(a) = n + m + 1 /\ Len(b) = n + m + 1 /\ n \in Nat /\ m \in Nat
    OBVIOUS
  <1>3. ASSUME NEW i \in 1 .. n + m + 1 PROVE a[i] = b[i]
    OBVIOUS
  <1> HIDE DEF a, b, n, m
  <1>4. a = b
    BY <1>1, <1>2, <1>3, SeqEqual
  <1> QED
    BY <1>4 DEF a, b

LEMMA NumbersJoined ==
  ASSUME NEW kind, NEW s \in Seq(Records), NEW t \in Seq(Records)
  PROVE  /\ NumbersOf(kind, s \o t) = NumbersOf(kind, s) \o NumbersOf(kind, t)
         /\ NumbersOf(kind, s) \in Seq(Nat)
  <1> DEFINE u == s \o t  n == Len(s)  m == Len(t)  V == Seq(Nat)
  <1>1. u \in Seq(Records) /\ Len(u) = n + m /\ n \in Nat /\ m \in Nat
    OBVIOUS
  <1>2. /\ \A i \in 1 .. n : u[i] = s[i]
        /\ \A i \in 1 .. m : u[n + i] = t[i] /\ t[i].n \in Nat
    <2>1. \A i \in 1 .. n : u[i] = s[i]
      OBVIOUS
    <2>2. \A i \in 1 .. m : u[n + i] = t[i]
      OBVIOUS
    <2>3. \A i \in 1 .. m : t[i] \in Records
      OBVIOUS
    <2>4. \A r \in Records : r.n \in Nat
      BY DEF Records
    <2> HIDE DEF u, n, m
    <2> QED
      BY <2>1, <2>2, <2>3, <2>4
  <1>0. n = Len(s) /\ m = Len(t)
    OBVIOUS
  <1> HIDE DEF u, n, m, V
  <1>3. PICK f \in [0 .. n -> V] : Numbered(f, kind, s, n) /\ NumbersOf(kind, s) = f[n]
    BY <1>0, <1>1, NumbersIs DEF V
  <1>4. PICK g \in [0 .. m -> V] : Numbered(g, kind, t, m) /\ NumbersOf(kind, t) = g[m]
    BY <1>0, <1>1, NumbersIs DEF V
  <1> DEFINE k == n + m
  <1>k. k \in Nat /\ k = n + m /\ Len(u) = k
    BY <1>1
  <1> HIDE DEF k
  <1>5. PICK h \in [0 .. k -> V] : Numbered(h, kind, u, k) /\ NumbersOf(kind, u) = h[k]
    BY <1>1, <1>k, NumbersIs DEF V
  <1>6. f[0] = <<>> /\ \A i \in 1 .. n : f[i] = IF s[i].kind = kind THEN Append(f[i - 1], s[i].n) ELSE f[i - 1]
    BY <1>1, <1>3, NumberedStep
  <1>7. g[0] = <<>> /\ \A i \in 1 .. m : g[i] = IF t[i].kind = kind THEN Append(g[i - 1], t[i].n) ELSE g[i - 1]
    <2>1. Numbered(g, kind, t, m) /\ m \in Nat
      BY <1>1, <1>4
    <2> QED
      BY ONLY <2>1, NumberedStep
  <1>8. h[0] = <<>> /\ \A i \in 1 .. k : h[i] = IF u[i].kind = kind THEN Append(h[i - 1], u[i].n) ELSE h[i - 1]
    BY <1>k, <1>5, NumberedStep
  <1> DEFINE S == {i \in Nat : i <= n => h[i] = f[i]}
  <1>9. 0 \in S
    BY <1>6, <1>8
  <1>10. ASSUME NEW i \in Nat, i \in S
        PROVE  i + 1 \in S
    <2> SUFFICES ASSUME i + 1 <= n PROVE h[i + 1] = f[i + 1]
      OBVIOUS
    <2>1. i + 1 \in 1 .. n /\ i + 1 \in 1 .. k /\ (i + 1) - 1 = i /\ h[i] = f[i]
      BY <1>1, <1>k, <1>10
    <2>2. /\ h[i + 1] = IF u[i + 1].kind = kind THEN Append(h[i], u[i + 1].n) ELSE h[i]
          /\ f[i + 1] = IF s[i + 1].kind = kind THEN Append(f[i], s[i + 1].n) ELSE f[i]
      BY <1>6, <1>8, <2>1
    <2> QED
      BY <1>2, <2>1, <2>2
  <1> HIDE DEF S
  <1>11. Nat \subseteq S
    BY <1>9, <1>10, SetInduction
  <1>12. h[n] = f[n] /\ f[n] \in V
    BY <1>1, <1>11 DEF S
  <1> DEFINE T == {i \in Nat : i <= m => h[n + i] = f[n] \o g[i]}
  <1>t. \A i \in Nat : (i \in T) <=> (i <= m => h[n + i] = f[n] \o g[i])
    OBVIOUS
  <1> HIDE DEF T
  <1>13. 0 \in T
    <2>1. f[n] \o <<>> = f[n] /\ n + 0 = n
      BY <1>1, <1>12 DEF V
    <2> QED
      BY <1>t, <1>7, <1>12, <2>1
  <1>14. ASSUME NEW i \in Nat, i \in T
         PROVE  i + 1 \in T
    <2> SUFFICES ASSUME i + 1 <= m PROVE h[n + (i + 1)] = f[n] \o g[i + 1]
      <3> DEFINE j == i + 1
      <3>1. j \in Nat
        OBVIOUS
      <3> HIDE DEF j
      <3>2. (j \in T) <=> (j <= m => h[n + j] = f[n] \o g[j])
        BY <1>t, <3>1
      <3> QED
        BY <3>2 DEF j
    <2>1. /\ i + 1 \in 1 .. m /\ n + (i + 1) \in 1 .. k /\ (i + 1) - 1 = i
          /\ (n + (i + 1)) - 1 = n + i /\ h[n + i] = f[n] \o g[i] /\ i \in 0 .. m
      BY <1>1, <1>k, <1>14, <1>t
    <2>2. h[n + (i + 1)] = IF u[n + (i + 1)].kind = kind THEN Append(h[n + i], u[n + (i + 1)].n) ELSE h[n + i]
      <3> DEFINE j == n + (i + 1)
      <3>1. j \in 1 .. k /\ j - 1 = n + i
        <4>1. j \in 1 .. k
          BY <2>1
        <4>2. j - 1 = n + i
          BY <2>1
        <4> QED
          BY <4>1, <4>2
      <3> HIDE DEF j
      <3>2. h[j] = IF u[j].kind = kind THEN Append(h[j - 1], u[j].n) ELSE h[j - 1]
        BY <1>8, <3>1
      <3>3. h[j] = IF u[j].kind = kind THEN Append(h[n + i], u[j].n) ELSE h[n + i]
        BY <3>1, <3>2
      <3> QED
        BY <3>3 DEF j
    <2>3. /\ u[n + (i + 1)] = t[i + 1]
          /\ g[i + 1] = IF t[i + 1].kind = kind THEN Append(g[i], t[i + 1].n) ELSE g[i]
      BY <1>2, <1>7, <2>1
    <2>4. g[i] \in V /\ t[i + 1].n \in Nat
      BY <1>2, <2>1
    <2>5. Append(f[n] \o g[i], t[i + 1].n) = f[n] \o Append(g[i], t[i + 1].n)
      <3>1. f[n] \in Seq(Nat) /\ g[i] \in Seq(Nat)
        BY <1>12, <2>4 DEF V
      <3> QED
        BY <2>4, <3>1, ConcatAppend
    <2> QED
      BY <2>1, <2>2, <2>3, <2>5
  <1>15. Nat \subseteq T
    BY <1>13, <1>14, SetInduction
  <1>16. h[n + m] = f[n] \o g[m]
    BY <1>1, <1>15, <1>t
  <1> QED
    BY <1>3, <1>4, <1>5, <1>12, <1>16, <1>k DEF u, V

LEMMA NumbersFew ==
  ASSUME NEW kind
  PROVE  /\ NumbersOf(kind, <<>>) = <<>>
         /\ \A r \in Records : NumbersOf(kind, <<r>>) = IF r.kind = kind THEN <<r.n>> ELSE <<>>
  <1>1. NumbersOf(kind, <<>>) = <<>>
    <2> DEFINE s == <<>>
    <2>1. s \in Seq(Records) /\ 0 = Len(s) /\ 0 \in Nat
      OBVIOUS
    <2> HIDE DEF s
    <2>2. PICK f \in [0 .. 0 -> Seq(Nat)] : Numbered(f, kind, s, 0) /\ NumbersOf(kind, s) = f[0]
      BY <2>1, NumbersIs
    <2>3. f[0] = <<>>
      BY <2>2, NumberedStep
    <2> QED
      BY <2>2, <2>3 DEF s
  <1>2. ASSUME NEW r \in Records
        PROVE  NumbersOf(kind, <<r>>) = IF r.kind = kind THEN <<r.n>> ELSE <<>>
    <2> DEFINE s == <<r>>
    <2>1. s \in Seq(Records) /\ 1 = Len(s) /\ s[1] = r /\ 1 \in Nat
      OBVIOUS
    <2> HIDE DEF s
    <2>2. PICK f \in [0 .. 1 -> Seq(Nat)] : Numbered(f, kind, s, 1) /\ NumbersOf(kind, s) = f[1]
      BY <2>1, NumbersIs
    <2>3. /\ f[0] = <<>>
          /\ \A i \in 1 .. 1 : f[i] = IF s[i].kind = kind THEN Append(f[i - 1], s[i].n) ELSE f[i - 1]
      BY <2>2, NumberedStep
    <2>4. f[1] = IF s[1].kind = kind THEN Append(f[1 - 1], s[1].n) ELSE f[1 - 1]
      BY <2>3
    <2>5. Append(<<>>, r.n) = <<r.n>>
      OBVIOUS
    <2> QED
      BY <2>1, <2>2, <2>3, <2>4, <2>5 DEF s
  <1> QED
    BY <1>1, <1>2

-----------------------------------------------------------------------------
(* The invariant, and what records weigh.                                  *)

\* Where the writer has a record in hand.
Busy == {"write", "rotate", "unlink", "reopen", "failed"}
Queued == {"message", "drops"}

Charge(q) == Sum([i \in DOMAIN q |-> Cost(q[i].length)])

\* The queue is charged exactly what its records cost.
Queues == [queue : Seq(Records), used : 0 .. QueueCapacity, dropped : 0 .. CounterMax,
           file_error : BOOLEAN]
QueueOK(q) ==
  /\ q \in Queues /\ q.used = Charge(q.queue)
  /\ \A i \in 1 .. Len(q.queue) : q.queue[i].kind \in Queued

Hands ==
  /\ pc \in Busy => hand.kind \in Queued
  /\ pc \notin Busy => hand = None
  /\ file_error => queue = <<>> /\ pc \notin Busy
  /\ pc = "rotate" => next >= 2

Pcs == {"check", "wait", "write", "rotate", "unlink", "reopen", "failed", "stopped"}

FilesOK == DOMAIN files \subseteq Names /\ \A k \in DOMAIN files : files[k] \in Seq(Records)

OthersOK ==
  /\ stop \in BOOLEAN /\ open \in BOOLEAN /\ signalled \in BOOLEAN /\ file_size \in Nat
  /\ pc \in Pcs /\ hand \in Records /\ next \in 0 .. FileCount
  /\ calls \in 0 .. MaxCalls /\ accepted \in Seq(1 .. MaxCalls)
  /\ missed \in Nat /\ uncounted \in Nat /\ out \in Seq(Records) /\ faults \in 0 .. MaxFaults

Shape == OthersOK /\ FilesOK /\ QueueOK(Queue) /\ Hands

\* Until the file fails every message and every drop is accounted for.
Account == Healthy => AcceptedInOrder /\ DropsCounted
Accounted == Shape /\ Account

FullFor(file, record) == Size(file) + record.length > FileLimit

Ordered ==
  \A k \in DOMAIN files :
    Bounded(files[k]) /\ (k - 1 \in DOMAIN files => FullBefore(files[k], files[k - 1]))

\* A rotation leaves a gap that moves towards the current file, and across the
\* gap the files follow each other as well.
Gap ==
  pc = "rotate" =>
    /\ next - 1 \notin DOMAIN files
    /\ (next \in DOMAIN files /\ next - 2 \in DOMAIN files) => FullBefore(files[next], files[next - 2])

\* The record in hand would not have fitted into the newest file that is not
\* the current one.
Newest ==
  /\ pc \in {"unlink", "rotate"} => 0 \in DOMAIN files /\ FullFor(files[0], hand)
  /\ pc = "unlink" => next = FileCount
  /\ (pc \in {"write", "reopen"} /\ 1 \in DOMAIN files /\ FileAt(0) = <<>>) => FullFor(files[1], hand)
  /\ (pc \in {"check", "wait"} /\ ~file_error /\ 1 \in DOMAIN files) => FileAt(0) # <<>>

Current ==
  /\ (open /\ pc # "failed") => 0 \in DOMAIN files /\ file_size = Size(files[0])
  /\ pc \in {"unlink", "rotate", "reopen"} => ~open

Ends == \E p \in Seq(Records) : out = p \o Archives

Kept == Ends /\ Ordered /\ Gap /\ Newest /\ Current

LEMMA SumOfNaturals == ASSUME NEW s \in Seq(Nat) PROVE Sum(s) \in Nat
  <1> DEFINE n == Len(s)
  <1>1. s \in Seq(Int) /\ n \in Nat /\ n = Len(s)
    OBVIOUS
  <1>2. \A i \in 1 .. n : s[i] \in Nat
    OBVIOUS
  <1> HIDE DEF n
  <1>3. PICK f \in [0 .. n -> Int] : Sums(f, s, n) /\ Sum(s) = f[n]
    BY <1>1, SumIs
  <1>4. f[0] = 0 /\ \A i \in 1 .. n : f[i] = f[i - 1] + s[i]
    BY <1>1, <1>3, SumsStep
  <1> DEFINE S == {i \in Nat : i <= n => f[i] \in Nat}
  <1>5. 0 \in S
    BY <1>4
  <1>6. ASSUME NEW i \in Nat, i \in S
        PROVE  i + 1 \in S
    <2> SUFFICES ASSUME i + 1 <= n PROVE f[i + 1] \in Nat
      OBVIOUS
    <2>1. i + 1 \in 1 .. n /\ (i + 1) - 1 = i /\ f[i] \in Nat
      BY <1>1, <1>6
    <2>2. f[i + 1] = f[i] + s[i + 1] /\ s[i + 1] \in Nat
      <3>1. f[i + 1] = f[(i + 1) - 1] + s[i + 1] /\ s[i + 1] \in Nat
        BY <1>2, <1>4, <2>1
      <3> QED
        BY <2>1, <3>1
    <2> QED
      BY <2>1, <2>2
  <1> HIDE DEF S
  <1>7. Nat \subseteq S
    BY <1>5, <1>6, SetInduction
  <1> QED
    BY <1>1, <1>3, <1>7 DEF S

\* Records weighed one by one: their lengths or what they cost the queue.
Weights(w, s) == [i \in DOMAIN s |-> w[s[i]]]

LEMMA WeightsOf ==
  ASSUME NEW w \in [Records -> Nat], NEW s \in Seq(Records)
  PROVE  /\ Weights(w, s) \in Seq(Nat) /\ Weights(w, s) \in Seq(Int)
         /\ Len(Weights(w, s)) = Len(s) /\ \A i \in 1 .. Len(s) : Weights(w, s)[i] = w[s[i]]
  <1>1. DOMAIN s = 1 .. Len(s) /\ Len(s) \in Nat
    OBVIOUS
  <1>2. \A i \in 1 .. Len(s) : s[i] \in Records
    OBVIOUS
  <1>3. \A i \in 1 .. Len(s) : w[s[i]] \in Nat
    BY <1>2
  <1>4. Weights(w, s) \in [1 .. Len(s) -> Nat]
    BY <1>1, <1>3 DEF Weights
  <1>5. Weights(w, s) \in Seq(Nat)
    BY <1>1, <1>4
  <1> QED
    BY <1>1, <1>4, <1>5 DEF Weights

LEMMA WeightsJoined ==
  ASSUME NEW w \in [Records -> Nat], NEW s \in Seq(Records), NEW t \in Seq(Records)
  PROVE  Weights(w, s \o t) = Weights(w, s) \o Weights(w, t)
  <1> DEFINE u == s \o t  a == Weights(w, s)  b == Weights(w, t)  c == Weights(w, u)
             n == Len(s)  m == Len(t)
  <1>1. u \in Seq(Records) /\ Len(u) = n + m /\ n \in Nat /\ m \in Nat
    OBVIOUS
  <1>2. (\A i \in 1 .. n : u[i] = s[i]) /\ (\A i \in (n + 1) .. (n + m) : u[i] = t[i - n])
    OBVIOUS
  <1>3. n = Len(s) /\ m = Len(t)
    OBVIOUS
  <1> HIDE DEF u, n, m
  <1>4. /\ a \in Seq(Nat) /\ b \in Seq(Nat) /\ c \in Seq(Nat)
        /\ Len(a) = n /\ Len(b) = m /\ Len(c) = n + m
    BY <1>1, <1>3, WeightsOf
  <1>5. /\ \A i \in 1 .. n : a[i] = w[s[i]]
        /\ \A i \in 1 .. m : b[i] = w[t[i]]
        /\ \A i \in 1 .. n + m : c[i] = w[u[i]]
    BY <1>1, <1>3, WeightsOf
  <1> HIDE DEF a, b, c
  <1>7. /\ (a \o b) \in Seq(Nat) /\ Len(a \o b) = n + m
        /\ \A i \in 1 .. n + m : (a \o b)[i] = IF i <= n THEN a[i] ELSE b[i - n]
    <2>1. ASSUME NEW V, V = Nat
          PROVE  /\ (a \o b) \in Seq(V) /\ Len(a \o b) = n + m
                 /\ \A i \in 1 .. n + m : (a \o b)[i] = IF i <= n THEN a[i] ELSE b[i - n]
      <3>1. a \in Seq(V) /\ b \in Seq(V) /\ Len(a) = n /\ Len(b) = m
        BY <1>4, <2>1
      <3> QED
        BY <3>1, ConcatProperties
    <2> QED
      BY <2>1
  <1>6. ASSUME NEW i \in 1 .. n + m
        PROVE  c[i] = (a \o b)[i]
    <2>1. CASE i <= n
      <3>1. i \in 1 .. n /\ (a \o b)[i] = a[i]
        BY <1>1, <1>7, <2>1
      <3> QED
        BY <1>2, <1>5, <3>1
    <2>2. CASE i > n
      <3>1. i - n \in 1 .. m /\ i \in (n + 1) .. (n + m) /\ (a \o b)[i] = b[i - n]
        BY <1>1, <1>7, <2>2
      <3>2. c[i] = w[u[i]] /\ u[i] = t[i - n] /\ b[i - n] = w[t[i - n]]
        BY <1>2, <1>5, <3>1
      <3> QED
        BY <3>1, <3>2
    <2>3. i <= n \/ i > n
      <3>1. n \in Int /\ i \in Int
        BY <1>1
      <3> QED
        BY <3>1
    <2> QED
      BY <2>1, <2>2, <2>3
  <1>8. c = a \o b
    <2>1. ASSUME NEW V, V = Nat PROVE c = a \o b
      <3>1. c \in Seq(V) /\ (a \o b) \in Seq(V) /\ Len(c) = n + m /\ Len(a \o b) = n + m
        BY <1>4, <1>7, <2>1
      <3> QED
        BY <1>6, <3>1, SeqEqual
    <2> QED
      BY <2>1
  <1> QED
    BY <1>8 DEF a, b, c, u

Weight(w, s) == Sum(Weights(w, s))

LEMMA WeightFacts ==
  ASSUME NEW w \in [Records -> Nat], NEW s \in Seq(Records), NEW t \in Seq(Records), NEW r \in Records
  PROVE  /\ Weight(w, s) \in Nat
         /\ Weight(w, s \o t) = Weight(w, s) + Weight(w, t)
         /\ Weight(w, <<>>) = 0
         /\ Weight(w, <<r>>) = w[r]
  <1>1. Weights(w, s) \in Seq(Nat) /\ Weights(w, s) \in Seq(Int) /\ Weights(w, t) \in Seq(Int)
    BY WeightsOf
  <1>2. Weight(w, s) \in Nat
    BY <1>1, SumOfNaturals DEF Weight
  <1>3. Weight(w, s \o t) = Weight(w, s) + Weight(w, t)
    BY <1>1, SumJoined, WeightsJoined DEF Weight
  <1>4. Weights(w, <<>>) = <<>>
    BY DEF Weights
  <1>5. Weights(w, <<r>>) = <<w[r]>> /\ w[r] \in Int
    BY DEF Weights
  <1> QED
    BY <1>2, <1>3, <1>4, <1>5, SumFew DEF Weight

Length == [r \in Records |-> r.length]
Price == [r \in Records |-> Cost(r.length)]

LEMMA SizeIsWeight ==
  /\ \A s \in Seq(Records) : Size(s) = Weight(Length, s)
  /\ Length \in [Records -> Nat]
  <1>1. Length \in [Records -> Nat]
    BY DEF Length, Records
  <1>2. ASSUME NEW s \in Seq(Records) PROVE Size(s) = Weight(Length, s)
    <2>1. DOMAIN s = 1 .. Len(s) /\ \A i \in 1 .. Len(s) : s[i] \in Records
      OBVIOUS
    <2>2. [i \in DOMAIN s |-> s[i].length] = Weights(Length, s)
      BY <2>1 DEF Length, Weights
    <2> QED
      BY <2>2 DEF Size, Weight
  <1> QED
    BY <1>1, <1>2

\* The size of a file grows by the length of what is appended.
LEMMA SizeFacts ==
  ASSUME NEW s \in Seq(Records), NEW r \in Records
  PROVE  /\ Size(s) \in Nat /\ Size(<<>>) = 0
         /\ Size(Append(s, r)) = Size(s) + r.length
  <1>1. Append(s, r) = s \o <<r>> /\ <<r>> \in Seq(Records) /\ <<>> \in Seq(Records) /\ Append(s, r) \in Seq(Records)
    OBVIOUS
  <1>2. Length[r] = r.length
    BY DEF Length
  <1>3. Weight(Length, s) \in Nat /\ Weight(Length, <<>>) = 0 /\ Weight(Length, <<r>>) = Length[r]
    BY <1>1, SizeIsWeight, WeightFacts
  <1>4. Weight(Length, s \o <<r>>) = Weight(Length, s) + Weight(Length, <<r>>)
    BY <1>1, SizeIsWeight, WeightFacts
  <1> QED
    BY <1>1, <1>2, <1>3, <1>4, SizeIsWeight

LEMMA ChargeIsWeight ==
  /\ \A s \in Seq(Records) : Charge(s) = Weight(Price, s)
  /\ Price \in [Records -> Nat]
  <1>0. Header \in Nat
    BY LogAssumption
  <1>1. Price \in [Records -> Nat]
    BY <1>0 DEF Price, Cost, Records
  <1>2. ASSUME NEW s \in Seq(Records) PROVE Charge(s) = Weight(Price, s)
    <2>1. DOMAIN s = 1 .. Len(s) /\ \A i \in 1 .. Len(s) : s[i] \in Records
      OBVIOUS
    <2>2. [i \in DOMAIN s |-> Cost(s[i].length)] = Weights(Price, s)
      BY <2>1 DEF Price, Weights
    <2> QED
      BY <2>2 DEF Charge, Weight
  <1> QED
    BY <1>1, <1>2

\* What the queue is charged grows and shrinks by the cost of one record.
LEMMA ChargeFacts ==
  /\ Charge(<<>>) = 0
  /\ \A s \in Seq(Records) : Charge(s) \in Nat
  /\ \A s \in Seq(Records), r \in Records : Charge(Append(s, r)) = Charge(s) + Cost(r.length)
  /\ \A s \in Seq(Records) : s # <<>> => Charge(s) = Cost(Head(s).length) + Charge(Tail(s))
  <1>1. ASSUME NEW s \in Seq(Records), NEW t \in Seq(Records), NEW r \in Records
        PROVE  /\ Charge(s) \in Nat /\ Charge(s \o t) = Charge(s) + Charge(t)
               /\ Charge(<<>>) = 0 /\ Charge(<<r>>) = Cost(r.length)
    <2>1. /\ Weight(Price, s) \in Nat /\ Weight(Price, <<>>) = 0 /\ Weight(Price, <<r>>) = Price[r]
          /\ Weight(Price, s \o t) = Weight(Price, s) + Weight(Price, t)
      BY ChargeIsWeight, WeightFacts
    <2>2. (s \o t) \in Seq(Records) /\ <<>> \in Seq(Records) /\ <<r>> \in Seq(Records)
      OBVIOUS
    <2>3. Price[r] = Cost(r.length)
      BY DEF Price
    <2> HIDE DEF Price, Weight, Charge
    <2> QED
      BY <2>1, <2>2, <2>3, ChargeIsWeight
  <1>2. <<>> \in Seq(Records) /\ None \in Records
    BY DEF None, Records
  <1>3. ASSUME NEW s \in Seq(Records), NEW r \in Records
        PROVE  Charge(Append(s, r)) = Charge(s) + Cost(r.length)
    <2>1. Append(s, r) = s \o <<r>> /\ <<r>> \in Seq(Records)
      OBVIOUS
    <2> QED
      BY <1>1, <2>1
  <1>4. ASSUME NEW s \in Seq(Records), s # <<>>
        PROVE  Charge(s) = Cost(Head(s).length) + Charge(Tail(s))
    <2>1. s = <<Head(s)>> \o Tail(s) /\ Head(s) \in Records /\ Tail(s) \in Seq(Records)
      BY <1>4
    <2>2. <<Head(s)>> \in Seq(Records)
      BY <2>1
    <2>3. Charge(<<Head(s)>> \o Tail(s)) = Charge(<<Head(s)>>) + Charge(Tail(s))
      BY <1>1, <2>1, <2>2
    <2> QED
      BY <1>1, <2>1, <2>3
  <1> QED
    BY <1>1, <1>2, <1>3, <1>4

-----------------------------------------------------------------------------
(* The queue: every way it is changed keeps it charged exactly.            *)

Messages(s) == NumbersOf("message", s)
Reported(s) == Sum(NumbersOf("drops", s))

\* t is s with records behind it that hold the messages a and report d drops.
Grows(s, t, a, d) ==
  \E x \in Seq(Records) : t = s \o x /\ Messages(x) = a /\ Reported(x) = d

LEMMA Told ==
  ASSUME NEW s \in Seq(Records), NEW t \in Seq(Records)
  PROVE  /\ Messages(s \o t) = Messages(s) \o Messages(t) /\ Messages(s) \in Seq(Nat)
         /\ Reported(s \o t) = Reported(s) + Reported(t) /\ Reported(s) \in Int
  <1>1. Messages(s \o t) = Messages(s) \o Messages(t) /\ Messages(s) \in Seq(Nat)
    BY NumbersJoined DEF Messages
  <1>2. /\ NumbersOf("drops", s \o t) = NumbersOf("drops", s) \o NumbersOf("drops", t)
        /\ NumbersOf("drops", s) \in Seq(Nat) /\ NumbersOf("drops", t) \in Seq(Nat)
    BY NumbersJoined
  <1> DEFINE a == NumbersOf("drops", s)  b == NumbersOf("drops", t)
  <1>3. a \in Seq(Nat) /\ b \in Seq(Nat)
    BY <1>2
  <1> HIDE DEF a, b
  <1>4. a \in Seq(Int) /\ b \in Seq(Int)
    BY <1>3
  <1>5. Sum(a \o b) = Sum(a) + Sum(b) /\ Sum(a) \in Int
    BY <1>4, SumJoined
  <1> QED
    BY <1>1, <1>2, <1>5 DEF Reported, a, b

LEMMA ToldOne ==
  /\ Messages(<<>>) = <<>> /\ Reported(<<>>) = 0
  /\ \A n \in Nat, length \in Nat :
       /\ Messages(<<Message(n, length)>>) = <<n>> /\ Reported(<<Message(n, length)>>) = 0
       /\ Messages(<<Drops(n, length)>>) = <<>> /\ Reported(<<Drops(n, length)>>) = n
  <1>1. Messages(<<>>) = <<>> /\ Reported(<<>>) = 0
    BY NumbersFew, SumFew DEF Messages, Reported
  <1>2. ASSUME NEW n \in Nat, NEW length \in Nat
        PROVE  /\ Messages(<<Message(n, length)>>) = <<n>> /\ Reported(<<Message(n, length)>>) = 0
               /\ Messages(<<Drops(n, length)>>) = <<>> /\ Reported(<<Drops(n, length)>>) = n
    <2> DEFINE r == Message(n, length)  t == Drops(n, length)
    <2>1. /\ r \in Records /\ r.kind = "message" /\ r.n = n
          /\ t \in Records /\ t.kind = "drops" /\ t.n = n /\ "message" # "drops" /\ n \in Int
      BY DEF Records, Message, Drops
    <2> HIDE DEF r, t
    <2>2. /\ NumbersOf("message", <<r>>) = <<n>> /\ NumbersOf("drops", <<r>>) = <<>>
          /\ NumbersOf("message", <<t>>) = <<>> /\ NumbersOf("drops", <<t>>) = <<n>>
      BY <2>1, NumbersFew
    <2> QED
      BY <2>1, <2>2, SumFew DEF Messages, Reported, r, t
  <1> QED
    BY <1>1, <1>2

LEMMA MadeRecords ==
  \A n \in Nat, length \in Nat :
    /\ Message(n, length) \in Records /\ Message(n, length).kind = "message"
    /\ Message(n, length).length = length
    /\ Drops(n, length) \in Records /\ Drops(n, length).kind = "drops"
    /\ Drops(n, length).length = length
  BY DEF Records, Message, Drops

LEMMA GrowsByOne ==
  ASSUME NEW s \in Seq(Records), NEW n \in Nat, NEW length \in Nat
  PROVE  /\ Grows(s, s, <<>>, 0)
         /\ Grows(s, Append(s, Message(n, length)), <<n>>, 0)
         /\ Grows(s, Append(s, Drops(n, length)), <<>>, n)
  <1>1. ASSUME NEW r \in Records
        PROVE  Append(s, r) = s \o <<r>> /\ <<r>> \in Seq(Records)
    OBVIOUS
  <1>2. s = s \o <<>> /\ <<>> \in Seq(Records)
    OBVIOUS
  <1> HIDE DEF Message, Drops, Messages, Reported
  <1>3. Grows(s, s, <<>>, 0)
    BY <1>2, ToldOne DEF Grows
  <1>4. Grows(s, Append(s, Message(n, length)), <<n>>, 0)
    <2> DEFINE r == Message(n, length)
    <2>1. r \in Records /\ Messages(<<r>>) = <<n>> /\ Reported(<<r>>) = 0
      BY ToldOne, MadeRecords
    <2> HIDE DEF r
    <2> QED
      BY <1>1, <2>1 DEF Grows, r
  <1>5. Grows(s, Append(s, Drops(n, length)), <<>>, n)
    <2> DEFINE r == Drops(n, length)
    <2>1. r \in Records /\ Messages(<<r>>) = <<>> /\ Reported(<<r>>) = n
      BY ToldOne, MadeRecords
    <2> HIDE DEF r
    <2> QED
      BY <1>1, <2>1 DEF Grows, r
  <1> QED
    BY <1>3, <1>4, <1>5

LEMMA JoinedThrice ==
  ASSUME NEW s \in Seq(Records), NEW t \in Seq(Records), NEW u \in Seq(Records)
  PROVE  s \o (t \o u) = (s \o t) \o u /\ (s \o t) \in Seq(Records)
  BY ConcatAssociative, ConcatProperties

LEMMA GrowsThen ==
  ASSUME NEW s \in Seq(Records), NEW t, NEW u, NEW a, NEW b, NEW d, NEW e,
         Grows(s, t, a, d), Grows(t, u, b, e)
  PROVE  Grows(s, u, a \o b, d + e)
  <1>1. PICK x \in Seq(Records) : t = s \o x /\ Messages(x) = a /\ Reported(x) = d
    BY DEF Grows
  <1>2. PICK y \in Seq(Records) : u = t \o y /\ Messages(y) = b /\ Reported(y) = e
    BY DEF Grows
  <1>3. u = s \o (x \o y) /\ x \o y \in Seq(Records)
    BY <1>1, <1>2, JoinedThrice
  <1>4. Messages(x \o y) = a \o b /\ Reported(x \o y) = d + e
    BY <1>1, <1>2, Told
  <1> QED
    BY <1>3, <1>4 DEF Grows

LEMMA GrowsBehind ==
  ASSUME NEW p \in Seq(Records), NEW s \in Seq(Records), NEW t, NEW a, NEW d, Grows(s, t, a, d)
  PROVE  Grows(p \o s, p \o t, a, d)
  <1>1. PICK x \in Seq(Records) : t = s \o x /\ Messages(x) = a /\ Reported(x) = d
    BY DEF Grows
  <1>2. p \o t = (p \o s) \o x
    BY <1>1, JoinedThrice
  <1> QED
    BY <1>1, <1>2 DEF Grows

(* The queue. *)
LEMMA Prices ==
  \A length \in Nat : RecordLength(length) \in Nat /\ Cost(length) \in Nat
  BY LogAssumption DEF RecordLength, Cost

\* What changing a field of a queue value leaves.
LEMMA QueueFields ==
  ASSUME NEW q, q \in Queues, NEW a, NEW b
  PROVE  /\ [q EXCEPT !.queue = a, !.used = b] =
              [queue |-> a, used |-> b, dropped |-> q.dropped, file_error |-> q.file_error]
         /\ [q EXCEPT !.dropped = a] =
              [queue |-> q.queue, used |-> q.used, dropped |-> a, file_error |-> q.file_error]
  <1>1. PICK w, x, y, z : q = [queue |-> w, used |-> x, dropped |-> y, file_error |-> z]
    <2>1. q = [queue |-> q.queue, used |-> q.used, dropped |-> q.dropped, file_error |-> q.file_error]
      BY DEF Queues
    <2> QED
      BY <2>1
  <1>2. q.queue = w /\ q.used = x /\ q.dropped = y /\ q.file_error = z
    BY <1>1
  <1>3. ASSUME NEW v, v = [q EXCEPT !.queue = a, !.used = b]
        PROVE  v = [queue |-> a, used |-> b, dropped |-> y, file_error |-> z]
    BY <1>1, <1>3
  <1>4. ASSUME NEW v, v = [q EXCEPT !.dropped = a]
        PROVE  v = [queue |-> w, used |-> x, dropped |-> a, file_error |-> z]
    BY <1>1, <1>4
  <1> QED
    BY <1>2, <1>3, <1>4

LEMMA AppendedOK ==
  ASSUME NEW q, QueueOK(q), NEW length \in Nat, Fits(q, length),
         NEW r \in Records, r.kind \in Queued, r.length = RecordLength(length)
  PROVE  /\ QueueOK(Appended(q, r))
         /\ Appended(q, r).queue = Append(q.queue, r)
         /\ Appended(q, r).dropped = q.dropped /\ Appended(q, r).file_error = q.file_error
  <1> DEFINE z == Appended(q, r)  c == Cost(r.length)
  <1>1. q \in Queues /\ q.queue \in Seq(Records) /\ q.used \in Nat /\ q.used = Charge(q.queue)
    BY LogAssumption DEF QueueOK, Queues
  <1>2. c \in Nat /\ c <= QueueCapacity - q.used /\ QueueCapacity \in Nat
    BY Prices, LogAssumption DEF Fits
  <1>3. Append(q.queue, r) \in Seq(Records) /\ Charge(Append(q.queue, r)) = Charge(q.queue) + c
    BY <1>1, ChargeFacts
  <1>4. /\ z.queue = Append(q.queue, r) /\ z.used = q.used + c
        /\ z.dropped = q.dropped /\ z.file_error = q.file_error
        /\ z = [queue |-> z.queue, used |-> z.used, dropped |-> z.dropped, file_error |-> z.file_error]
    <2>1. z = [queue |-> Append(q.queue, r), used |-> q.used + c, dropped |-> q.dropped, file_error |-> q.file_error]
      <3>1. z = [q EXCEPT !.queue = Append(q.queue, r), !.used = q.used + c]
        BY DEF Appended
      <3> HIDE DEF z, c
      <3> QED
        BY <1>1, <3>1, QueueFields
    <2> HIDE DEF z, c
    <2> QED
      BY <2>1
  <1> HIDE DEF z, c
  <1>5. z.used \in 0 .. QueueCapacity /\ z.used = Charge(z.queue)
    BY <1>1, <1>2, <1>3, <1>4
  <1>6. z \in Queues
    BY <1>1, <1>3, <1>4, <1>5 DEF Queues
  <1>7. ASSUME NEW i \in 1 .. Len(z.queue) PROVE z.queue[i].kind \in Queued
    <2>1. \/ i \in 1 .. Len(q.queue) /\ Append(q.queue, r)[i] = q.queue[i]
          \/ Append(q.queue, r)[i] = r
      BY <1>1, <1>4
    <2> QED
      BY <1>4, <2>1 DEF QueueOK
  <1> QED
    BY <1>4, <1>5, <1>6, <1>7 DEF QueueOK, z

LEMMA RecoveredOK ==
  ASSUME NEW q, QueueOK(q), NEW malloc
  PROVE  LET r == Recovered(q, malloc)
         IN  /\ QueueOK(r) /\ r.file_error = q.file_error
             /\ \E d \in Nat : d + r.dropped = q.dropped /\ Grows(q.queue, r.queue, <<>>, d)
  <1> DEFINE r == Recovered(q, malloc)
  <1>1. q \in Queues /\ q.queue \in Seq(Records) /\ q.dropped \in 0 .. CounterMax /\ CounterMax \in Nat /\ Marker \in Nat
    BY LogAssumption DEF QueueOK, Queues
  <1>2. CASE q.dropped # 0 /\ malloc /\ Fits(q, Marker)
    <2> DEFINE m == Drops(q.dropped, RecordLength(Marker))  z == Appended(q, m)
    <2>0. q.dropped \in Nat /\ RecordLength(Marker) \in Nat
      <3>1. RecordLength(Marker) \in Nat
        BY <1>1, Prices
      <3>2. q.dropped \in Nat
        BY <1>1
      <3> QED
        BY <3>1, <3>2
    <2>1. m \in Records /\ m.kind \in Queued /\ m.length = RecordLength(Marker)
      BY <2>0, MadeRecords DEF Queued
    <2>g. Grows(q.queue, Append(q.queue, m), <<>>, q.dropped)
      <3> DEFINE a == q.queue  b == q.dropped  l == RecordLength(Marker)
      <3>1. a \in Seq(Records) /\ b \in Nat /\ l \in Nat
        BY <1>1, <2>0
      <3> HIDE DEF a, b, l
      <3>2. Grows(a, Append(a, Drops(b, l)), <<>>, b)
        BY <3>1, GrowsByOne
      <3> QED
        BY <3>2 DEF a, b, l
    <2>r. r = [z EXCEPT !.dropped = 0]
      BY <1>2 DEF Recovered
    <2> HIDE DEF m
    <2>2. QueueOK(z) /\ z.queue = Append(q.queue, m) /\ z.file_error = q.file_error
      BY <1>1, <1>2, <2>1, AppendedOK
    <2> HIDE DEF z
    <2>3. /\ r.queue = z.queue /\ r.used = z.used /\ r.dropped = 0 /\ r.file_error = z.file_error
          /\ r \in Queues
      BY <1>1, <2>2, <2>r DEF QueueOK, Queues
    <2>4. QueueOK(r)
      BY <2>2, <2>3 DEF QueueOK
    <2> QED
      BY <1>1, <2>2, <2>3, <2>4, <2>g
  <1>3. CASE ~(q.dropped # 0 /\ malloc /\ Fits(q, Marker))
    <2>1. r = q
      BY <1>3 DEF Recovered
    <2>2. Grows(q.queue, q.queue, <<>>, 0)
      BY <1>1, GrowsByOne
    <2> HIDE DEF r
    <2> QED
      BY <1>1, <2>1, <2>2 DEF r
  <1> QED
    BY <1>2, <1>3

LEMMA TailOK ==
  ASSUME NEW q, QueueOK(q), q.queue # <<>>
  PROVE  LET z == [q EXCEPT !.queue = Tail(@), !.used = @ - Cost(Head(q.queue).length)]
         IN  /\ QueueOK(z) /\ z.file_error = q.file_error /\ z.dropped = q.dropped
             /\ z.queue = Tail(q.queue)
             /\ Head(q.queue) \in Records /\ Head(q.queue).kind \in Queued
  <1> DEFINE z == [q EXCEPT !.queue = Tail(@), !.used = @ - Cost(Head(q.queue).length)]
             c == Cost(Head(q.queue).length)
  <1>1. q \in Queues /\ q.queue \in Seq(Records) /\ q.used \in 0 .. QueueCapacity /\ q.used = Charge(q.queue)
    BY DEF QueueOK, Queues
  <1>2. /\ Head(q.queue) \in Records /\ Tail(q.queue) \in Seq(Records) /\ Head(q.queue) = q.queue[1]
        /\ 1 \in 1 .. Len(q.queue) /\ Len(Tail(q.queue)) = Len(q.queue) - 1
        /\ \A i \in 1 .. Len(Tail(q.queue)) : Tail(q.queue)[i] = q.queue[i + 1] /\ i + 1 \in 1 .. Len(q.queue)
    BY <1>1
  <1>3. Charge(q.queue) = c + Charge(Tail(q.queue)) /\ Charge(Tail(q.queue)) \in Nat
    BY <1>1, <1>2, ChargeFacts
  <1>4. c \in Nat
    BY <1>2, Prices DEF Records
  <1>5. /\ z.queue = Tail(q.queue) /\ z.used = q.used - c
        /\ z.dropped = q.dropped /\ z.file_error = q.file_error
        /\ z = [queue |-> z.queue, used |-> z.used, dropped |-> z.dropped, file_error |-> z.file_error]
    <2>1. z = [queue |-> Tail(q.queue), used |-> q.used - c, dropped |-> q.dropped, file_error |-> q.file_error]
      <3>1. z = [q EXCEPT !.queue = Tail(q.queue), !.used = q.used - c]
        OBVIOUS
      <3> HIDE DEF z, c
      <3> QED
        BY <1>1, <3>1, QueueFields
    <2> HIDE DEF z, c
    <2> QED
      BY <2>1
  <1> HIDE DEF z, c
  <1>6. z.used \in 0 .. QueueCapacity /\ z.used = Charge(z.queue)
    BY <1>1, <1>3, <1>4, <1>5, LogAssumption
  <1>7. z \in Queues
    BY <1>1, <1>2, <1>5, <1>6 DEF Queues
  <1>8. Head(q.queue).kind \in Queued /\ \A i \in 1 .. Len(z.queue) : z.queue[i].kind \in Queued
    BY <1>2, <1>5 DEF QueueOK
  <1>9. QueueOK(z)
    BY <1>6, <1>7, <1>8 DEF QueueOK
  <1> QED
    BY <1>2, <1>5, <1>8, <1>9 DEF z

LEMMA Constants ==
  /\ QueueCapacity \in Nat /\ RecordLimit \in Nat /\ FileLimit \in Nat /\ FileCount \in Nat
  /\ FileCount >= 1 /\ CounterMax \in Nat /\ CounterMax >= 1 /\ MaxCalls \in Nat /\ MaxFaults \in Nat
  /\ Lengths \subseteq Nat /\ Marker \in Nat /\ Names = 0 .. FileCount - 1
  BY LogAssumption DEF Names

LEMMA ShapeTypes == Shape => TypeOK
  BY DEF Shape, OthersOK, FilesOK, QueueOK, Queues, Queue, TypeOK, Pcs

LEMMA SetOK ==
  ASSUME NEW q, QueueOK(q), SetQueue(q)
  PROVE  QueueOK(Queue)'
  <1>1. q = [queue |-> q.queue, used |-> q.used, dropped |-> q.dropped, file_error |-> q.file_error]
    BY DEF QueueOK, Queues
  <1>2. Queue' = [queue |-> q.queue, used |-> q.used, dropped |-> q.dropped, file_error |-> q.file_error]
    BY DEF Queue, SetQueue
  <1>3. Queue' = q
    BY <1>1, <1>2
  <1> QED
    BY <1>3

LEMMA QueueStays ==
  ASSUME QueueOK(Queue), UNCHANGED queueVars
  PROVE  QueueOK(Queue)'
  <1>1. Queue' = Queue
    BY DEF Queue, queueVars
  <1> QED
    BY <1>1

LEMMA DisabledOK ==
  ASSUME QueueOK(Queue), SetQueue(Disabled(Queue))
  PROVE  QueueOK(Queue)' /\ file_error' /\ queue' = <<>>
  <1> DEFINE z == Disabled(Queue)
  <1>1. Queue \in Queues /\ Queue.dropped \in 0 .. CounterMax
    BY DEF QueueOK, Queues
  <1>2. z = [queue |-> <<>>, used |-> 0, dropped |-> dropped, file_error |-> TRUE]
    <2>1. ASSUME NEW q, q = [queue |-> queue, used |-> used, dropped |-> dropped, file_error |-> file_error],
                 NEW v, v = [q EXCEPT !.file_error = TRUE, !.queue = <<>>, !.used = 0]
          PROVE  v = [queue |-> <<>>, used |-> 0, dropped |-> dropped, file_error |-> TRUE]
      BY <2>1
    <2>2. z = [Queue EXCEPT !.file_error = TRUE, !.queue = <<>>, !.used = 0]
      BY DEF Disabled
    <2> HIDE DEF z
    <2> QED
      BY <2>1, <2>2 DEF Queue
  <1> HIDE DEF z
  <1>3. z \in Queues /\ z.used = Charge(z.queue) /\ Len(z.queue) = 0
    BY <1>1, <1>2, ChargeFacts, Constants DEF Queues, Queue
  <1>4. QueueOK(z)
    BY <1>3 DEF QueueOK
  <1>5. SetQueue(z)
    BY DEF z
  <1>6. file_error' = TRUE /\ queue' = <<>>
    BY <1>2, <1>5 DEF SetQueue
  <1> QED
    BY <1>4, <1>5, <1>6, SetOK

LEMMA CountedOK ==
  ASSUME NEW q, QueueOK(q), NEW z, z = [q EXCEPT !.dropped = Counted(@)]
  PROVE  QueueOK(z) /\ z.queue = q.queue /\ z.file_error = q.file_error
         /\ z.dropped = Counted(q.dropped)
  <1>1. q \in Queues /\ q.dropped \in 0 .. CounterMax
    BY DEF QueueOK, Queues
  <1>2. Counted(q.dropped) \in 0 .. CounterMax
    BY <1>1, Constants DEF Counted
  <1>3. z = [queue |-> q.queue, used |-> q.used, dropped |-> Counted(q.dropped), file_error |-> q.file_error]
    BY <1>1, QueueFields
  <1>4. z \in Queues
    BY <1>1, <1>2, <1>3 DEF Queues
  <1> QED
    BY <1>3, <1>4 DEF QueueOK

LEMMA ShapeInit == Init => Shape
  <1> SUFFICES ASSUME Init PROVE Shape
    OBVIOUS
  <1>0. \A n \in Nat : Old(n) \in Records
    BY DEF Old, Records
  <1>1. \E found \in Seq(Records) : files = [k \in IF found = <<>> THEN {} ELSE {0} |-> found] /\ out = found
    <2>1. PICK found \in {<<>>, <<Old(FileLimit)>>, <<Old(FileLimit + 1)>>} :
            files = [k \in IF found = <<>> THEN {} ELSE {0} |-> found] /\ out = found
      BY DEF Init
    <2>2. found \in Seq(Records)
      <3>1. Old(FileLimit) \in Records /\ Old(FileLimit + 1) \in Records
        BY <1>0, Constants
      <3>2. \A r \in Records : <<r>> \in Seq(Records)
        OBVIOUS
      <3> HIDE DEF Old
      <3>3. <<Old(FileLimit)>> \in Seq(Records) /\ <<Old(FileLimit + 1)>> \in Seq(Records)
        BY <3>1, <3>2
      <3>4. <<>> \in Seq(Records)
        OBVIOUS
      <3> DEFINE a == <<>>  b == <<Old(FileLimit)>>  c == <<Old(FileLimit + 1)>>
      <3>5. found \in {a, b, c} /\ a \in Seq(Records) /\ b \in Seq(Records) /\ c \in Seq(Records)
        BY <3>3, <3>4
      <3> HIDE DEF a, b, c
      <3> QED
        BY <3>5
    <2> QED
      BY <2>1, <2>2
  <1>2. OthersOK
    <2>1. None \in Records
      BY DEF None, Records
    <2>2. /\ stop = FALSE /\ open = FALSE /\ signalled = FALSE /\ file_size = 0
          /\ pc = "check" /\ hand = None /\ next = 0 /\ calls = 0 /\ accepted = <<>>
          /\ missed = 0 /\ uncounted = 0 /\ faults = 0
      BY DEF Init
    <2>3. out \in Seq(Records) /\ accepted \in Seq(1 .. MaxCalls)
      BY <1>1, <2>2
    <2>4. 0 \in 0 .. FileCount /\ 0 \in 0 .. MaxCalls /\ 0 \in 0 .. MaxFaults /\ 0 \in Nat
      BY Constants
    <2> QED
      BY <2>1, <2>2, <2>3, <2>4 DEF OthersOK, Pcs
  <1>3. FilesOK
    <2>1. PICK found \in Seq(Records) : files = [k \in IF found = <<>> THEN {} ELSE {0} |-> found]
      BY <1>1
    <2>2. DOMAIN files \subseteq {0} /\ 0 \in Names
      BY <2>1, Constants
    <2>3. \A k \in DOMAIN files : files[k] = found
      BY <2>1
    <2> QED
      BY <2>2, <2>3 DEF FilesOK
  <1>4. QueueOK(Queue)
    <2>1. Queue = [queue |-> <<>>, used |-> 0, dropped |-> 0, file_error |-> FALSE]
      BY DEF Init, Queue
    <2>2. Queue \in Queues /\ Queue.queue = <<>> /\ Queue.used = 0
      BY <2>1, Constants DEF Queues
    <2> QED
      BY <2>2, ChargeFacts DEF QueueOK
  <1>5. Hands
    BY DEF Init, Hands, Busy
  <1> QED
    BY <1>2, <1>3, <1>4, <1>5 DEF Shape

LEMMA ShapeLog == Shape /\ Log => Shape'
  <1> SUFFICES ASSUME Shape, Log PROVE Shape'
    OBVIOUS
  <1>1. PICK length \in Lengths, mallocMarker \in BOOLEAN, mallocRecord \in BOOLEAN :
          LET n == calls + 1
              broken == (IF mallocMarker THEN 0 ELSE 1) + (IF mallocRecord THEN 0 ELSE 1)
              q == Recovered(Queue, mallocMarker)
          IN /\ ~stop /\ calls < MaxCalls
             /\ faults + broken <= MaxFaults /\ faults' = faults + broken
             /\ calls' = n /\ Signal
             /\ \/ file_error /\ UNCHANGED <<queueVars, accepted, missed, uncounted>>
                \/ /\ mallocRecord /\ Fits(q, length)
                   /\ SetQueue(Appended(q, Message(n, RecordLength(length))))
                   /\ accepted' = Append(accepted, n) /\ UNCHANGED <<missed, uncounted>>
                \/ /\ ~file_error /\ ~(mallocRecord /\ Fits(q, length))
                   /\ SetQueue([q EXCEPT !.dropped = Counted(@)])
                   /\ missed' = missed + 1
                   /\ uncounted' = uncounted + (IF q.dropped = CounterMax THEN 1 ELSE 0)
                   /\ UNCHANGED accepted
             /\ UNCHANGED <<stop, open, file_size, writer, files, out>>
    BY DEF Log
  <1> DEFINE n == calls + 1  q == Recovered(Queue, mallocMarker)
  <1>2. QueueOK(q) /\ q.file_error = file_error
    BY RecoveredOK DEF Shape, Queue
  <1>3. n \in 1 .. MaxCalls /\ n \in Nat /\ length \in Nat /\ accepted \in Seq(1 .. MaxCalls)
    BY <1>1, Constants DEF Shape, OthersOK
  <1>4. /\ faults' \in 0 .. MaxFaults /\ calls' \in 0 .. MaxCalls /\ signalled' = TRUE
        /\ UNCHANGED <<stop, open, file_size, pc, hand, next, files, out>>
    <2> DEFINE broken == (IF mallocMarker THEN 0 ELSE 1) + (IF mallocRecord THEN 0 ELSE 1)
    <2>1. broken \in Nat
      OBVIOUS
    <2> HIDE DEF broken
    <2>2. /\ faults + broken <= MaxFaults /\ faults' = faults + broken /\ calls' = n /\ signalled' = TRUE
          /\ UNCHANGED <<stop, open, file_size, pc, hand, next, files, out>>
      BY <1>1 DEF writer, Signal, broken
    <2>3. faults \in Nat
      BY Constants DEF Shape, OthersOK
    <2> HIDE DEF n
    <2>4. faults' \in 0 .. MaxFaults
      BY <2>1, <2>2, <2>3, Constants
    <2> QED
      BY <1>3, <2>2, <2>4, Constants
  <1> HIDE DEF n, q
  <1>5. QueueOK(Queue)' /\ (file_error' <=> file_error) /\ (file_error => queue' = queue)
    <2>1. CASE file_error /\ UNCHANGED queueVars
      BY <2>1, QueueStays DEF Shape, queueVars
    <2>2. CASE Fits(q, length) /\ SetQueue(Appended(q, Message(n, RecordLength(length))))
      <3> DEFINE r == Message(n, RecordLength(length))
      <3>1. r \in Records /\ r.kind \in Queued /\ r.length = RecordLength(length)
        BY <1>3, Prices, MadeRecords DEF Queued
      <3> HIDE DEF r
      <3>2. QueueOK(Appended(q, r)) /\ Appended(q, r).file_error = q.file_error
        BY <1>2, <1>3, <2>2, <3>1, AppendedOK
      <3>3. SetQueue(Appended(q, r)) /\ ~q.file_error
        BY <2>2 DEF r, Fits
      <3> QED
        BY <1>2, <3>2, <3>3, SetOK DEF SetQueue
    <2>3. CASE ~file_error /\ SetQueue([q EXCEPT !.dropped = Counted(@)])
      <3> DEFINE z == [q EXCEPT !.dropped = Counted(@)]
      <3>1. SetQueue(z) /\ z = [q EXCEPT !.dropped = Counted(@)]
        BY <2>3
      <3> HIDE DEF z
      <3>2. QueueOK(z) /\ z.file_error = q.file_error
        BY <1>2, <3>1, CountedOK
      <3> QED
        BY <1>2, <2>3, <3>1, <3>2, SetOK DEF SetQueue
    <2> QED
      BY <1>1, <2>1, <2>2, <2>3 DEF n, q
  <1>6. accepted' \in Seq(1 .. MaxCalls) /\ missed' \in Nat /\ uncounted' \in Nat
    <2>1. Append(accepted, n) \in Seq(1 .. MaxCalls)
      BY <1>3
    <2>2. missed \in Nat /\ uncounted \in Nat
      BY DEF Shape, OthersOK
    <2>3. /\ accepted' = accepted \/ accepted' = Append(accepted, n)
          /\ missed' = missed \/ missed' = missed + 1
          /\ uncounted' = uncounted \/ uncounted' = uncounted + 1 \/ uncounted' = uncounted + 0
      BY <1>1 DEF n, q
    <2>4. accepted' \in Seq(1 .. MaxCalls)
      <3> DEFINE V == Seq(1 .. MaxCalls)
      <3>1. accepted \in V /\ Append(accepted, n) \in V
        BY <1>3, <2>1
      <3> HIDE DEF V
      <3>2. accepted' \in V
        BY <2>3, <3>1
      <3> QED
        BY <3>2 DEF V
    <2> QED
      BY <2>2, <2>3, <2>4
  <1>7. OthersOK'
    BY <1>4, <1>6 DEF Shape, OthersOK
  <1>8. FilesOK'
    BY <1>4 DEF Shape, FilesOK
  <1>9. Hands'
    BY <1>4, <1>5 DEF Shape, Hands
  <1> QED
    BY <1>5, <1>7, <1>8, <1>9 DEF Shape

LEMMA ShapeLogNoMemory == Shape /\ LogNoMemory => Shape'
  <1> SUFFICES ASSUME Shape, LogNoMemory PROVE Shape'
    OBVIOUS
  <1>1. /\ UNCHANGED <<queue, used, file_error, stop, open, file_size, writer, signalled, files, out, accepted>>
        /\ calls < MaxCalls /\ calls' = calls + 1 /\ faults < MaxFaults /\ faults' = faults + 1
        /\ \/ UNCHANGED <<dropped, missed, uncounted>>
           \/ dropped' = Counted(dropped) /\ Miss
    BY DEF LogNoMemory
  <1>2. dropped' \in 0 .. CounterMax
    BY <1>1, Constants DEF Shape, QueueOK, Queues, Queue, Counted
  <1>3. QueueOK(Queue)'
    BY <1>1, <1>2 DEF Shape, QueueOK, Queues, Queue
  <1>4. OthersOK'
    BY <1>1, Constants DEF Shape, OthersOK, Miss, writer
  <1>5. FilesOK'
    BY <1>1 DEF Shape, FilesOK
  <1>6. Hands'
    BY <1>1 DEF Shape, Hands, writer
  <1> QED
    BY <1>3, <1>4, <1>5, <1>6 DEF Shape

LEMMA ShapeCheck == Shape /\ Check => Shape'
  <1> SUFFICES ASSUME Shape, Check PROVE Shape'
    OBVIOUS
  <1>1. UNCHANGED <<stop, file_size, next, files, out, calls, accepted, missed, uncounted>> /\ pc = "check"
    BY DEF Check
  <1>2. FilesOK'
    BY <1>1 DEF Shape, FilesOK
  <1>3. hand = None /\ None \in Records
    BY <1>1 DEF Shape, Hands, Busy, None, Records
  <1>4. CASE /\ pc' = "stopped" /\ hand' = None /\ SetQueue(Disabled(Queue)) /\ open' = FALSE
             /\ UNCHANGED <<signalled, faults>>
    <2>1. QueueOK(Queue)' /\ file_error' /\ queue' = <<>>
      BY <1>4, DisabledOK DEF Shape
    <2>2. OthersOK'
      BY <1>1, <1>3, <1>4 DEF Shape, OthersOK, Pcs
    <2>3. Hands'
      BY <1>4, <2>1 DEF Hands, Busy
    <2> QED
      BY <1>2, <2>1, <2>2, <2>3 DEF Shape
  <1>5. CASE pc' = "wait" /\ signalled' = FALSE /\ UNCHANGED <<queueVars, hand, open, faults>>
    <2>1. QueueOK(Queue)'
      BY <1>5, QueueStays DEF Shape
    <2>2. OthersOK'
      BY <1>1, <1>5 DEF Shape, OthersOK, Pcs
    <2>3. Hands'
      BY <1>1, <1>3, <1>5 DEF Shape, Hands, Busy, queueVars
    <2> QED
      BY <1>2, <2>1, <2>2, <2>3 DEF Shape
  <1>6. CASE /\ queue # <<>>
             /\ \E malloc \in BOOLEAN :
                  LET broken == IF malloc THEN 0 ELSE 1
                  IN /\ faults + broken <= MaxFaults /\ faults' = faults + broken
                     /\ SetQueue(Popped(Queue, malloc))
             /\ hand' = Head(queue) /\ pc' = "write" /\ UNCHANGED <<signalled, open>>
    <2>1. PICK malloc \in BOOLEAN :
             /\ faults + (IF malloc THEN 0 ELSE 1) <= MaxFaults
             /\ faults' = faults + (IF malloc THEN 0 ELSE 1)
             /\ SetQueue(Popped(Queue, malloc))
      BY <1>6
    <2> DEFINE z == [Queue EXCEPT !.queue = Tail(@), !.used = @ - Cost(Head(Queue.queue).length)]
    <2>2. Queue.queue = queue /\ Queue.file_error = file_error
      BY DEF Queue
    <2>3. /\ QueueOK(z) /\ z.file_error = file_error
          /\ Head(queue) \in Records /\ Head(queue).kind \in Queued
      <3> DEFINE q == Queue
      <3>1. QueueOK(q) /\ q.queue # <<>> /\ q.queue = queue /\ q.file_error = file_error
        BY <1>6, <2>2 DEF Shape
      <3>2. z = [q EXCEPT !.queue = Tail(@), !.used = @ - Cost(Head(q.queue).length)]
        OBVIOUS
      <3> HIDE DEF q, z
      <3> QED
        BY <3>1, <3>2, TailOK
    <2>4. Popped(Queue, malloc) = Recovered(z, malloc)
      BY DEF Popped
    <2> HIDE DEF z
    <2>5. QueueOK(Popped(Queue, malloc)) /\ Popped(Queue, malloc).file_error = file_error
      BY <2>3, <2>4, RecoveredOK
    <2>6. QueueOK(Queue)' /\ file_error' = file_error
      BY <2>1, <2>5, SetOK DEF SetQueue
    <2>7. OthersOK'
      BY <1>1, <1>6, <2>1, <2>3, Constants DEF Shape, OthersOK, Pcs
    <2>8. Hands'
      BY <1>6, <2>3, <2>6 DEF Shape, Hands, Busy
    <2> QED
      BY <1>2, <2>6, <2>7, <2>8 DEF Shape
  <1> QED
    BY <1>4, <1>5, <1>6 DEF Check

-----------------------------------------------------------------------------
(* The files.                                                              *)

LEMMA FileAtOK ==
  ASSUME FilesOK, NEW k
  PROVE  FileAt(k) \in Seq(Records) /\ Size(FileAt(k)) \in Nat
  <1>1. FileAt(k) \in Seq(Records)
    BY DEF FilesOK, FileAt
  <1>2. None \in Records
    BY DEF None, Records
  <1> QED
    BY <1>1, <1>2, SizeFacts

LEMMA ShapeQuiet ==
  ASSUME Shape, Abort \/ Wake \/ SpuriousWake \/ FileFails \/ StartRotation \/ UNCHANGED vars
  PROVE  Shape'
  <1>1. /\ UNCHANGED queueVars /\ UNCHANGED <<file_size, hand, files, out, history>>
        /\ next' = next \/ (next' = FileCount /\ pc' = "unlink")
        /\ (stop' = stop \/ stop' = TRUE) /\ (open' = open \/ open' = FALSE)
        /\ (signalled' = signalled \/ signalled' = TRUE)
        /\ \/ pc' = pc
           \/ pc = "wait" /\ pc' = "check"
           \/ pc \in Busy /\ pc' \in {"failed", "unlink"}
    <2>1. CASE Abort
      BY <2>1 DEF Abort, writer, Signal
    <2>2. CASE Wake
      BY <2>2 DEF Wake
    <2>3. CASE SpuriousWake
      BY <2>3 DEF SpuriousWake
    <2>4. CASE FileFails
      BY <2>4 DEF FileFails, Busy
    <2>5. CASE StartRotation
      BY <2>5 DEF StartRotation, Busy
    <2>6. CASE UNCHANGED vars
      BY <2>6 DEF vars, writer
    <2> QED
      BY <2>1, <2>2, <2>3, <2>4, <2>5, <2>6
  <1>2. QueueOK(Queue)'
    BY <1>1, QueueStays DEF Shape
  <1>3. OthersOK'
    <2>1. pc' \in Pcs /\ next' \in 0 .. FileCount
      BY <1>1, Constants DEF Shape, OthersOK, Pcs
    <2>2. stop' \in BOOLEAN /\ open' \in BOOLEAN /\ signalled' \in BOOLEAN
      BY <1>1 DEF Shape, OthersOK
    <2> QED
      BY <1>1, <2>1, <2>2 DEF Shape, OthersOK, history
  <1>4. FilesOK'
    BY <1>1 DEF Shape, FilesOK
  <1>5. Hands'
    BY <1>1 DEF Shape, Hands, Busy, queueVars
  <1> QED
    BY <1>2, <1>3, <1>4, <1>5 DEF Shape

LEMMA ShapeOpenLog == Shape /\ OpenLog => Shape'
  <1> SUFFICES ASSUME Shape, OpenLog PROVE Shape'
    OBVIOUS
  <1>1. /\ UNCHANGED <<queueVars, stop, hand, next, signalled, out, history>>
        /\ pc \in {"write", "reopen"} /\ pc' = "write" /\ open' = TRUE
        /\ file_size' = Size(FileAt(0))
        /\ files' = [k \in DOMAIN files \union {0} |-> FileAt(k)]
    BY DEF OpenLog, Opened
  <1>2. QueueOK(Queue)'
    BY <1>1, QueueStays DEF Shape
  <1>3. OthersOK'
    BY <1>1, Constants, FileAtOK DEF Shape, OthersOK, Pcs, history
  <1>4. FilesOK'
    <2>1. DOMAIN files' = DOMAIN files \union {0} /\ \A k \in DOMAIN files' : files'[k] = FileAt(k)
      BY <1>1
    <2>2. 0 \in Names
      BY Constants
    <2> QED
      BY <2>1, <2>2, FileAtOK DEF Shape, FilesOK
  <1>5. Hands'
    BY <1>1 DEF Shape, Hands, Busy, queueVars
  <1> QED
    BY <1>2, <1>3, <1>4, <1>5 DEF Shape

LEMMA ShapeUnlink == Shape /\ Unlink => Shape'
  <1> SUFFICES ASSUME Shape, Unlink PROVE Shape'
    OBVIOUS
  <1>1. /\ UNCHANGED <<queueVars, stop, open, file_size, hand, next, signalled, out, history>>
        /\ pc = "unlink" /\ pc' = (IF next > 1 THEN "rotate" ELSE "reopen")
        /\ files' = [k \in DOMAIN files \ {FileCount - 1} |-> files[k]]
    BY DEF Unlink, Without, Restrict
  <1>2. QueueOK(Queue)'
    BY <1>1, QueueStays DEF Shape
  <1>3. OthersOK'
    BY <1>1 DEF Shape, OthersOK, Pcs, history
  <1>4. FilesOK'
    BY <1>1 DEF Shape, FilesOK
  <1>5. Hands'
    BY <1>1, Constants DEF Shape, Hands, OthersOK, Busy, queueVars
  <1> QED
    BY <1>2, <1>3, <1>4, <1>5 DEF Shape

LEMMA ShapeRotate == Shape /\ Rotate => Shape'
  <1> SUFFICES ASSUME Shape, Rotate PROVE Shape'
    OBVIOUS
  <1>1. /\ UNCHANGED <<queueVars, stop, open, file_size, hand, signalled, out, history>>
        /\ pc = "rotate" /\ pc' = (IF next - 1 > 1 THEN "rotate" ELSE "reopen") /\ next' = next - 1
    BY DEF Rotate
  <1>2. next \in 2 .. FileCount
    BY <1>1, Constants DEF Shape, OthersOK, Hands
  <1>3. QueueOK(Queue)'
    BY <1>1, QueueStays DEF Shape
  <1>4. OthersOK'
    BY <1>1, <1>2, Constants DEF Shape, OthersOK, Pcs, history
  <1>5. FilesOK'
    <2>1. next - 1 \in Names
      BY <1>2, Constants
    <2>2. CASE files' = files
      BY <2>2 DEF Shape, FilesOK
    <2>3. CASE /\ next - 2 \in DOMAIN files
               /\ files' = [k \in (DOMAIN files \union {next - 1}) \ {next - 2} |->
                              IF k = next - 1 THEN files[next - 2] ELSE files[k]]
      BY <2>1, <2>3 DEF Shape, FilesOK
    <2> QED
      BY <2>2, <2>3 DEF Rotate
  <1>6. Hands'
    BY <1>1, <1>2, Constants DEF Shape, Hands, Busy, queueVars
  <1> QED
    BY <1>3, <1>4, <1>5, <1>6 DEF Shape

\* Both ways a write may end put a record behind the current file.
LEMMA FilesWritten ==
  ASSUME FilesOK, NEW r \in Records, files' = [files EXCEPT ![0] = Append(@, r)]
  PROVE  FilesOK'
  <1>1. /\ DOMAIN files' = DOMAIN files
        /\ \A k \in DOMAIN files : files'[k] = IF k = 0 THEN Append(files[k], r) ELSE files[k]
    OBVIOUS
  <1> QED
    BY <1>1 DEF FilesOK

LEMMA ShapeWrite == Shape /\ Write => Shape'
  <1> SUFFICES ASSUME Shape, Write PROVE Shape'
    OBVIOUS
  <1>1. /\ UNCHANGED <<queueVars, stop, open, next, signalled, history>>
        /\ files' = [files EXCEPT ![0] = Append(@, hand)] /\ out' = Append(out, hand)
        /\ file_size' = file_size + hand.length /\ pc = "write" /\ pc' = "check" /\ hand' = None
    BY DEF Write
  <1>2. QueueOK(Queue)'
    BY <1>1, QueueStays DEF Shape
  <1>3. hand \in Records /\ hand.length \in Nat /\ None \in Records
    BY DEF Shape, OthersOK, Records, None
  <1>4. OthersOK'
    <2>1. out' \in Seq(Records)
      BY <1>1, <1>3 DEF Shape, OthersOK
    <2>2. file_size' \in Nat
      BY <1>1, <1>3 DEF Shape, OthersOK
    <2> QED
      BY <1>1, <1>3, <2>1, <2>2 DEF Shape, OthersOK, Pcs, history
  <1>5. FilesOK'
    BY <1>1, <1>3, FilesWritten DEF Shape
  <1>6. Hands'
    BY <1>1 DEF Shape, Hands, Busy, queueVars
  <1> QED
    BY <1>2, <1>4, <1>5, <1>6 DEF Shape

LEMMA ShapeTears == Shape /\ WriteTears => Shape'
  <1> SUFFICES ASSUME Shape, WriteTears PROVE Shape'
    OBVIOUS
  <1>1. /\ UNCHANGED <<queueVars, stop, open, file_size, hand, next, signalled, history>>
        /\ pc = "write" /\ pc' = "failed"
    BY DEF WriteTears
  <1>2. PICK k \in 1 .. hand.length - 1 :
          /\ files' = [files EXCEPT ![0] = Append(@, [hand EXCEPT !.kind = "torn", !.length = k])]
          /\ out' = Append(out, [hand EXCEPT !.kind = "torn", !.length = k])
    BY DEF WriteTears
  <1> DEFINE r == [hand EXCEPT !.kind = "torn", !.length = k]
  <1>3. hand \in Records
    BY DEF Shape, OthersOK
  <1>4. k \in Nat
    OBVIOUS
  <1>5. r \in Records
    BY <1>3, <1>4 DEF Records
  <1>6. files' = [files EXCEPT ![0] = Append(@, r)] /\ out' = Append(out, r)
    BY <1>2
  <1> HIDE DEF r
  <1>7. QueueOK(Queue)'
    BY <1>1, QueueStays DEF Shape
  <1>8. OthersOK'
    <2>1. out' \in Seq(Records)
      BY <1>5, <1>6 DEF Shape, OthersOK
    <2> QED
      BY <1>1, <2>1 DEF Shape, OthersOK, Pcs, history
  <1>9. FilesOK'
    BY <1>5, <1>6, FilesWritten DEF Shape
  <1>10. Hands'
    BY <1>1 DEF Shape, Hands, Busy, queueVars
  <1> QED
    BY <1>7, <1>8, <1>9, <1>10 DEF Shape

LEMMA ShapeDisable == Shape /\ Disable => Shape'
  <1> SUFFICES ASSUME Shape, Disable PROVE Shape'
    OBVIOUS
  <1>1. /\ UNCHANGED <<stop, file_size, next, signalled, files, out, history>>
        /\ pc' = "check" /\ open' = FALSE /\ hand' = None /\ SetQueue(Disabled(Queue))
    BY DEF Disable
  <1>2. QueueOK(Queue)' /\ file_error' /\ queue' = <<>>
    BY <1>1, DisabledOK DEF Shape
  <1>3. None \in Records
    BY DEF None, Records
  <1>4. OthersOK'
    BY <1>1, <1>3 DEF Shape, OthersOK, Pcs, history
  <1>5. FilesOK'
    BY <1>1 DEF Shape, FilesOK
  <1>6. Hands'
    BY <1>1, <1>2 DEF Hands, Busy
  <1> QED
    BY <1>2, <1>4, <1>5, <1>6 DEF Shape

LEMMA ShapeStep == Shape /\ [Next]_vars => Shape'
  BY ShapeLog, ShapeLogNoMemory, ShapeCheck, ShapeQuiet, ShapeOpenLog, ShapeUnlink, ShapeRotate,
     ShapeWrite, ShapeTears, ShapeDisable DEF Next

\* The queue, the writer and the files keep their types, the queue is charged
\* what its records cost and never more than its capacity (log_queue.c:15-37).
THEOREM ShapeHolds == Spec => []Shape
  BY ShapeInit, ShapeStep, PTL DEF Spec

THEOREM TypesHold == Spec => []TypeOK
  BY ShapeHolds, ShapeTypes, PTL

-----------------------------------------------------------------------------
(* No message is unaccounted for.                                          *)

LEMMA PipelineIs ==
  ASSUME Shape
  PROVE  /\ Pipeline \in Seq(Records) /\ (out \o InHand) \in Seq(Records) /\ queue \in Seq(Records)
         /\ Pipeline = (out \o InHand) \o queue /\ out \in Seq(Records)
         /\ hand = None => out \o InHand = out
         /\ hand # None => out \o InHand = Append(out, hand)
  <1>1. out \in Seq(Records) /\ hand \in Records /\ queue \in Seq(Records)
    BY DEF Shape, OthersOK, QueueOK, Queues, Queue
  <1>2. CASE hand = None
    <2>1. InHand = <<>>
      BY <1>2 DEF InHand
    <2>2. out \o <<>> = out
      BY <1>1
    <2> QED
      BY <1>1, <1>2, <2>1, <2>2, JoinedThrice DEF Pipeline
  <1>3. CASE hand # None
    <2>1. InHand = <<hand>>
      BY <1>3 DEF InHand
    <2>2. out \o <<hand>> = Append(out, hand) /\ Append(out, hand) \in Seq(Records)
      BY <1>1
    <2> QED
      BY <1>1, <1>3, <2>1, <2>2, JoinedThrice DEF Pipeline
  <1> QED
    BY <1>2, <1>3

LEMMA CountsAreNumbers == Shape => dropped \in Nat /\ uncounted \in Nat /\ missed \in Nat
  BY Constants DEF Shape, OthersOK, QueueOK, Queues, Queue

LEMMA CountsLater == (Shape => dropped \in Nat /\ uncounted \in Nat /\ missed \in Nat)'
  BY CountsAreNumbers, PTL

LEMMA Balance ==
  ASSUME NEW r \in Int, NEW d \in Nat, NEW u \in Nat, NEW v \in Nat, NEW w \in Nat,
         NEW x \in Nat, NEW y \in Nat, NEW z \in Nat,
         r + u + v = w, d + x + y + w = u + v + z
  PROVE  (r + d) + x + y = z
  OBVIOUS

\* What goes into the pipeline is what was accepted and what was reported.
LEMMA AccountMoves ==
  ASSUME Shape, Shape', Account, Healthy' => Healthy,
         NEW a \in Seq(Nat), NEW d \in Nat, Grows(Pipeline, Pipeline', a, d),
         accepted' = accepted \o a, d + dropped' + uncounted' + missed = dropped + uncounted + missed'
  PROVE  Account'
  <1> SUFFICES ASSUME Healthy' PROVE AcceptedInOrder' /\ DropsCounted'
    BY DEF Account
  <1>1. AcceptedInOrder /\ DropsCounted
    BY DEF Account
  <1>2. Pipeline \in Seq(Records)
    BY PipelineIs
  <1>3. PICK x \in Seq(Records) : Pipeline' = Pipeline \o x /\ Messages(x) = a /\ Reported(x) = d
    BY DEF Grows
  <1>4. Messages(Pipeline') = Messages(Pipeline) \o a /\ Reported(Pipeline') = Reported(Pipeline) + d
        /\ Reported(Pipeline) \in Int
    BY <1>2, <1>3, Told
  <1>5. Messages(Pipeline) = accepted /\ Reported(Pipeline) + dropped + uncounted = missed
    BY <1>1 DEF AcceptedInOrder, DropsCounted, Messages, Reported
  <1>6. /\ dropped \in Nat /\ uncounted \in Nat /\ missed \in Nat
        /\ dropped' \in Nat /\ uncounted' \in Nat /\ missed' \in Nat
    BY CountsAreNumbers, CountsLater
  <1>7. Messages(Pipeline') = accepted'
    BY <1>4, <1>5
  <1>8. Reported(Pipeline') + dropped' + uncounted' = missed'
    <2> DEFINE r == Reported(Pipeline)  s == Reported(Pipeline')
    <2>1. r \in Int /\ s = r + d /\ r + dropped + uncounted = missed
      BY <1>4, <1>5
    <2> HIDE DEF r, s
    <2>2. (r + d) + dropped' + uncounted' = missed'
      <3> DEFINE u == dropped  v == uncounted  w == missed  xx == dropped'  y == uncounted'  z == missed'
      <3>1. /\ u \in Nat /\ v \in Nat /\ w \in Nat /\ xx \in Nat /\ y \in Nat /\ z \in Nat
            /\ r + u + v = w
        BY <1>6, <2>1
      <3>2. d + xx + y + w = u + v + z
        OBVIOUS
      <3> HIDE DEF u, v, w, xx, y, z
      <3>3. (r + d) + xx + y = z
        BY ONLY <2>1, <3>1, <3>2, Balance
      <3> QED
        BY <3>3 DEF xx, y, z
    <2> QED
      BY <2>1, <2>2 DEF s
  <1> QED
    BY <1>7, <1>8 DEF AcceptedInOrder, DropsCounted, Messages, Reported

LEMMA AccountStays ==
  ASSUME Shape, Shape', Account, Healthy' => Healthy, Pipeline' = Pipeline,
         UNCHANGED <<accepted, dropped, uncounted, missed>>
  PROVE  Account'
  BY DEF Account, AcceptedInOrder, DropsCounted

LEMMA AccountInit == Init => Account
  <1> SUFFICES ASSUME Init PROVE Account
    OBVIOUS
  <1>1. /\ queue = <<>> /\ hand = None /\ accepted = <<>> /\ missed = 0 /\ dropped = 0 /\ uncounted = 0
    BY DEF Init
  <1>2. Shape
    BY ShapeInit
  <1>3. Pipeline = out
    BY <1>1, <1>2, PipelineIs
  <1>4. ASSUME NEW n \in Nat, NEW kind \in {"message", "drops"}
        PROVE  NumbersOf(kind, <<Old(n)>>) = <<>>
    <2>1. Old(n) \in Records /\ Old(n).kind # kind
      BY DEF Old, Records
    <2> QED
      BY <2>1, NumbersFew
  <1>5. Messages(out) = <<>> /\ NumbersOf("drops", out) = <<>>
    <2>1. PICK found \in {<<>>, <<Old(FileLimit)>>, <<Old(FileLimit + 1)>>} : out = found
      BY DEF Init
    <2>2. FileLimit \in Nat /\ FileLimit + 1 \in Nat
      BY Constants
    <2>3. ASSUME NEW kind \in {"message", "drops"} PROVE NumbersOf(kind, found) = <<>>
      <3> DEFINE e == <<>>  b == <<Old(FileLimit)>>  c == <<Old(FileLimit + 1)>>
      <3>1. /\ found \in {e, b, c}
            /\ NumbersOf(kind, e) = <<>> /\ NumbersOf(kind, b) = <<>> /\ NumbersOf(kind, c) = <<>>
        BY <1>4, <2>2, NumbersFew
      <3> HIDE DEF e, b, c
      <3> QED
        BY <3>1
    <2> QED
      BY <2>1, <2>3 DEF Messages
  <1> QED
    BY <1>1, <1>3, <1>5, SumFew DEF Account, AcceptedInOrder, DropsCounted, Messages

LEMMA AccountLog ==
  ASSUME Shape, Shape', Account, Log
  PROVE  Account'
  <1>1. PICK length \in Lengths, mallocMarker \in BOOLEAN, mallocRecord \in BOOLEAN :
          LET n == calls + 1
              broken == (IF mallocMarker THEN 0 ELSE 1) + (IF mallocRecord THEN 0 ELSE 1)
              q == Recovered(Queue, mallocMarker)
          IN /\ ~stop /\ calls < MaxCalls
             /\ faults + broken <= MaxFaults /\ faults' = faults + broken
             /\ calls' = n /\ Signal
             /\ \/ file_error /\ UNCHANGED <<queueVars, accepted, missed, uncounted>>
                \/ /\ mallocRecord /\ Fits(q, length)
                   /\ SetQueue(Appended(q, Message(n, RecordLength(length))))
                   /\ accepted' = Append(accepted, n) /\ UNCHANGED <<missed, uncounted>>
                \/ /\ ~file_error /\ ~(mallocRecord /\ Fits(q, length))
                   /\ SetQueue([q EXCEPT !.dropped = Counted(@)])
                   /\ missed' = missed + 1
                   /\ uncounted' = uncounted + (IF q.dropped = CounterMax THEN 1 ELSE 0)
                   /\ UNCHANGED accepted
             /\ UNCHANGED <<stop, open, file_size, writer, files, out>>
    BY DEF Log
  <1> DEFINE n == calls + 1  q == Recovered(Queue, mallocMarker)  p == out \o InHand
  <1>2. /\ QueueOK(q) /\ q.file_error = file_error
        /\ \E d \in Nat : d + q.dropped = dropped /\ Grows(queue, q.queue, <<>>, d)
    <2>1. Queue.queue = queue /\ Queue.dropped = dropped /\ Queue.file_error = file_error
      BY DEF Queue
    <2> QED
      BY <2>1, RecoveredOK DEF Shape
  <1>3. PICK d \in Nat : d + q.dropped = dropped /\ Grows(queue, q.queue, <<>>, d)
    BY <1>2
  <1>4. n \in Nat /\ length \in Nat
    BY <1>1, Constants DEF Shape, OthersOK
  <1>5. UNCHANGED <<stop, pc, hand, out>> /\ UNCHANGED InHand /\ p' = p
    BY <1>1 DEF writer, InHand
  <1>6. p \in Seq(Records) /\ queue \in Seq(Records) /\ Pipeline = p \o queue /\ Pipeline' = p \o queue'
    BY <1>5, PipelineIs DEF Pipeline
  <1>7. q.queue \in Seq(Records) /\ q.dropped \in Nat
    BY <1>2, Constants DEF QueueOK, Queues
  <1>8. accepted \in Seq(Nat) /\ missed \in Nat /\ uncounted \in Nat
    BY Constants DEF Shape, OthersOK
  <1>9. /\ \/ file_error /\ UNCHANGED queueVars
           \/ /\ Fits(q, length) /\ SetQueue(Appended(q, Message(n, RecordLength(length))))
              /\ accepted' = Append(accepted, n) /\ UNCHANGED <<missed, uncounted>>
           \/ /\ ~file_error /\ SetQueue([q EXCEPT !.dropped = Counted(@)])
              /\ missed' = missed + 1
              /\ uncounted' = uncounted + (IF q.dropped = CounterMax THEN 1 ELSE 0)
              /\ UNCHANGED accepted
    BY <1>1
  <1> HIDE DEF n, q, p
  <1>10. CASE file_error /\ UNCHANGED queueVars
    BY <1>10 DEF Account, Healthy, queueVars
  <1>11. CASE /\ Fits(q, length) /\ SetQueue(Appended(q, Message(n, RecordLength(length))))
              /\ accepted' = Append(accepted, n) /\ UNCHANGED <<missed, uncounted>>
    <2> DEFINE l == RecordLength(length)  r == Message(n, l)
    <2>0. l \in Nat
      BY <1>4, Prices
    <2>1. r \in Records /\ r.kind \in Queued /\ r.length = RecordLength(length)
      BY <1>4, <2>0, MadeRecords DEF Queued
    <2> HIDE DEF l
    <2>2. Grows(q.queue, Append(q.queue, r), <<n>>, 0)
      <3> DEFINE z == q.queue
      <3>1. z \in Seq(Records)
        BY <1>7
      <3> HIDE DEF z
      <3>2. Grows(z, Append(z, Message(n, l)), <<n>>, 0)
        BY <1>4, <2>0, <3>1, GrowsByOne
      <3> QED
        BY <3>2 DEF z
    <2>3. SetQueue(Appended(q, r))
      BY <1>11 DEF l
    <2> HIDE DEF r
    <2>4. /\ Appended(q, r).queue = Append(q.queue, r) /\ Appended(q, r).dropped = q.dropped
          /\ Appended(q, r).file_error = q.file_error
      BY <1>2, <1>4, <1>11, <2>1, AppendedOK
    <2>5. queue' = Append(q.queue, r) /\ dropped' = q.dropped /\ file_error' = q.file_error
      BY <2>3, <2>4 DEF SetQueue
    <2>6. Grows(queue, queue', <<>> \o <<n>>, d + 0)
      BY <1>3, <1>6, <2>2, <2>5, GrowsThen
    <2>7. <<>> \o <<n>> = <<n>> /\ d + 0 = d /\ <<n>> \in Seq(Nat)
      BY <1>4
    <2>8. Grows(queue, queue', <<n>>, d)
      BY <2>6, <2>7
    <2>9. Grows(Pipeline, Pipeline', <<n>>, d)
      BY <1>6, <2>8, GrowsBehind
    <2>10. accepted' = accepted \o <<n>>
      BY <1>4, <1>8, <1>11
    <2>11. d + dropped' + uncounted' + missed = dropped + uncounted + missed'
      BY <1>3, <1>7, <1>8, <1>11, <2>5
    <2>12. Healthy' => Healthy
      BY <1>2, <1>5, <2>5 DEF Healthy
    <2> QED
      BY <2>7, <2>9, <2>10, <2>11, <2>12, AccountMoves
  <1>12. CASE /\ ~file_error /\ SetQueue([q EXCEPT !.dropped = Counted(@)])
              /\ missed' = missed + 1
              /\ uncounted' = uncounted + (IF q.dropped = CounterMax THEN 1 ELSE 0)
              /\ UNCHANGED accepted
    <2> DEFINE z == [q EXCEPT !.dropped = Counted(@)]
    <2>1. SetQueue(z) /\ z = [q EXCEPT !.dropped = Counted(@)]
      BY <1>12
    <2> HIDE DEF z
    <2>2. z.queue = q.queue /\ z.file_error = q.file_error /\ z.dropped = Counted(q.dropped)
      BY <1>2, <2>1, CountedOK
    <2>3. queue' = q.queue /\ file_error' = q.file_error /\ dropped' = Counted(q.dropped)
      BY <2>1, <2>2 DEF SetQueue
    <2>4. Grows(queue, queue', <<>>, d)
      BY <1>3, <2>3
    <2>5. Grows(Pipeline, Pipeline', <<>>, d)
      BY <1>6, <2>4, GrowsBehind
    <2>6. accepted' = accepted \o <<>> /\ <<>> \in Seq(Nat)
      BY <1>8, <1>12
    <2>7. d + dropped' + uncounted' + missed = dropped + uncounted + missed'
      <3>1. CASE q.dropped = CounterMax
        BY <1>3, <1>7, <1>8, <1>12, <2>3, <3>1 DEF Counted
      <3>2. CASE q.dropped # CounterMax
        <4> DEFINE c == q.dropped
        <4>1. /\ d + c = dropped /\ dropped' = c + 1 /\ uncounted' = uncounted /\ missed' = missed + 1
              /\ d \in Nat /\ c \in Nat /\ uncounted \in Nat /\ missed \in Nat
          BY <1>3, <1>7, <1>8, <1>12, <2>3, <3>2 DEF Counted
        <4> HIDE DEF c
        <4> QED
          BY ONLY <4>1
      <3> QED
        BY <3>1, <3>2
    <2>8. Healthy' => Healthy
      BY <1>2, <1>5, <2>3 DEF Healthy
    <2> QED
      BY <2>5, <2>6, <2>7, <2>8, AccountMoves
  <1> QED
    BY <1>9, <1>10, <1>11, <1>12

LEMMA AccountLogNoMemory ==
  ASSUME Shape, Shape', Account, LogNoMemory
  PROVE  Account'
  <1>1. /\ UNCHANGED <<queue, file_error, pc, hand, out, accepted>>
        /\ \/ file_error /\ UNCHANGED <<dropped, missed, uncounted>>
           \/ dropped' = Counted(dropped) /\ Miss
    BY DEF LogNoMemory, writer
  <1>2. InHand' = InHand
    BY <1>1 DEF InHand
  <1>3. Pipeline' = Pipeline
    BY <1>1, <1>2 DEF Pipeline
  <1>4. Healthy' => Healthy
    BY <1>1 DEF Healthy
  <1>5. CASE file_error
    BY <1>1, <1>5 DEF Account, Healthy
  <1>6. CASE dropped' = Counted(dropped) /\ Miss
    <2>1. dropped \in Nat /\ uncounted \in Nat /\ missed \in Nat /\ accepted \in Seq(Nat)
      BY CountsAreNumbers, Constants DEF Shape, OthersOK
    <2>2. 0 + dropped' + uncounted' + missed = dropped + uncounted + missed'
      <3>1. CASE dropped = CounterMax
        BY <1>6, <2>1, <3>1 DEF Counted, Miss
      <3>2. CASE dropped # CounterMax
        BY <1>6, <2>1, <3>2 DEF Counted, Miss
      <3> QED
        BY <3>1, <3>2
    <2>3. Grows(Pipeline, Pipeline', <<>>, 0)
      <3> DEFINE p == Pipeline
      <3>1. p \in Seq(Records)
        BY PipelineIs
      <3> HIDE DEF p
      <3>2. Grows(p, p, <<>>, 0)
        BY <3>1, GrowsByOne
      <3> QED
        BY <1>3, <3>2 DEF p
    <2>4. accepted' = accepted \o <<>> /\ <<>> \in Seq(Nat) /\ 0 \in Nat
      BY <1>1, <2>1
    <2> QED
      BY <1>4, <2>2, <2>3, <2>4, AccountMoves
  <1> QED
    BY <1>1, <1>5, <1>6

\* What is popped is in hand, so the pipeline does not change but for the
\* record of the drops that may come in at its end.
LEMMA AccountCheck ==
  ASSUME Shape, Shape', Account, Check
  PROVE  Account'
  <1>1. UNCHANGED <<out, accepted, missed, uncounted>> /\ pc = "check"
    BY DEF Check
  <1>2. hand = None
    BY <1>1 DEF Shape, Hands, Busy
  <1>3. CASE SetQueue(Disabled(Queue))
    BY <1>3, DisabledOK DEF Shape, Account, Healthy
  <1>4. CASE pc' = "wait" /\ UNCHANGED <<queueVars, hand>>
    <2>1. Pipeline' = Pipeline
      BY <1>1, <1>4 DEF Pipeline, InHand, queueVars
    <2> QED
      BY <1>1, <1>4, <2>1, AccountStays DEF Healthy, queueVars
  <1>5. CASE /\ queue # <<>> /\ hand' = Head(queue)
             /\ \E malloc \in BOOLEAN : SetQueue(Popped(Queue, malloc))
    <2>1. PICK malloc \in BOOLEAN : SetQueue(Popped(Queue, malloc))
      BY <1>5
    <2> DEFINE z == [Queue EXCEPT !.queue = Tail(@), !.used = @ - Cost(Head(Queue.queue).length)]
               h == Head(queue)  t == Tail(queue)
    <2>2. Queue.queue = queue /\ Queue.file_error = file_error /\ Queue.dropped = dropped
      BY DEF Queue
    <2>3. /\ QueueOK(z) /\ z.file_error = file_error /\ z.queue = t /\ z.dropped = dropped
          /\ h \in Records /\ h.kind \in Queued
      <3> DEFINE q == Queue
      <3>1. QueueOK(q) /\ q.queue # <<>> /\ q.queue = queue /\ q.file_error = file_error /\ q.dropped = dropped
        BY <1>5, <2>2 DEF Shape
      <3>2. z = [q EXCEPT !.queue = Tail(@), !.used = @ - Cost(Head(q.queue).length)]
        OBVIOUS
      <3> HIDE DEF q, z
      <3> QED
        BY <3>1, <3>2, TailOK
    <2>4. Popped(Queue, malloc) = Recovered(z, malloc)
      BY DEF Popped
    <2>5. queue \in Seq(Records) /\ out \in Seq(Records) /\ Pipeline = out \o queue
      BY <1>2, PipelineIs
    <2>6. t \in Seq(Records) /\ queue = <<h>> \o t /\ <<h>> \in Seq(Records)
          /\ Append(out, h) = out \o <<h>> /\ Append(out, h) \in Seq(Records)
      BY <1>5, <2>3, <2>5
    <2>7. h # None
      BY <2>3 DEF None, Queued
    <2> HIDE DEF z, h, t
    <2>8. /\ Popped(Queue, malloc).file_error = file_error
          /\ \E d \in Nat : /\ d + Popped(Queue, malloc).dropped = dropped
                            /\ Grows(t, Popped(Queue, malloc).queue, <<>>, d)
      BY <2>3, <2>4, RecoveredOK
    <2>9. PICK d \in Nat : d + dropped' = dropped /\ Grows(t, queue', <<>>, d)
      BY <2>1, <2>8 DEF SetQueue
    <2>10. file_error' = file_error
      BY <2>1, <2>8 DEF SetQueue
    <2>11. Pipeline = Append(out, h) \o t
      BY <2>5, <2>6, JoinedThrice
    <2>12. Pipeline' = Append(out, h) \o queue'
      <3>1. InHand' = <<h>>
        BY <1>5, <2>7 DEF InHand, h
      <3> QED
        BY <1>1, <2>6, <3>1 DEF Pipeline
    <2>13. Grows(Pipeline, Pipeline', <<>>, d)
      BY <2>6, <2>9, <2>11, <2>12, GrowsBehind
    <2>14. accepted' = accepted \o <<>> /\ <<>> \in Seq(Nat)
      <3>1. accepted \in Seq(1 .. MaxCalls)
        BY DEF Shape, OthersOK
      <3> QED
        BY <1>1, <3>1
    <2>15. d + dropped' + uncounted' + missed = dropped + uncounted + missed'
      BY <1>1, <2>9, CountsAreNumbers, CountsLater
    <2>16. Healthy' => Healthy
      BY <1>1, <2>10 DEF Healthy
    <2> QED
      BY <2>13, <2>14, <2>15, <2>16, AccountMoves
  <1> QED
    BY <1>3, <1>4, <1>5 DEF Check

LEMMA AccountWrite ==
  ASSUME Shape, Shape', Account, Write
  PROVE  Account'
  <1>1. /\ UNCHANGED <<queueVars, accepted, missed, uncounted>>
        /\ out' = Append(out, hand) /\ hand' = None /\ pc = "write"
    BY DEF Write, history
  <1>2. hand # None
    BY <1>1 DEF Shape, Hands, Busy, Queued, None
  <1>3. Pipeline = Append(out, hand) \o queue /\ out \in Seq(Records) /\ hand \in Records
    BY <1>2, PipelineIs DEF Shape, OthersOK
  <1>4. Pipeline' = Pipeline
    <2>1. InHand' = <<>> /\ queue' = queue
      BY <1>1 DEF InHand, queueVars
    <2>2. Append(out, hand) \o <<>> = Append(out, hand)
      BY <1>3
    <2> QED
      BY <1>1, <1>3, <2>1, <2>2 DEF Pipeline
  <1>5. Healthy' => Healthy
    BY <1>1 DEF Healthy, queueVars
  <1> QED
    BY <1>1, <1>4, <1>5, AccountStays DEF queueVars

LEMMA AccountQuiet ==
  ASSUME Shape, Shape', Account,
         UNCHANGED <<queueVars, hand, out, accepted, missed, uncounted>>, pc = "failed" => pc' = "failed"
  PROVE  Account'
  <1>1. Pipeline' = Pipeline
    BY DEF Pipeline, InHand, queueVars
  <1>2. Healthy' => Healthy
    BY DEF Healthy, queueVars
  <1> QED
    BY <1>1, <1>2, AccountStays DEF queueVars

LEMMA AccountStep == Accounted /\ [Next]_vars => Accounted'
  <1> SUFFICES ASSUME Shape, Account, [Next]_vars PROVE Shape' /\ Account'
    BY DEF Accounted
  <1>1. Shape'
    BY ShapeStep
  <1>2. CASE Abort \/ Wake \/ SpuriousWake \/ UNCHANGED vars
    BY <1>1, <1>2, AccountQuiet DEF Abort, Wake, SpuriousWake, vars, writer, history
  <1>3. CASE OpenLog \/ StartRotation \/ Unlink \/ Rotate \/ FileFails
    BY <1>1, <1>3, AccountQuiet DEF OpenLog, Opened, StartRotation, Unlink, Rotate, FileFails, history
  <1>4. CASE WriteTears
    BY <1>1, <1>4 DEF WriteTears, Account, Healthy
  <1>5. CASE Disable
    <2>1. file_error'
      BY <1>5, DisabledOK DEF Disable, Shape
    <2> QED
      BY <1>1, <2>1 DEF Account, Healthy
  <1> QED
    BY <1>1, <1>2, <1>3, <1>4, <1>5, AccountLog, AccountLogNoMemory, AccountCheck, AccountWrite DEF Next

LEMMA AccountedHolds == Spec => []Accounted
  BY ShapeInit, AccountInit, AccountStep, PTL DEF Spec, Accounted

\* As long as the file works every message written, in hand or queued is an
\* accepted one, in the order of acceptance, every drop is counted once, and
\* the queue is charged exactly its records (log_queue.c:13-67).
THEOREM EveryMessageAccounted == Spec => []NothingUnaccounted
  <1>1. Accounted => NothingUnaccounted
    BY DEF Accounted, Account, NothingUnaccounted, Shape, QueueOK, Queue, UsedIsCharged, Charge
  <1> QED
    BY <1>1, AccountedHolds, PTL

-----------------------------------------------------------------------------
(* A sequence of parts and the whole they make.                            *)

\* The parts of a log and their concatenation, opaque so that the laws below
\* are all that the provers need to know of them.
Parts == Seq(Records)
Joined(a, b) == a \o b

LEMMA JoinLaws ==
  /\ <<>> \in Parts
  /\ \A a, b \in Parts : Joined(a, b) \in Parts
  /\ \A a, b, c \in Parts : Joined(Joined(a, b), c) = Joined(a, Joined(b, c))
  /\ \A a \in Parts : Joined(<<>>, a) = a /\ Joined(a, <<>>) = a
  <1>1. ASSUME NEW a \in Seq(Records), NEW b \in Seq(Records), NEW c \in Seq(Records)
        PROVE  (a \o b) \o c = a \o (b \o c) /\ (a \o b) \in Seq(Records) /\ <<>> \o a = a /\ a \o <<>> = a
    BY JoinedThrice
  <1> QED
    BY <1>1 DEF Parts, Joined

Folded(f, g, n) ==
  /\ f \in [Nat -> Parts] /\ f[0] = <<>>
  /\ \A i \in Nat : i + 1 <= n => f[i + 1] = Joined(f[i], g[i + 1])

LEMMA FlattenIs ==
  ASSUME NEW n \in Nat, n >= 1, NEW g \in [1 .. n -> Parts]
  PROVE  \E f : Folded(f, g, n) /\ FlattenSeq(g) = f[n]
  <1> DEFINE step == [p \in (Nat \ {0}) \X Parts |-> IF p[1] \in 1 .. n THEN Joined(p[2], g[p[1]]) ELSE <<>>]
  <1>2. \A i \in 1 .. n : g[i] \in Parts
    OBVIOUS
  <1>l. Len(g) = n
    OBVIOUS
  <1>3. step \in [(Nat \ {0}) \X Parts -> Parts]
    BY <1>2, JoinLaws
  <1>4. ASSUME NEW i \in 1 .. n, NEW q \in Parts PROVE step[<<i, q>>] = Joined(q, g[i])
    <2>1. <<i, q>> \in (Nat \ {0}) \X Parts
      OBVIOUS
    <2> QED
      BY <2>1
  <1> HIDE DEF step
  <1>5. \A m \in Nat : \E f \in [0 .. m -> Parts] : Computed(m, f, <<>>, step)
    BY <1>3, JoinLaws, ComputedExists
  <1>6. PICK h \in [0 .. n -> Parts] : Computed(n, h, <<>>, step)
    BY <1>5
  <1>7. h = [j \in 0 .. n |-> IF j = 0 THEN <<>> ELSE step[<<j, h[j - 1]>>]]
    BY <1>6 DEF Computed
  <1>a. h[0] = <<>>
    <2>1. 0 \in 0 .. n
      OBVIOUS
    <2> QED
      BY <1>7, <2>1
  <1>b. ASSUME NEW i \in 1 .. n PROVE h[i] = Joined(h[i - 1], g[i]) /\ h[i - 1] \in Parts
    <2>1. i \in 0 .. n /\ i # 0 /\ i - 1 \in 0 .. n
      OBVIOUS
    <2>2. h[i] = step[<<i, h[i - 1]>>]
      BY <1>7, <2>1
    <2> QED
      BY <1>4, <2>1, <2>2
  <1>c. ASSUME NEW i \in 1 .. n PROVE h[i] = IF i = 1 THEN g[i] ELSE h[i - 1] \o g[i]
    <2>1. CASE i = 1
      <3>1. h[i - 1] = <<>>
        BY <1>a, <2>1
      <3> QED
        BY <1>2, <1>b, <2>1, <3>1, JoinLaws
    <2>2. CASE i # 1
      BY <1>b, <2>2 DEF Joined
    <2> QED
      BY <2>1, <2>2
  <1> DEFINE e == [i \in 1 .. n |-> h[i]]
             c == CHOOSE z : z = [i \in 1 .. Len(g) |-> IF i = 1 THEN g[i] ELSE z[i - 1] \o g[i]]
  <1>10. e = [i \in 1 .. Len(g) |-> IF i = 1 THEN g[i] ELSE e[i - 1] \o g[i]]
    <2>1. ASSUME NEW i \in 1 .. n
          PROVE  e[i] = IF i = 1 THEN g[i] ELSE e[i - 1] \o g[i]
      <3>1. e[i] = h[i] /\ (i # 1 => i - 1 \in 1 .. n)
        OBVIOUS
      <3>2. i # 1 => e[i - 1] = h[i - 1]
        BY <3>1
      <3> HIDE DEF e
      <3> QED
        BY <1>c, <3>1, <3>2
    <2>2. e = [i \in 1 .. n |-> e[i]]
      OBVIOUS
    <2> HIDE DEF e
    <2> QED
      BY <1>l, <2>1, <2>2
  <1> HIDE DEF e
  <1>11. c = [i \in 1 .. Len(g) |-> IF i = 1 THEN g[i] ELSE c[i - 1] \o g[i]]
    BY <1>10
  <1>12. FlattenSeq(g) = c[n]
    BY <1>l DEF FlattenSeq
  <1> HIDE DEF c
  <1>13. \A i \in 1 .. n : c[i] = IF i = 1 THEN g[i] ELSE c[i - 1] \o g[i]
    BY <1>11, <1>l
  <1> DEFINE S == {i \in Nat : i + 1 <= n => c[i + 1] = h[i + 1]}
  <1>14. 0 \in S
    BY <1>13, <1>c
  <1>15. ASSUME NEW i \in Nat, i \in S PROVE i + 1 \in S
    <2> DEFINE j == i + 1  k == j + 1
    <2>1. j \in Nat /\ k \in Nat /\ k - 1 = j /\ k # 1
      OBVIOUS
    <2>2. (i \in S => (j <= n => c[j] = h[j])) /\ ((k <= n => c[k] = h[k]) => j \in S)
      OBVIOUS
    <2>3. k <= n => j <= n /\ k \in 1 .. n
      OBVIOUS
    <2> HIDE DEF S, k
    <2>4. k <= n => c[k] = c[j] \o g[k] /\ h[k] = h[j] \o g[k]
      BY <1>13, <1>c, <2>1, <2>3
    <2> QED
      BY <1>15, <2>2, <2>3, <2>4
  <1>16. Nat \subseteq S
    <2> HIDE DEF S
    <2> QED
      BY <1>14, <1>15, SetInduction
  <1>17. c[n] = h[n]
    <2>1. n - 1 \in Nat /\ (n - 1) + 1 = n
      OBVIOUS
    <2>2. n - 1 \in S
      BY <1>16, <2>1
    <2> QED
      BY <2>1, <2>2
  <1> HIDE DEF S
  <1> DEFINE f == [i \in Nat |-> IF i \in 0 .. n THEN h[i] ELSE <<>>]
  <1>18. f \in [Nat -> Parts]
    BY JoinLaws
  <1>19. f[0] = <<>> /\ f[n] = h[n]
    BY <1>a
  <1>20. ASSUME NEW i \in Nat, i + 1 <= n PROVE f[i + 1] = Joined(f[i], g[i + 1])
    <2>1. i + 1 \in 1 .. n /\ (i + 1) - 1 = i /\ i \in 0 .. n /\ i + 1 \in 0 .. n /\ i + 1 \in Nat
      BY <1>20
    <2>2. f[i + 1] = h[i + 1] /\ f[i] = h[i]
      BY <2>1
    <2> HIDE DEF f
    <2>3. h[i + 1] = Joined(h[(i + 1) - 1], g[i + 1])
      BY <1>b, <2>1
    <2> QED
      BY <2>1, <2>2, <2>3
  <1> HIDE DEF f
  <1>21. Folded(f, g, n)
    BY <1>18, <1>19, <1>20 DEF Folded
  <1> QED
    BY <1>12, <1>17, <1>19, <1>21

LEMMA FoldedStep ==
  ASSUME NEW n \in Nat, NEW f, NEW g, Folded(f, g, n), NEW i \in Nat, NEW j, j = i + 1, j <= n
  PROVE  f[j] = Joined(f[i], g[j]) /\ f[i] \in Parts /\ f[j] \in Parts /\ j \in 1 .. n /\ j \in Nat
  <1>1. f \in [Nat -> Parts] /\ f[i + 1] = Joined(f[i], g[i + 1])
    BY DEF Folded
  <1>2. j \in Nat /\ j \in 1 .. n
    OBVIOUS
  <1> QED
    BY <1>1, <1>2

\* Nothing in any part, nothing in the whole.
LEMMA FlattenNothing ==
  ASSUME NEW n \in Nat, n >= 1, NEW g \in [1 .. n -> Parts], \A i \in 1 .. n : g[i] = <<>>
  PROVE  FlattenSeq(g) = <<>>
  <1>1. PICK f : Folded(f, g, n) /\ FlattenSeq(g) = f[n]
    BY FlattenIs
  <1> DEFINE S == {i \in Nat : i <= n => f[i] = <<>>}
  <1>3. 0 \in S
    BY <1>1 DEF Folded
  <1>4. ASSUME NEW i \in Nat, i \in S PROVE i + 1 \in S
    <2> DEFINE j == i + 1
    <2>1. j = i + 1 /\ j \in Nat /\ (j <= n => i <= n)
      OBVIOUS
    <2> HIDE DEF j
    <2>2. CASE j <= n
      <3>1. f[j] = Joined(f[i], g[j]) /\ j \in 1 .. n
        BY <1>1, <2>1, <2>2, FoldedStep
      <3> QED
        BY <1>4, <2>1, <2>2, <3>1, JoinLaws
    <2> QED
      BY <2>1, <2>2
  <1> HIDE DEF S
  <1>5. Nat \subseteq S
    BY <1>3, <1>4, SetInduction
  <1> QED
    BY <1>1, <1>5 DEF S

\* More in the last part, more at the end of the whole.
LEMMA FlattenGrows ==
  ASSUME NEW n \in Nat, n >= 1, NEW g \in [1 .. n -> Parts], NEW h \in [1 .. n -> Parts],
         NEW x \in Parts, \A i \in 1 .. n - 1 : h[i] = g[i], h[n] = Joined(g[n], x)
  PROVE  FlattenSeq(h) = Joined(FlattenSeq(g), x) /\ FlattenSeq(g) \in Parts
  <1>1. PICK f : Folded(f, g, n) /\ FlattenSeq(g) = f[n]
    BY FlattenIs
  <1>2. PICK e : Folded(e, h, n) /\ FlattenSeq(h) = e[n]
    BY FlattenIs
  <1> DEFINE S == {i \in Nat : i <= n - 1 => e[i] = f[i]}
  <1>5. 0 \in S
    BY <1>1, <1>2 DEF Folded
  <1>6. ASSUME NEW i \in Nat, i \in S PROVE i + 1 \in S
    <2> DEFINE j == i + 1
    <2>1. j = i + 1 /\ j \in Nat /\ (j <= n - 1 => i <= n - 1 /\ j <= n /\ j \in 1 .. n - 1)
      OBVIOUS
    <2> HIDE DEF j
    <2>2. CASE j <= n - 1
      <3>1. f[j] = Joined(f[i], g[j]) /\ e[j] = Joined(e[i], h[j])
        BY <1>1, <1>2, <2>1, <2>2, FoldedStep
      <3> QED
        BY <1>6, <2>1, <2>2, <3>1
    <2> QED
      BY <2>1, <2>2
  <1> HIDE DEF S
  <1>7. Nat \subseteq S
    BY <1>5, <1>6, SetInduction
  <1> DEFINE m == n - 1
  <1>8. m \in Nat /\ n = m + 1 /\ n <= n /\ m <= n - 1
    OBVIOUS
  <1>9. e[m] = f[m]
    BY <1>7, <1>8 DEF S
  <1> HIDE DEF m
  <1>10. f[n] = Joined(f[m], g[n]) /\ f[m] \in Parts /\ f[n] \in Parts
    BY <1>1, <1>8, FoldedStep
  <1>a. e[n] = Joined(e[m], h[n])
    <2>1. n \in Nat /\ Folded(e, h, n)
      BY <1>2
    <2> QED
      BY ONLY <1>8, <2>1, FoldedStep
  <1>11. g[n] \in Parts
    OBVIOUS
  <1>12. Joined(Joined(f[m], g[n]), x) = Joined(f[m], Joined(g[n], x))
    BY <1>10, <1>11, JoinLaws
  <1> QED
    BY <1>1, <1>2, <1>9, <1>10, <1>a, <1>12

\* Without the first part the whole begins later.
LEMMA FlattenLoses ==
  ASSUME NEW n \in Nat, n >= 1, NEW g \in [1 .. n -> Parts], NEW h \in [1 .. n -> Parts],
         h[1] = <<>>, \A i \in 2 .. n : h[i] = g[i]
  PROVE  FlattenSeq(g) = Joined(g[1], FlattenSeq(h)) /\ FlattenSeq(h) \in Parts
  <1>1. PICK f : Folded(f, g, n) /\ FlattenSeq(g) = f[n]
    BY FlattenIs
  <1>2. PICK e : Folded(e, h, n) /\ FlattenSeq(h) = e[n]
    BY FlattenIs
  <1>g. g[1] \in Parts /\ h[1] \in Parts
    OBVIOUS
  <1>z. f[0] = <<>> /\ e[0] = <<>>
    BY <1>1, <1>2 DEF Folded
  <1>3. f[1] = g[1] /\ e[1] = <<>>
    <2>1. 0 \in Nat /\ 1 = 0 + 1
      OBVIOUS
    <2>2. f[1] = Joined(f[0], g[1]) /\ e[1] = Joined(e[0], h[1])
      BY <1>1, <1>2, <2>1, FoldedStep
    <2> QED
      BY <1>g, <1>z, <2>2, JoinLaws
  <1> DEFINE S == {i \in Nat : (i >= 1 /\ i <= n) => f[i] = Joined(g[1], e[i])}
  <1>7. 0 \in S
    OBVIOUS
  <1>8. ASSUME NEW i \in Nat, i \in S PROVE i + 1 \in S
    <2> DEFINE j == i + 1
    <2>1. j = i + 1 /\ j \in Nat /\ (i = 0 => j = 1) /\ (i # 0 => i >= 1 /\ (j <= n => i <= n /\ j \in 2 .. n /\ j \in 1 .. n))
      OBVIOUS
    <2> HIDE DEF j
    <2>2. CASE i = 0
      <3>1. f[j] = Joined(g[1], e[j])
        BY <1>3, <1>g, <2>1, <2>2, JoinLaws
      <3> QED
        BY <2>1, <3>1
    <2>3. CASE i # 0 /\ j <= n
      <3>1. /\ f[j] = Joined(f[i], g[j]) /\ e[j] = Joined(e[i], h[j]) /\ e[i] \in Parts
            /\ h[j] = g[j] /\ g[j] \in Parts
        BY <1>1, <1>2, <2>1, <2>3, FoldedStep
      <3>2. f[i] = Joined(g[1], e[i])
        BY <1>8, <2>1, <2>3
      <3>a. Joined(Joined(g[1], e[i]), g[j]) = Joined(g[1], Joined(e[i], g[j]))
        BY <1>g, <3>1, JoinLaws
      <3>3. f[j] = Joined(g[1], e[j])
        BY <3>1, <3>2, <3>a
      <3> QED
        BY <2>1, <3>3
    <2> QED
      BY <2>1, <2>2, <2>3
  <1> HIDE DEF S
  <1>9. Nat \subseteq S
    BY <1>7, <1>8, SetInduction
  <1>11. f[n] = Joined(g[1], e[n]) /\ e[n] \in Parts
    BY <1>2, <1>9 DEF S, Folded
  <1> QED
    BY <1>1, <1>2, <1>11

\* A part that moves into an empty one before it changes nothing in the whole.
LEMMA FlattenMoves ==
  ASSUME NEW n \in Nat, n >= 1, NEW g \in [1 .. n -> Parts], NEW h \in [1 .. n -> Parts],
         NEW j \in 1 .. n - 1, g[j] = <<>>, h[j] = g[j + 1], h[j + 1] = <<>>,
         \A i \in 1 .. n : i # j /\ i # j + 1 => h[i] = g[i]
  PROVE  FlattenSeq(h) = FlattenSeq(g)
  <1>1. PICK f : Folded(f, g, n) /\ FlattenSeq(g) = f[n]
    BY FlattenIs
  <1>2. PICK e : Folded(e, h, n) /\ FlattenSeq(h) = e[n]
    BY FlattenIs
  <1>3. f[0] = <<>> /\ e[0] = <<>> /\ \A i \in Nat : f[i] \in Parts /\ e[i] \in Parts
    BY <1>1, <1>2 DEF Folded
  <1> DEFINE b == j - 1  k == j + 1
  <1>4. b \in Nat /\ j \in Nat /\ k \in Nat /\ j = b + 1 /\ k = j + 1 /\ j <= n /\ k <= n /\ b < j
    OBVIOUS
  <1>5. h[j] = g[k] /\ h[k] = <<>> /\ (\A i \in 1 .. n : i # j /\ i # k => h[i] = g[i]) /\ g[k] \in Parts
    OBVIOUS
  <1>6. n # j /\ (\A i \in Nat : i + 1 = j => i = b)
    OBVIOUS
  <1>7. \A i \in Nat : i + 1 # j /\ i # j => i + 1 # k
    OBVIOUS
  <1> HIDE DEF b, k
  <1>s. /\ f[j] = Joined(f[b], g[j])
        /\ e[j] = Joined(e[b], h[j])
    BY <1>1, <1>2, <1>4, FoldedStep
  <1>t. f[k] = Joined(f[j], g[k])
    BY <1>1, <1>4, FoldedStep
  <1>u. e[k] = Joined(e[j], h[k])
    BY <1>2, <1>4, FoldedStep
  <1>v. f[b] \in Parts /\ e[j] \in Parts
    BY <1>3, <1>4
  <1>w. Joined(f[b], <<>>) = f[b] /\ Joined(e[j], <<>>) = e[j]
    BY <1>v, JoinLaws
  <1>9. f[j] = f[b] /\ e[k] = e[j] /\ f[k] = Joined(f[b], g[k]) /\ e[j] = Joined(e[b], g[k])
    BY <1>5, <1>s, <1>t, <1>u, <1>w
  <1> DEFINE S == {i \in Nat : i <= n => IF i = j THEN f[b] = e[b] ELSE f[i] = e[i]}
  <1>10. 0 \in S
    BY <1>3, <1>4
  <1>11. ASSUME NEW i \in Nat, i \in S PROVE i + 1 \in S
    <2> DEFINE l == i + 1
    <2>1. l = i + 1 /\ l \in Nat /\ (l <= n => i <= n /\ l \in 1 .. n)
      OBVIOUS
    <2>2. (l = j => i = b /\ i # j) /\ (l # j /\ i # j => l # k) /\ (i = j => l = k /\ l # j)
      BY <1>4, <1>6, <1>7
    <2> HIDE DEF l
    <2>3. CASE l <= n
      <3>0. IF i = j THEN f[b] = e[b] ELSE f[i] = e[i]
        BY <1>11, <2>1, <2>3
      <3>1. CASE l = j
        BY <2>1, <2>2, <3>0, <3>1
      <3>2. CASE i = j
        BY <1>9, <2>1, <2>2, <3>0, <3>2
      <3>3. CASE l # j /\ i # j
        <4>1. f[l] = Joined(f[i], g[l]) /\ e[l] = Joined(e[i], h[l])
          BY <1>1, <1>2, <2>1, <2>3, FoldedStep
        <4>2. h[l] = g[l]
          BY <1>5, <2>1, <2>2, <2>3, <3>3
        <4>3. f[l] = e[l]
          BY <3>0, <3>3, <4>1, <4>2
        <4> QED
          BY <2>1, <3>3, <4>3
      <3> QED
        BY <3>1, <3>2, <3>3
    <2> QED
      BY <2>1, <2>3
  <1> HIDE DEF S
  <1>12. Nat \subseteq S
    BY <1>10, <1>11, SetInduction
  <1>13. f[n] = e[n]
    BY <1>6, <1>12 DEF S
  <1> QED
    BY <1>1, <1>2, <1>13

-----------------------------------------------------------------------------
(* The files hold the end of what was written.                             *)

\* What is behind the names of a directory, oldest name first.
At(fs, k) == IF k \in DOMAIN fs THEN fs[k] ELSE <<>>
Rows(fs) == [i \in 1 .. FileCount |-> At(fs, FileCount - i)]
Whole(fs) == FlattenSeq(Rows(fs))
Directory(fs) == \A k \in Names : At(fs, k) \in Parts

LEMMA RowsOK ==
  ASSUME NEW fs, Directory(fs)
  PROVE  /\ Rows(fs) \in [1 .. FileCount -> Parts] /\ FileCount \in Nat /\ FileCount >= 1
         /\ \A i \in 1 .. FileCount : Rows(fs)[i] = At(fs, FileCount - i)
         /\ Whole(fs) \in Parts
  <1>1. ASSUME NEW i \in 1 .. FileCount PROVE At(fs, FileCount - i) \in Parts
    BY Constants DEF Directory
  <1>2. \A i \in 1 .. FileCount : Rows(fs)[i] = At(fs, FileCount - i)
    BY DEF Rows
  <1>3. Rows(fs) \in [1 .. FileCount -> Parts]
    BY <1>1 DEF Rows
  <1>4. FileCount \in Nat /\ FileCount >= 1
    BY Constants
  <1>5. PICK f : Folded(f, Rows(fs), FileCount) /\ Whole(fs) = f[FileCount]
    BY <1>3, <1>4, FlattenIs DEF Whole
  <1>6. Whole(fs) \in Parts
    BY <1>4, <1>5 DEF Folded
  <1> QED
    BY <1>2, <1>3, <1>4, <1>6

LEMMA WholeSame ==
  ASSUME NEW fs, NEW gs, \A k \in Names : At(gs, k) = At(fs, k)
  PROVE  Whole(gs) = Whole(fs)
  <1>1. ASSUME NEW i \in 1 .. FileCount PROVE At(gs, FileCount - i) = At(fs, FileCount - i)
    BY Constants
  <1> QED
    BY <1>1 DEF Whole, Rows

LEMMA WholeNothing ==
  ASSUME NEW fs, \A k \in Names : At(fs, k) = <<>>
  PROVE  Whole(fs) = <<>>
  <1>1. Directory(fs)
    BY JoinLaws DEF Directory
  <1>2. ASSUME NEW i \in 1 .. FileCount PROVE Rows(fs)[i] = <<>>
    <2>1. FileCount - i \in Names
      BY Constants
    <2> QED
      BY <1>1, <2>1, RowsOK
  <1> QED
    BY <1>1, <1>2, RowsOK, FlattenNothing DEF Whole

LEMMA WholeGrows ==
  ASSUME NEW fs, NEW gs, Directory(fs), Directory(gs), NEW x \in Parts,
         At(gs, 0) = Joined(At(fs, 0), x), \A k \in Names : k # 0 => At(gs, k) = At(fs, k)
  PROVE  Whole(gs) = Joined(Whole(fs), x)
  <1> DEFINE n == FileCount  g == Rows(fs)  h == Rows(gs)
  <1>1. n \in Nat /\ n >= 1 /\ g \in [1 .. n -> Parts] /\ h \in [1 .. n -> Parts]
    BY RowsOK
  <1>2. h[n] = Joined(g[n], x)
    <2>1. n \in 1 .. n /\ n - n = 0
      BY <1>1
    <2> QED
      BY <2>1, RowsOK
  <1>3. ASSUME NEW i \in 1 .. n - 1 PROVE h[i] = g[i]
    <2>1. i \in 1 .. n /\ n - i \in Names /\ n - i # 0
      BY Constants
    <2> QED
      BY <2>1, RowsOK
  <1> HIDE DEF n, g, h
  <1>4. FlattenSeq(h) = Joined(FlattenSeq(g), x)
    BY <1>1, <1>2, <1>3, FlattenGrows
  <1> QED
    BY <1>4 DEF g, h, Whole

LEMMA WholeLoses ==
  ASSUME NEW fs, NEW gs, Directory(fs), Directory(gs), NEW o, o = FileCount - 1,
         At(gs, o) = <<>>, \A k \in Names : k # o => At(gs, k) = At(fs, k)
  PROVE  Whole(fs) = Joined(At(fs, o), Whole(gs))
  <1> DEFINE n == FileCount  g == Rows(fs)  h == Rows(gs)
  <1>1. n \in Nat /\ n >= 1 /\ g \in [1 .. n -> Parts] /\ h \in [1 .. n -> Parts]
    BY RowsOK
  <1>2. h[1] = <<>> /\ g[1] = At(fs, o)
    <2>1. 1 \in 1 .. n /\ n - 1 = o
      BY <1>1
    <2> QED
      BY <2>1, RowsOK
  <1>3. ASSUME NEW i \in 2 .. n PROVE h[i] = g[i]
    <2>1. i \in 1 .. n /\ n - i \in Names /\ n - i # o
      BY Constants
    <2> QED
      BY <2>1, RowsOK
  <1> HIDE DEF n, g, h
  <1>4. FlattenSeq(g) = Joined(g[1], FlattenSeq(h))
    BY <1>1, <1>2, <1>3, FlattenLoses
  <1> QED
    BY <1>2, <1>4 DEF g, h, Whole

LEMMA WholeMoves ==
  ASSUME NEW fs, NEW gs, Directory(fs), Directory(gs), NEW l \in Names, NEW m \in Names, m = l + 1,
         At(fs, m) = <<>>, At(gs, m) = At(fs, l), At(gs, l) = <<>>,
         \A k \in Names : k # l /\ k # m => At(gs, k) = At(fs, k)
  PROVE  Whole(gs) = Whole(fs)
  <1> DEFINE n == FileCount  g == Rows(fs)  h == Rows(gs)  j == n - m  i1 == j + 1
  <1>1. n \in Nat /\ n >= 1 /\ g \in [1 .. n -> Parts] /\ h \in [1 .. n -> Parts]
    BY RowsOK
  <1>2. j \in 1 .. n - 1 /\ j \in 1 .. n /\ j + 1 \in 1 .. n /\ n - j = m /\ n - (j + 1) = l
    BY <1>1, Constants
  <1>3. g[j] = <<>> /\ h[j] = At(fs, l)
    BY <1>2, RowsOK
  <1>4. g[j + 1] = At(fs, l) /\ h[j + 1] = <<>>
    BY <1>2, RowsOK
  <1>5. ASSUME NEW i \in 1 .. n, i # j, i # j + 1 PROVE h[i] = g[i]
    <2>1. n - i \in Names /\ n - i # l /\ n - i # m
      BY <1>5, Constants
    <2> QED
      BY <2>1, RowsOK
  <1> HIDE DEF n, g, h, j
  <1>6. FlattenSeq(h) = FlattenSeq(g)
    BY <1>1, <1>2, <1>3, <1>4, <1>5, FlattenMoves
  <1> QED
    BY <1>6 DEF g, h, Whole

LEMMA EndIsSuffix ==
  ASSUME NEW p \in Parts, NEW a \in Parts, NEW o, o = Joined(p, a)
  PROVE  IsSuffix(a, o)
  <1> DEFINE n == Len(p)  m == Len(a)  s == Reverse(a)  t == Reverse(o)
  <1>1. n \in Nat /\ m \in Nat /\ Len(o) = n + m /\ o \in Seq(Records) /\ a \in Seq(Records)
    BY DEF Parts, Joined
  <1>2. ASSUME NEW i \in 1 .. m PROVE o[((n + m) - i) + 1] = a[(m - i) + 1]
    BY DEF Parts, Joined
  <1>3. /\ s = [i \in 1 .. m |-> a[(m - i) + 1]]
        /\ t = [i \in 1 .. n + m |-> o[((n + m) - i) + 1]]
    BY <1>1 DEF Reverse
  <1> HIDE DEF n, m, s, t
  <1>4. Len(s) = m /\ Len(t) = n + m
    BY <1>1, <1>3
  <1>5. ASSUME NEW i \in 1 .. m PROVE s[i] = t[i]
    <2>1. i \in 1 .. n + m
      BY <1>1
    <2>2. s[i] = a[(m - i) + 1] /\ t[i] = o[((n + m) - i) + 1]
      BY <1>3, <2>1
    <2> QED
      BY <1>2, <2>2
  <1>6. SubSeq(s, 1, m) = [i \in 1 .. m |-> s[i]] /\ SubSeq(t, 1, m) = [i \in 1 .. m |-> t[i]]
    BY <1>1
  <1>7. Len(s) <= Len(t) /\ SubSeq(s, 1, m) = SubSeq(t, 1, m)
    BY <1>1, <1>4, <1>5, <1>6
  <1> QED
    BY <1>4, <1>7 DEF IsSuffix, IsPrefix, s, t

LEMMA EndsIs == Ends <=> \E p \in Parts : out = Joined(p, Whole(files))
  BY DEF Ends, Archives, FileAt, Parts, Joined, Whole, Rows, At

LEMMA EndsLater == (Ends <=> \E p \in Parts : out = Joined(p, Whole(files)))'
  BY EndsIs, PTL

LEMMA DirectoryOK == FilesOK => Directory(files)
  BY JoinLaws DEF FilesOK, Directory, At, Parts

LEMMA DirectoryLater == (FilesOK => Directory(files))'
  BY DirectoryOK, PTL

\* Where no file changes, the ends and the order of the files stay.
LEMMA FilesStill ==
  ASSUME Kept, UNCHANGED <<files, out>>
  PROVE  Ends' /\ Ordered'
  <1>1. Ends'
    BY EndsIs, EndsLater DEF Kept
  <1>2. Ordered'
    BY DEF Kept, Ordered
  <1> QED
    BY <1>1, <1>2

\* The file that a record is put behind, in both ways a write may end.
LEMMA EndsWritten ==
  ASSUME Shape, Shape', Ends, 0 \in DOMAIN files, NEW r \in Records,
         files' = [files EXCEPT ![0] = Append(@, r)], out' = Append(out, r)
  PROVE  Ends'
  <1>1. Directory(files) /\ Directory(files')
    BY DirectoryOK, DirectoryLater DEF Shape
  <1>2. /\ DOMAIN files' = DOMAIN files
        /\ \A k \in DOMAIN files : files'[k] = IF k = 0 THEN Append(files[k], r) ELSE files[k]
    OBVIOUS
  <1>3. <<r>> \in Parts /\ \A s \in Parts : Append(s, r) = Joined(s, <<r>>)
    <2>1. \A s \in Seq(Records) : Append(s, r) = s \o <<r>>
      OBVIOUS
    <2>2. <<r>> \in Seq(Records)
      OBVIOUS
    <2> QED
      BY <2>1, <2>2 DEF Parts, Joined
  <1>4. files[0] \in Parts
    BY DEF Shape, FilesOK, Parts
  <1>5. At(files', 0) = Joined(At(files, 0), <<r>>)
    BY <1>2, <1>3, <1>4 DEF At
  <1>6. \A k \in Names : k # 0 => At(files', k) = At(files, k)
    BY <1>2 DEF At
  <1>7. Whole(files') = Joined(Whole(files), <<r>>) /\ Whole(files) \in Parts
    BY <1>1, <1>3, <1>5, <1>6, WholeGrows, RowsOK
  <1>8. PICK p \in Parts : out = Joined(p, Whole(files))
    BY EndsIs
  <1>9. out' = Joined(p, Whole(files'))
    <2>1. out \in Parts
      BY DEF Shape, OthersOK, Parts
    <2>2. out' = Joined(out, <<r>>)
      BY <1>3, <2>1
    <2>3. Joined(Joined(p, Whole(files)), <<r>>) = Joined(p, Joined(Whole(files), <<r>>))
      BY <1>3, <1>7, JoinLaws
    <2> QED
      BY <1>7, <1>8, <2>2, <2>3
  <1> QED
    BY <1>9, EndsLater

LEMMA EndsOpenLog ==
  ASSUME Shape, Ends, OpenLog
  PROVE  Ends' /\ FileAt(0)' = FileAt(0)
  <1>1. files' = [k \in DOMAIN files \union {0} |-> FileAt(k)] /\ out' = out
    BY DEF OpenLog, Opened
  <1>2. DOMAIN files' = DOMAIN files \union {0} /\ \A k \in DOMAIN files' : files'[k] = FileAt(k)
    BY <1>1
  <1>3. \A k : At(files', k) = At(files, k)
    BY <1>2 DEF At, FileAt
  <1>4. Whole(files') = Whole(files)
    BY <1>3, WholeSame
  <1>5. Ends'
    BY <1>1, <1>4, EndsIs, EndsLater
  <1>6. FileAt(0)' = FileAt(0)
    BY <1>2 DEF FileAt
  <1> QED
    BY <1>5, <1>6

LEMMA EndsUnlink ==
  ASSUME Shape, Shape', Ends, Unlink
  PROVE  Ends'
  <1> DEFINE o == FileCount - 1
  <1>1. files' = [k \in DOMAIN files \ {o} |-> files[k]] /\ out' = out
    BY DEF Unlink, Without, Restrict
  <1>2. Directory(files) /\ Directory(files')
    BY DirectoryOK, DirectoryLater DEF Shape
  <1>o. o = FileCount - 1 /\ o \in Names
    BY Constants
  <1> HIDE DEF o
  <1>3. DOMAIN files' = DOMAIN files \ {o} /\ \A k \in DOMAIN files' : files'[k] = files[k]
    BY <1>1
  <1>4. At(files', o) = <<>> /\ \A k \in Names : k # o => At(files', k) = At(files, k)
    BY <1>3 DEF At
  <1>5. Whole(files) = Joined(At(files, o), Whole(files')) /\ Whole(files') \in Parts /\ At(files, o) \in Parts
    BY <1>2, <1>4, <1>o, WholeLoses, RowsOK DEF Directory
  <1>6. PICK p \in Parts : out = Joined(p, Whole(files))
    BY EndsIs
  <1>7. Joined(Joined(p, At(files, o)), Whole(files')) = Joined(p, Joined(At(files, o), Whole(files')))
    BY <1>5, JoinLaws
  <1>8. Joined(p, At(files, o)) \in Parts
    BY <1>5, JoinLaws
  <1> QED
    BY <1>1, <1>5, <1>6, <1>7, <1>8, EndsLater

\* What a step of the rotation moves, and where.
LEMMA Moved ==
  ASSUME Shape, Gap, Rotate, next - 2 \in DOMAIN files, NEW l, l = next - 2, NEW m, m = next - 1
  PROVE  /\ l \in Names /\ m \in Names /\ m = l + 1 /\ m \notin DOMAIN files /\ l \in DOMAIN files
         /\ DOMAIN files' = (DOMAIN files \union {m}) \ {l}
         /\ files'[m] = files[l]
         /\ \A k \in DOMAIN files : k # l => files'[k] = files[k]
  <1>1. next \in 2 .. FileCount /\ pc = "rotate" /\ FileCount \in Nat
    BY Constants DEF Rotate, Shape, OthersOK, Hands
  <1>2. l \in Names /\ m \in Names /\ m = l + 1 /\ m \notin DOMAIN files /\ l # m
    BY <1>1, Constants DEF Gap
  <1>3. files' = [k \in (DOMAIN files \union {m}) \ {l} |-> IF k = m THEN files[l] ELSE files[k]]
    BY DEF Rotate
  <1>4. \A k \in DOMAIN files : k # m
    BY <1>2
  <1> QED
    BY <1>2, <1>3, <1>4

LEMMA EndsRotate ==
  ASSUME Shape, Shape', Ends, Gap, Rotate
  PROVE  Ends'
  <1>1. out' = out
    BY DEF Rotate
  <1>2. CASE next - 2 \notin DOMAIN files
    BY <1>1, <1>2, EndsIs, EndsLater DEF Rotate
  <1>3. CASE next - 2 \in DOMAIN files
    <2> DEFINE l == next - 2  m == next - 1
    <2>1. l = next - 2 /\ m = next - 1
      OBVIOUS
    <2> HIDE DEF l, m
    <2>2. /\ l \in Names /\ m \in Names /\ m = l + 1 /\ m \notin DOMAIN files /\ l \in DOMAIN files
          /\ DOMAIN files' = (DOMAIN files \union {m}) \ {l}
          /\ files'[m] = files[l]
          /\ \A k \in DOMAIN files : k # l => files'[k] = files[k]
      BY <1>3, <2>1, Moved
    <2>3. l # m
      BY <2>2
    <2>4. /\ At(files, m) = <<>> /\ At(files', m) = At(files, l) /\ At(files', l) = <<>>
          /\ \A k \in Names : k # l /\ k # m => At(files', k) = At(files, k)
      BY <2>2, <2>3 DEF At
    <2>5. Directory(files) /\ Directory(files')
      BY DirectoryOK, DirectoryLater DEF Shape
    <2>6. Whole(files') = Whole(files)
      BY <2>2, <2>4, <2>5, WholeMoves
    <2> QED
      BY <1>1, <2>6, EndsIs, EndsLater
  <1> QED
    BY <1>2, <1>3

LEMMA LogKeepsError ==
  ASSUME Shape, Log
  PROVE  file_error => file_error'
  <1> SUFFICES ASSUME file_error PROVE file_error'
    OBVIOUS
  <1>1. ASSUME NEW malloc \in BOOLEAN, NEW length
        PROVE  ~Fits(Recovered(Queue, malloc), length)
    <2>1. Queue.file_error = file_error
      BY DEF Queue
    <2>2. Recovered(Queue, malloc).file_error = file_error
      BY <2>1, RecoveredOK DEF Shape
    <2> QED
      BY <2>2 DEF Fits
  <1>2. UNCHANGED queueVars
    BY <1>1 DEF Log
  <1> QED
    BY <1>2 DEF queueVars

LEMMA KeptLog ==
  ASSUME Shape, Kept, Log
  PROVE  Kept'
  <1>1. UNCHANGED <<files, out, hand, next, file_size, open, pc>>
    BY DEF Log, writer
  <1>2. file_error => file_error'
    BY LogKeepsError
  <1>3. Ends' /\ Ordered'
    BY <1>1, FilesStill
  <1>4. FileAt(0)' = FileAt(0)
    BY <1>1 DEF FileAt
  <1>5. Newest'
    BY <1>1, <1>2, <1>4 DEF Kept, Newest, FullFor
  <1> QED
    BY <1>1, <1>3, <1>5 DEF Kept, Gap, Current

LEMMA KeptQuiet ==
  ASSUME Shape, Kept, LogNoMemory \/ Abort \/ Wake \/ SpuriousWake \/ FileFails \/ UNCHANGED vars
  PROVE  Kept'
  <1>1. UNCHANGED <<files, out, hand, next, file_size, open, file_error>>
    BY DEF LogNoMemory, Abort, Wake, SpuriousWake, FileFails, vars, writer, queueVars
  <1>2. pc' = pc \/ pc' = "failed" \/ (pc = "wait" /\ pc' = "check")
    BY DEF LogNoMemory, Abort, Wake, SpuriousWake, FileFails, vars, writer
  <1>3. Ends' /\ Ordered'
    BY <1>1, FilesStill
  <1>4. FileAt(0)' = FileAt(0)
    BY <1>1 DEF FileAt
  <1>5. Newest'
    BY <1>1, <1>2, <1>4 DEF Kept, Newest, FullFor
  <1>6. Gap' /\ Current'
    BY <1>1, <1>2 DEF Kept, Gap, Current
  <1> QED
    BY <1>3, <1>5, <1>6 DEF Kept

LEMMA KeptDisable ==
  ASSUME Shape, Kept, Disable
  PROVE  Kept'
  <1>1. UNCHANGED <<files, out>> /\ pc' = "check" /\ open' = FALSE /\ SetQueue(Disabled(Queue))
    BY DEF Disable
  <1>2. file_error'
    BY <1>1, DisabledOK DEF Shape
  <1>3. Ends' /\ Ordered'
    BY <1>1, FilesStill
  <1> QED
    BY <1>1, <1>2, <1>3 DEF Kept, Gap, Newest, Current

LEMMA KeptCheck ==
  ASSUME Shape, Kept, Check
  PROVE  Kept'
  <1>1. UNCHANGED <<files, out, next, file_size>> /\ pc = "check"
    BY DEF Check
  <1>2. /\ pc' \in {"stopped", "wait", "write"} /\ (open' => open)
        /\ pc' = "wait" => file_error' = file_error
        /\ pc' = "write" => queue # <<>>
    BY DEF Check, queueVars
  <1>3. Ends' /\ Ordered'
    BY <1>1, FilesStill
  <1>4. FileAt(0)' = FileAt(0)
    BY <1>1 DEF FileAt
  <1>5. queue # <<>> => ~file_error
    BY DEF Shape, Hands
  <1>6. Newest'
    BY <1>1, <1>2, <1>4, <1>5 DEF Kept, Newest, FullFor
  <1>7. Gap' /\ Current'
    BY <1>1, <1>2 DEF Kept, Gap, Current
  <1> QED
    BY <1>3, <1>6, <1>7 DEF Kept

LEMMA KeptStart ==
  ASSUME Shape, Kept, StartRotation
  PROVE  Kept'
  <1>1. /\ UNCHANGED <<files, out, hand, file_size>> /\ pc = "write" /\ open /\ Overfull
        /\ open' = FALSE /\ next' = FileCount /\ pc' = "unlink"
    BY DEF StartRotation
  <1>2. Ends' /\ Ordered'
    BY <1>1, FilesStill
  <1>3. 0 \in DOMAIN files /\ file_size = Size(files[0])
    BY <1>1 DEF Kept, Current
  <1>4. Size(files[0]) + hand.length > FileLimit
    <2>1. hand.length \in Nat /\ file_size \in Nat /\ FileLimit \in Nat
      BY Constants DEF Shape, OthersOK, Records
    <2>2. file_size > FileLimit - hand.length
      BY <1>1 DEF Overfull
    <2>3. file_size + hand.length > FileLimit
      BY <2>1, <2>2
    <2> QED
      BY <1>3, <2>3
  <1>5. Newest'
    BY <1>1, <1>3, <1>4 DEF Newest, FullFor
  <1> QED
    BY <1>1, <1>2, <1>5 DEF Kept, Gap, Current

LEMMA KeptOpenLog ==
  ASSUME Shape, Kept, OpenLog
  PROVE  Kept'
  <1>1. /\ UNCHANGED <<hand, next>> /\ pc \in {"write", "reopen"} /\ pc' = "write"
        /\ file_size' = Size(FileAt(0)) /\ files' = [k \in DOMAIN files \union {0} |-> FileAt(k)]
    BY DEF OpenLog, Opened
  <1>2. DOMAIN files' = DOMAIN files \union {0} /\ \A k \in DOMAIN files' : files'[k] = FileAt(k)
    BY <1>1
  <1>3. (\A k \in DOMAIN files : files'[k] = files[k]) /\ files'[0] = FileAt(0)
    BY <1>2 DEF FileAt
  <1>4. Ends' /\ FileAt(0)' = FileAt(0)
    BY EndsOpenLog DEF Kept
  <1>5. -1 \notin DOMAIN files'
    BY <1>2, Constants DEF Shape, FilesOK
  <1>6. 0 \notin DOMAIN files => files'[0] = <<>>
    BY <1>3 DEF FileAt
  <1>7. Ordered'
    <2>1. ASSUME NEW k \in DOMAIN files'
          PROVE  Bounded(files'[k]) /\ (k - 1 \in DOMAIN files' => FullBefore(files'[k], files'[k - 1]))
      <3>1. CASE k \in DOMAIN files
        <4>1. files'[k] = files[k] /\ Bounded(files[k])
          BY <1>3, <3>1 DEF Kept, Ordered
        <4>2. CASE k - 1 \in DOMAIN files
          <5>1. files'[k - 1] = files[k - 1] /\ FullBefore(files[k], files[k - 1])
            BY <1>3, <3>1, <4>2 DEF Kept, Ordered
          <5> QED
            BY <4>1, <5>1
        <4>3. CASE k - 1 \notin DOMAIN files /\ k - 1 \in DOMAIN files'
          <5>1. files'[k - 1] = <<>>
            BY <1>2, <1>6, <4>3
          <5> QED
            BY <4>1, <5>1 DEF FullBefore
        <4> QED
          BY <4>1, <4>2, <4>3
      <3>2. CASE k \notin DOMAIN files
        <4>1. k = 0 /\ files'[k] = <<>> /\ k - 1 \notin DOMAIN files'
          BY <1>2, <1>5, <1>6, <3>2
        <4>2. Size(<<>>) = 0 /\ FileLimit \in Nat
          BY Constants, SizeFacts DEF Shape, OthersOK
        <4> QED
          BY <4>1, <4>2 DEF Bounded
      <3> QED
        BY <3>1, <3>2
    <2> QED
      BY <2>1 DEF Ordered
  <1>8. Newest'
    <2>1. 1 \in DOMAIN files' => 1 \in DOMAIN files /\ files'[1] = files[1]
      BY <1>2, <1>3
    <2> QED
      BY <1>1, <1>4, <2>1 DEF Kept, Newest, FullFor
  <1>9. Current'
    BY <1>1, <1>2, <1>3 DEF Current
  <1> QED
    BY <1>1, <1>4, <1>7, <1>8, <1>9 DEF Kept, Gap

LEMMA KeptUnlink ==
  ASSUME Shape, Shape', Kept, Unlink
  PROVE  Kept'
  <1> DEFINE o == FileCount - 1
  <1>1. /\ UNCHANGED <<hand, next, open, file_size>> /\ pc = "unlink"
        /\ pc' = (IF next > 1 THEN "rotate" ELSE "reopen")
        /\ files' = [k \in DOMAIN files \ {o} |-> files[k]]
    BY DEF Unlink, Without, Restrict
  <1>2. DOMAIN files' = DOMAIN files \ {o} /\ \A k \in DOMAIN files' : files'[k] = files[k]
    BY <1>1
  <1>3. next = FileCount /\ 0 \in DOMAIN files /\ FullFor(files[0], hand)
    BY <1>1 DEF Kept, Newest
  <1>4. Ends'
    BY EndsUnlink DEF Kept
  <1>5. Ordered'
    BY <1>2 DEF Kept, Ordered
  <1>6. o = next - 1 /\ FileCount \in Nat /\ FileCount >= 1 /\ next \notin DOMAIN files
    BY <1>3, Constants DEF Shape, FilesOK
  <1> HIDE DEF o
  <1>7. Gap'
    <2>1. o \notin DOMAIN files' /\ next \notin DOMAIN files'
      BY <1>2, <1>6
    <2> QED
      BY <1>1, <1>6, <2>1 DEF Gap
  <1>8. Newest'
    <2>1. CASE next > 1
      <3>1. 0 \in DOMAIN files' /\ files'[0] = files[0]
        BY <1>2, <1>3, <1>6, <2>1
      <3> QED
        BY <1>1, <1>3, <2>1, <3>1 DEF Newest, FullFor
    <2>2. CASE ~(next > 1)
      <3>1. 1 \notin DOMAIN files'
        BY <1>2, <1>3, <1>6, <2>2, Constants DEF Shape, FilesOK
      <3> QED
        BY <1>1, <2>2, <3>1 DEF Newest
    <2> QED
      BY <2>1, <2>2
  <1>9. Current'
    BY <1>1 DEF Kept, Current, Shape
  <1> QED
    BY <1>4, <1>5, <1>7, <1>8, <1>9 DEF Kept

LEMMA KeptRotate ==
  ASSUME Shape, Shape', Kept, Rotate
  PROVE  Kept'
  <1> DEFINE l == next - 2  m == next - 1
  <1>1. /\ UNCHANGED <<hand, open, file_size>> /\ pc = "rotate" /\ next' = m
        /\ pc' = (IF m > 1 THEN "rotate" ELSE "reopen")
    BY DEF Rotate
  <1>2. /\ next \in 2 .. FileCount /\ m \notin DOMAIN files /\ FileCount \in Nat
        /\ 0 \in DOMAIN files /\ FullFor(files[0], hand)
        /\ (next \in DOMAIN files /\ l \in DOMAIN files) => FullBefore(files[next], files[l])
    BY <1>1, Constants DEF Kept, Gap, Newest, Shape, OthersOK, Hands
  <1>3. /\ m - 1 = l /\ next - 1 = m /\ l = next - 2 /\ l # m /\ m \in Nat /\ l \in Nat
        /\ (m > 1 => l # 0 /\ m # 0) /\ (~(m > 1) => l = 0 /\ m = 1) /\ m - 2 = l - 1
    BY <1>2
  <1>e. Ends'
    BY EndsRotate DEF Kept
  <1>k. \A k \in DOMAIN files : k \in Nat /\ (k - 1 = m => k = next) /\ (k - 1 = l => k = m)
    BY <1>2, Constants DEF Shape, FilesOK
  <1>x. l - 1 # l /\ l - 1 # m
    BY <1>3
  <1> HIDE DEF l, m
  <1>4. CASE l \notin DOMAIN files
    <2>1. files' = files
      BY <1>3, <1>4 DEF Rotate
    <2>2. l # 0 /\ m > 1
      BY <1>2, <1>3, <1>4
    <2>3. Ordered'
      BY <2>1 DEF Kept, Ordered
    <2>4. Gap'
      BY <1>1, <1>2, <1>3, <1>4, <2>1 DEF Gap
    <2>5. Newest'
      BY <1>1, <1>2, <2>1, <2>2 DEF Newest, FullFor
    <2>6. Current'
      BY <1>1, <2>1 DEF Kept, Current
    <2> QED
      BY <1>e, <2>3, <2>4, <2>5, <2>6 DEF Kept
  <1>5. CASE l \in DOMAIN files
    <2>1. /\ DOMAIN files' = (DOMAIN files \union {m}) \ {l}
          /\ files'[m] = files[l]
          /\ \A k \in DOMAIN files : k # l => files'[k] = files[k]
      BY <1>3, <1>5, Moved DEF Kept, m, l
    <2>2. Ordered'
      <3>1. ASSUME NEW k \in DOMAIN files'
            PROVE  Bounded(files'[k]) /\ (k - 1 \in DOMAIN files' => FullBefore(files'[k], files'[k - 1]))
        <4>1. CASE k = m
          <5>1. Bounded(files'[k]) /\ k - 1 \notin DOMAIN files'
            BY <1>3, <1>5, <2>1, <4>1 DEF Kept, Ordered
          <5> QED
            BY <5>1
        <4>2. CASE k # m
          <5>1. k \in DOMAIN files /\ k # l /\ files'[k] = files[k] /\ Bounded(files[k])
            BY <2>1, <4>2 DEF Kept, Ordered
          <5>2. CASE k - 1 = m
            BY <1>2, <1>5, <1>k, <2>1, <5>1, <5>2
          <5>3. CASE k - 1 # m /\ k - 1 \in DOMAIN files'
            <6>1. k - 1 \in DOMAIN files /\ k - 1 # l
              BY <2>1, <5>3
            <6>2. files'[k - 1] = files[k - 1] /\ FullBefore(files[k], files[k - 1])
              BY <2>1, <5>1, <6>1 DEF Kept, Ordered
            <6> QED
              BY <5>1, <6>2
          <5> QED
            BY <5>1, <5>2, <5>3
        <4> QED
          BY <4>1, <4>2
      <3> QED
        BY <3>1 DEF Ordered
    <2>3. Gap'
      <3>1. l \notin DOMAIN files'
        BY <2>1
      <3>2. l - 1 \in DOMAIN files' => l - 1 \in DOMAIN files /\ files'[l - 1] = files[l - 1]
        BY <1>x, <2>1
      <3>3. l - 1 \in DOMAIN files => FullBefore(files[l], files[l - 1])
        BY <1>5 DEF Kept, Ordered
      <3> QED
        BY <1>1, <1>3, <2>1, <3>1, <3>2, <3>3 DEF Gap
    <2>4. Newest'
      <3>1. CASE m > 1
        <4>1. 0 \in DOMAIN files' /\ files'[0] = files[0]
          BY <1>2, <1>3, <2>1, <3>1
        <4> QED
          BY <1>1, <1>2, <3>1, <4>1 DEF Newest, FullFor
      <3>2. CASE ~(m > 1)
        <4>1. files'[1] = files[0] /\ pc' = "reopen"
          BY <1>1, <1>3, <2>1, <3>2
        <4> QED
          BY <1>1, <1>2, <4>1 DEF Newest, FullFor
      <3> QED
        BY <3>1, <3>2
    <2>5. Current'
      <3>1. ~open
        BY <1>1 DEF Kept, Current
      <3> QED
        BY <1>1, <3>1 DEF Current
    <2> QED
      BY <1>e, <2>2, <2>3, <2>4, <2>5 DEF Kept
  <1> QED
    BY <1>4, <1>5

\* A record put behind the current file, where it fits, leaves every file
\* within its limit and behind one that it would not have fitted into.
LEMMA OrderedWritten ==
  ASSUME Shape, Kept, pc = "write", 0 \in DOMAIN files,
         NEW r \in Records, Size(files[0]) + r.length <= FileLimit,
         r.kind # "torn" => r = hand,
         files' = [files EXCEPT ![0] = Append(@, r)]
  PROVE  Ordered'
  <1>1. /\ DOMAIN files' = DOMAIN files
        /\ \A k \in DOMAIN files : files'[k] = IF k = 0 THEN Append(files[k], r) ELSE files[k]
    OBVIOUS
  <1>2. files[0] \in Seq(Records) /\ \A k \in DOMAIN files : k \in Nat
    BY Constants DEF Shape, FilesOK
  <1>3. Bounded(files'[0])
    <2>1. Size(Append(files[0], r)) = Size(files[0]) + r.length
      BY <1>2, SizeFacts
    <2> QED
      BY <1>1, <2>1 DEF Bounded
  <1>4. 1 \in DOMAIN files => FullBefore(files[1], files'[0])
    <2> SUFFICES ASSUME 1 \in DOMAIN files, files'[0][1].kind # "torn"
                 PROVE  Size(files[1]) + files'[0][1].length > FileLimit
      BY DEF FullBefore
    <2>1. files'[0] = Append(files[0], r)
      BY <1>1
    <2>2. CASE files[0] = <<>>
      <3>1. files'[0][1] = r
        BY <2>1, <2>2
      <3>2. r = hand
        BY <3>1
      <3>3. FullFor(files[1], hand)
        BY <2>2 DEF Kept, Newest, FileAt
      <3> QED
        BY <3>1, <3>2, <3>3 DEF FullFor
    <2>3. CASE files[0] # <<>>
      <3>1. files'[0][1] = files[0][1]
        BY <1>2, <2>1, <2>3
      <3>2. FullBefore(files[1], files[0])
        <4>1. \A k \in DOMAIN files : k - 1 \in DOMAIN files => FullBefore(files[k], files[k - 1])
          BY DEF Kept, Ordered
        <4>2. 1 - 1 = 0
          OBVIOUS
        <4> QED
          BY <4>1, <4>2
      <3> QED
        BY <2>3, <3>1, <3>2 DEF FullBefore
    <2> QED
      BY <2>2, <2>3
  <1>5. ASSUME NEW k \in DOMAIN files'
        PROVE  Bounded(files'[k]) /\ (k - 1 \in DOMAIN files' => FullBefore(files'[k], files'[k - 1]))
    <2>1. k \in DOMAIN files /\ k \in Nat
      BY <1>1, <1>2
    <2>2. CASE k = 0
      <3>1. k - 1 \notin DOMAIN files
        BY <1>2, <2>2
      <3> QED
        BY <1>1, <1>3, <2>2, <3>1
    <2>3. CASE k = 1
      <3>1. files'[k] = files[k] /\ k - 1 = 0 /\ Bounded(files[k])
        BY <1>1, <2>1, <2>3 DEF Kept, Ordered
      <3> QED
        BY <1>4, <2>1, <2>3, <3>1
    <2>4. CASE k # 0 /\ k # 1
      <3>1. files'[k] = files[k] /\ Bounded(files[k]) /\ k - 1 # 0
        BY <1>1, <2>1, <2>4 DEF Kept, Ordered
      <3>2. k - 1 \in DOMAIN files => files'[k - 1] = files[k - 1] /\ FullBefore(files[k], files[k - 1])
        BY <1>1, <2>1, <3>1 DEF Kept, Ordered
      <3> QED
        BY <1>1, <3>1, <3>2
    <2> QED
      BY <2>2, <2>3, <2>4
  <1> QED
    BY <1>5 DEF Ordered

LEMMA RoomForHand ==
  ASSUME Shape, Kept, pc = "write", open, ~Overfull
  PROVE  /\ 0 \in DOMAIN files /\ Size(files[0]) = file_size /\ Size(files[0]) \in Nat
         /\ hand \in Records /\ hand.length \in Nat /\ Size(files[0]) + hand.length <= FileLimit
  <1>1. 0 \in DOMAIN files /\ file_size = Size(files[0])
    BY DEF Kept, Current
  <1>2. hand \in Records /\ hand.length \in Nat /\ file_size \in Nat /\ FileLimit \in Nat
    BY Constants DEF Shape, OthersOK, Records
  <1>3. ~(file_size > FileLimit - hand.length)
    BY DEF Overfull
  <1>4. file_size + hand.length <= FileLimit
    BY <1>2, <1>3
  <1> QED
    BY <1>1, <1>2, <1>4

LEMMA KeptWrite ==
  ASSUME Shape, Shape', Kept, Write
  PROVE  Kept'
  <1>1. /\ pc = "write" /\ open /\ ~Overfull /\ UNCHANGED <<open, next>>
        /\ files' = [files EXCEPT ![0] = Append(@, hand)] /\ out' = Append(out, hand)
        /\ file_size' = file_size + hand.length /\ pc' = "check"
    BY DEF Write
  <1>2. /\ 0 \in DOMAIN files /\ Size(files[0]) = file_size
        /\ hand \in Records /\ hand.length \in Nat /\ Size(files[0]) + hand.length <= FileLimit
    BY <1>1, RoomForHand
  <1>3. Ends'
    BY <1>1, <1>2, EndsWritten DEF Kept
  <1>4. Ordered'
    BY <1>1, <1>2, OrderedWritten
  <1>5. files'[0] = Append(files[0], hand) /\ 0 \in DOMAIN files'
    BY <1>1, <1>2
  <1>6. files[0] \in Seq(Records)
    BY <1>2 DEF Shape, FilesOK
  <1>7. Current'
    <2>1. Size(Append(files[0], hand)) = Size(files[0]) + hand.length
      BY <1>2, <1>6, SizeFacts
    <2> QED
      BY <1>1, <1>2, <1>5, <2>1 DEF Current
  <1>8. Newest'
    <2>0. Append(files[0], hand) # <<>>
      BY <1>2, <1>6
    <2>1. FileAt(0)' # <<>>
      BY <1>5, <2>0 DEF FileAt
    <2> QED
      BY <1>1, <2>1 DEF Newest
  <1> QED
    BY <1>1, <1>3, <1>4, <1>7, <1>8 DEF Kept, Gap

LEMMA KeptTears ==
  ASSUME Shape, Shape', Kept, WriteTears
  PROVE  Kept'
  <1>1. pc = "write" /\ open /\ ~Overfull /\ pc' = "failed"
    BY DEF WriteTears
  <1>2. PICK k \in 1 .. hand.length - 1 :
          /\ files' = [files EXCEPT ![0] = Append(@, [hand EXCEPT !.kind = "torn", !.length = k])]
          /\ out' = Append(out, [hand EXCEPT !.kind = "torn", !.length = k])
    BY DEF WriteTears
  <1>3. /\ 0 \in DOMAIN files /\ Size(files[0]) \in Nat
        /\ hand \in Records /\ hand.length \in Nat /\ Size(files[0]) + hand.length <= FileLimit
    BY <1>1, RoomForHand
  <1> DEFINE r == [hand EXCEPT !.kind = "torn", !.length = k]
  <1>4. k \in Nat /\ k < hand.length
    BY <1>3
  <1>5. r \in Records /\ r.kind = "torn" /\ r.length = k
    BY <1>3, <1>4 DEF Records
  <1>6. files' = [files EXCEPT ![0] = Append(@, r)] /\ out' = Append(out, r)
    BY <1>2
  <1> HIDE DEF r
  <1>7. Size(files[0]) + r.length <= FileLimit
    BY <1>3, <1>4, <1>5, Constants
  <1>8. Ends'
    BY <1>3, <1>5, <1>6, EndsWritten DEF Kept
  <1>9. Ordered'
    BY <1>1, <1>3, <1>5, <1>6, <1>7, OrderedWritten
  <1> QED
    BY <1>1, <1>8, <1>9 DEF Kept, Gap, Newest, Current

LEMMA KeptInit == Init => Kept
  <1> SUFFICES ASSUME Init PROVE Kept
    OBVIOUS
  <1>1. /\ open = FALSE /\ pc = "check" /\ file_error = FALSE
        /\ \E found \in {<<>>, <<Old(FileLimit)>>, <<Old(FileLimit + 1)>>} :
             /\ files = [k \in IF found = <<>> THEN {} ELSE {0} |-> found]
             /\ out = found
    BY DEF Init
  <1>2. PICK found \in {<<>>, <<Old(FileLimit)>>, <<Old(FileLimit + 1)>>} :
             /\ files = [k \in IF found = <<>> THEN {} ELSE {0} |-> found]
             /\ out = found
    BY <1>1
  <1>3. DOMAIN files \subseteq {0} /\ (\A k \in DOMAIN files : files[k] = found) /\ At(files, 0) = found
    BY <1>2 DEF At
  <1>4. found \in Parts
    <2>1. FileLimit \in Nat /\ FileLimit + 1 \in Nat
      BY Constants
    <2>2. Old(FileLimit) \in Records /\ Old(FileLimit + 1) \in Records
      BY <2>1 DEF Old, Records
    <2>3. \A x \in Records : <<x>> \in Seq(Records)
      OBVIOUS
    <2>4. <<Old(FileLimit)>> \in Parts /\ <<Old(FileLimit + 1)>> \in Parts
      BY <2>2, <2>3 DEF Parts
    <2>5. <<>> \in Parts
      BY JoinLaws
    <2> QED
      BY <2>4, <2>5
  <1>5. Ends
    <2> DEFINE none == [k \in {} |-> <<>>]
    <2>1. \A k : At(none, k) = <<>>
      BY DEF At
    <2> HIDE DEF none
    <2>2. Whole(none) = <<>> /\ Directory(none)
      BY <2>1, WholeNothing, JoinLaws DEF Directory
    <2>3. \A k \in Names : k # 0 => At(files, k) = <<>>
      BY <1>3 DEF At
    <2>4. Directory(files)
      BY <1>3, <1>4, <2>3, JoinLaws DEF Directory
    <2>5. At(files, 0) = Joined(At(none, 0), found)
      BY <1>3, <1>4, <2>1, JoinLaws
    <2>6. Whole(files) = Joined(Whole(none), found)
      BY <1>4, <2>1, <2>2, <2>3, <2>4, <2>5, WholeGrows
    <2>7. out = Joined(<<>>, Whole(files)) /\ <<>> \in Parts
      BY <1>2, <1>4, <2>2, <2>6, JoinLaws
    <2> QED
      BY <2>7, EndsIs
  <1>6. Ordered
    <2>1. Bounded(found)
      <3>1. CASE found = <<>>
        <4>1. <<>> \in Seq(Records) /\ None \in Records
          BY DEF None, Records
        <4>2. Size(<<>>) = 0
          BY <4>1, SizeFacts
        <4> QED
          BY <3>1, <4>2, Constants DEF Bounded
      <3>2. CASE found = <<Old(FileLimit)>> \/ found = <<Old(FileLimit + 1)>>
        <4>1. Len(found) = 1 /\ found[1].kind = "old"
          BY <3>2 DEF Old
        <4> QED
          BY <4>1 DEF Bounded
      <3> QED
        BY <3>1, <3>2
    <2>2. \A k \in DOMAIN files : k - 1 \notin DOMAIN files
      BY <1>3
    <2> QED
      BY <1>3, <2>1, <2>2 DEF Ordered
  <1>7. Newest
    <2>1. 1 \notin DOMAIN files
      BY <1>3
    <2> QED
      BY <1>1, <2>1 DEF Newest
  <1> QED
    BY <1>1, <1>5, <1>6, <1>7 DEF Kept, Gap, Current

LEMMA KeptStep == Shape /\ Kept /\ [Next]_vars => Kept'
  <1> SUFFICES ASSUME Shape, Kept, [Next]_vars PROVE Kept'
    OBVIOUS
  <1>1. Shape'
    BY ShapeStep
  <1> QED
    BY <1>1, KeptLog, KeptQuiet, KeptDisable, KeptCheck, KeptStart, KeptOpenLog, KeptUnlink,
       KeptRotate, KeptWrite, KeptTears DEF Next

LEMMA KeptIsLatest == Shape /\ Kept => LatestKept
  <1> SUFFICES ASSUME Shape, Kept PROVE LatestKept
    OBVIOUS
  <1>1. PICK p \in Parts : out = Joined(p, Whole(files))
    BY EndsIs DEF Kept
  <1>2. Whole(files) \in Parts
    BY DirectoryOK, RowsOK DEF Shape
  <1>3. IsSuffix(Whole(files), out)
    BY <1>1, <1>2, EndIsSuffix
  <1>4. Whole(files) = Archives
    BY DEF Whole, Rows, At, Archives, FileAt
  <1> QED
    BY <1>3, <1>4 DEF LatestKept, Kept, Ordered

\* Oldest first, the files hold the end of everything ever written, in the
\* middle of a rotation and after one that failed half way as well; each is
\* within its limit and was left only for a record that did not fit
\* (rotate and write_record, logger.c).
THEOREM LatestAlwaysKept == Spec => []LatestKept
  <1>1. Init => Shape /\ Kept
    BY ShapeInit, KeptInit
  <1>2. (Shape /\ Kept) /\ [Next]_vars => (Shape /\ Kept)'
    BY ShapeStep, KeptStep
  <1> QED
    BY <1>1, <1>2, KeptIsLatest, PTL DEF Spec
=============================================================================
