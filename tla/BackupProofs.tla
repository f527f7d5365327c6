---------------------------- MODULE BackupProofs ----------------------------
(***************************************************************************)
(* Proofs about a run of dvdbackup (Backup) and its guess of the main      *)
(* feature (MainFeature), for every disc, command line and target          *)
(* directory that satisfy BackupAssumption.                                *)
(***************************************************************************)
EXTENDS Backup, FiniteSetTheorems, WellFoundedInduction, TLAPS

-------------------------------------------------------------------------------
(***************************************************************************)
(* The sort                                                                *)
(*                                                                         *)
(* Every pass compares what is at i with all, also with what is before i.  *)
(* The first one takes the smallest to the first place; from then on the   *)
(* smallest of all is at i - 1 when the i-th pass begins, and the pass     *)
(* puts what is at i to its place before i, and the smallest to i.         *)
(***************************************************************************)
\* Induction over the natural numbers, for a set: the library's theorem takes an
\* operator as its parameter.
LEMMA SetInduction ==
    ASSUME NEW S, 0 \in S, \A n \in Nat : n \in S => n + 1 \in S
    PROVE  Nat \subseteq S
<1> DEFINE T == Nat \ S
           R == {ss \in Nat \X Nat : ss[1] < ss[2]}
<1>1. IsWellFoundedOn(R, Nat)
  BY NatLessThanWellFounded DEF OpToRel
<1> SUFFICES ASSUME T # {} PROVE FALSE
  OBVIOUS
<1>2. PICK x \in T : \A y \in T : ~ (<<y, x>> \in R)
  <2> HIDE DEF R
  <2> QED BY <1>1, WFMin
<1>3. x # 0 /\ x - 1 \in Nat
  OBVIOUS
<1>4. <<x - 1, x>> \in R
  BY <1>3
<1>5. x - 1 \notin T
  BY <1>2, <1>4
<1>6. (x - 1) + 1 \in S
  BY <1>3, <1>5
<1> QED BY <1>6

LEMMA Least ==
    ASSUME NEW S \in SUBSET Nat, S # {}
    PROVE  \E b \in S : \A c \in S : b <= c
<1> DEFINE R == {ss \in Nat \X Nat : ss[1] < ss[2]}
<1>1. IsWellFoundedOn(R, Nat)
  BY NatLessThanWellFounded DEF OpToRel
<1>2. PICK x \in S : \A y \in S : ~ (<<y, x>> \in R)
  <2> HIDE DEF R
  <2> QED BY <1>1, WFMin
<1>3. \A y \in S : ~ (y < x)
  BY <1>2
<1> QED BY <1>3

\* g[k] is made of g[k - 1], from base on.
ChainOf(step, base, n, g) ==
    /\ g[0] = base
    /\ \A k \in 1 .. n : g[k] = step[k][g[k - 1]]

LEMMA ChainExists ==
    ASSUME NEW V, NEW base \in V, NEW n \in Nat, NEW step \in [1 .. n -> [V -> V]]
    PROVE  \E g \in [0 .. n -> V] : ChainOf(step, base, n, g)
<1> DEFINE S == {m \in Nat : m <= n => \E g \in [0 .. m -> V] : ChainOf(step, base, m, g)}
<1>1. 0 \in S
  <2> DEFINE g == [i \in 0 .. 0 |-> base]
  <2>1. g \in [0 .. 0 -> V] /\ g[0] = base
    OBVIOUS
  <2> HIDE DEF g
  <2>2. ChainOf(step, base, 0, g)
    BY <2>1 DEF ChainOf
  <2> QED BY <2>1, <2>2
<1>2. ASSUME NEW m \in Nat, m \in S PROVE m + 1 \in S
  <2> SUFFICES ASSUME m + 1 <= n
               PROVE  \E g \in [0 .. m + 1 -> V] : ChainOf(step, base, m + 1, g)
    OBVIOUS
  <2>1. PICK f \in [0 .. m -> V] : ChainOf(step, base, m, f)
    BY <1>2
  <2>2. f[0] = base /\ \A k \in 1 .. m : f[k] = step[k][f[k - 1]]
    BY <2>1 DEF ChainOf
  <2> DEFINE g == [i \in 0 .. m + 1 |-> IF i = m + 1 THEN step[m + 1][f[m]] ELSE f[i]]
  <2>3. g \in [0 .. m + 1 -> V]
    <3>1. m + 1 \in 1 .. n /\ f[m] \in V
      BY <2>1
    <3>2. step[m + 1] \in [V -> V]
      BY <3>1
    <3>3. step[m + 1][f[m]] \in V
      BY <3>1, <3>2
    <3>4. \A i \in 0 .. m + 1 : i # m + 1 => i \in 0 .. m /\ f[i] \in V
      BY <2>1
    <3> QED BY <3>3, <3>4
  <2>4. g[0] = base
    BY <2>2
  <2>5. ASSUME NEW k \in 1 .. m + 1 PROVE g[k] = step[k][g[k - 1]]
    <3>1. CASE k = m + 1
      <4>1. g[k] = step[m + 1][f[m]] /\ k - 1 = m /\ g[m] = f[m]
        BY <3>1
      <4> QED BY <3>1, <4>1
    <3>2. CASE k # m + 1
      <4>1. k \in 1 .. m /\ k - 1 \in 0 .. m /\ k - 1 # m + 1
        BY <3>2
      <4>2. g[k] = f[k] /\ g[k - 1] = f[k - 1]
        BY <3>2, <4>1
      <4> QED BY <2>2, <4>1, <4>2
    <3> QED BY <3>1, <3>2
  <2> HIDE DEF g
  <2>6. ChainOf(step, base, m + 1, g)
    BY <2>4, <2>5 DEF ChainOf
  <2> QED BY <2>3, <2>6
<1> HIDE DEF S
<1>3. n \in S
  BY <1>1, <1>2, SetInduction
<1> QED BY <1>3 DEF S

Entries == [key : Nat, set : Nat]
Arrays(n) == [1 .. n -> Entries]

\* s has the entries of a, in any order.
Rearranged(a, s, n) ==
    /\ s \in Arrays(n)
    /\ \E p \in [1 .. n -> 1 .. n] :
         /\ \A k \in 1 .. n : s[k] = a[p[k]]
         /\ \A k, l \in 1 .. n : p[k] = p[l] => k = l
         /\ \A l \in 1 .. n : \E k \in 1 .. n : p[k] = l

LEMMA ExchangeRearranges ==
    ASSUME NEW n \in Nat, NEW a, NEW s, Rearranged(a, s, n), NEW i \in 1 .. n, NEW j \in 1 .. n
    PROVE  Rearranged(a, Exchange(s, i, j), n)
<1>1. CASE ~(s[i].key > s[j].key)
  BY <1>1 DEF Exchange
<1>2. CASE s[i].key > s[j].key
  <2> DEFINE t == [s EXCEPT ![i] = s[j], ![j] = s[i]]
  <2>1. Exchange(s, i, j) = t
    BY <1>2 DEF Exchange
  <2>2. PICK p \in [1 .. n -> 1 .. n] :
          /\ \A k \in 1 .. n : s[k] = a[p[k]]
          /\ \A k, l \in 1 .. n : p[k] = p[l] => k = l
          /\ \A l \in 1 .. n : \E k \in 1 .. n : p[k] = l
    BY DEF Rearranged
  <2> DEFINE q == [p EXCEPT ![i] = p[j], ![j] = p[i]]
  <2>3. /\ t \in Arrays(n) /\ t[i] = s[j] /\ t[j] = s[i]
        /\ \A k \in 1 .. n : k # i /\ k # j => t[k] = s[k]
    BY DEF Rearranged, Arrays
  <2>4. /\ q \in [1 .. n -> 1 .. n] /\ q[i] = p[j] /\ q[j] = p[i]
        /\ \A k \in 1 .. n : k # i /\ k # j => q[k] = p[k]
    OBVIOUS
  <2> HIDE DEF t, q
  <2>5. ASSUME NEW k \in 1 .. n PROVE t[k] = a[q[k]]
    <3>1. CASE k = i
      BY <2>2, <2>3, <2>4, <3>1
    <3>2. CASE k = j
      BY <2>2, <2>3, <2>4, <3>2
    <3>3. CASE k # i /\ k # j
      BY <2>2, <2>3, <2>4, <3>3
    <3> QED BY <3>1, <3>2, <3>3
  <2>6. ASSUME NEW k \in 1 .. n, NEW l \in 1 .. n, q[k] = q[l] PROVE k = l
    <3> DEFINE x == IF k = i THEN j ELSE IF k = j THEN i ELSE k
               y == IF l = i THEN j ELSE IF l = j THEN i ELSE l
    <3>1. x \in 1 .. n /\ y \in 1 .. n /\ q[k] = p[x] /\ q[l] = p[y]
      BY <2>4
    <3>2. x = y => k = l
      OBVIOUS
    <3> HIDE DEF x, y
    <3>3. p[x] = p[y]
      BY <2>6, <3>1
    <3>4. x = y
      BY <2>2, <3>1, <3>3
    <3> QED BY <3>2, <3>4
  <2>7. \A l \in 1 .. n : \E k \in 1 .. n : q[k] = l
    <3> SUFFICES ASSUME NEW l \in 1 .. n PROVE \E k \in 1 .. n : q[k] = l
      OBVIOUS
    <3>1. PICK k \in 1 .. n : p[k] = l
      BY <2>2
    <3> QED BY <2>4, <3>1
  <2>8. Rearranged(a, t, n)
    BY <2>3, <2>4, <2>5, <2>6, <2>7 DEF Rearranged
  <2> QED BY <2>1, <2>8 DEF t
<1> QED BY <1>1, <1>2

\* Of the i-th pass j comparisons are done.
Falls(s, i, n)    == \A k, l \in 1 .. n : k < l /\ l < i => s[k].key >= s[l].key
UpTo(s, i, j)     == \A k \in 1 .. j : s[k].key >= s[i].key
Smallest(s, i, n) == \A k \in 1 .. n : s[k].key >= s[i].key
Compared(s, i, j, n) ==
    /\ Falls(s, i, n) /\ UpTo(s, i, j)
    /\ i > 1 /\ j + 1 < i => Smallest(s, i - 1, n)
    /\ i > 1 /\ j + 1 >= i => Smallest(s, i, n)

\* One comparison.
LEMMA CompareStep ==
    ASSUME NEW n \in Nat, NEW s \in Arrays(n), NEW i \in 1 .. n, NEW j \in 1 .. n,
           Falls(s, i, n), UpTo(s, i, j - 1),
           i > 1 /\ j < i => Smallest(s, i - 1, n), i > 1 /\ j >= i => Smallest(s, i, n)
    PROVE  Compared(Exchange(s, i, j), i, j, n)
<1>1. \A k \in 1 .. n : s[k].key \in Nat
  BY DEF Arrays, Entries
<1>2. CASE ~(s[i].key > s[j].key)
  <2>1. Exchange(s, i, j) = s /\ s[j].key >= s[i].key
    BY <1>1, <1>2 DEF Exchange
  <2>2. UpTo(s, i, j)
    <3>1. \A k \in 1 .. j : k = j \/ k \in 1 .. j - 1
      OBVIOUS
    <3> QED BY <2>1, <3>1 DEF UpTo
  <2>3. i > 1 /\ j + 1 < i => Smallest(s, i - 1, n)
    OBVIOUS
  <2>4. i > 1 /\ j + 1 >= i => Smallest(s, i, n)
    <3>1. CASE j >= i
      BY <3>1
    <3>2. ASSUME i > 1, j + 1 = i PROVE Smallest(s, i, n)
      <4>1. j = i - 1 /\ Smallest(s, j, n)
        BY <3>2
      <4> QED BY <1>1, <2>1, <4>1 DEF Smallest
    <3> QED BY <3>1, <3>2
  <2> QED BY <2>1, <2>2, <2>3, <2>4 DEF Compared
<1>3. CASE s[i].key > s[j].key
  <2> DEFINE t == Exchange(s, i, j)
  <2>1. i # j /\ t = [s EXCEPT ![i] = s[j], ![j] = s[i]]
    BY <1>1, <1>3 DEF Exchange
  <2>2. /\ t[i] = s[j] /\ t[j] = s[i]
        /\ \A k \in 1 .. n : k # i /\ k # j => t[k] = s[k]
    BY <2>1 DEF Arrays
  <2> HIDE DEF t
  <2>3. \A k \in 1 .. n : \E l \in 1 .. n : t[k] = s[l]
    BY <2>2
  <2>4. i = 1 \/ j < i
    <3> SUFFICES ASSUME i > 1, j >= i PROVE FALSE
      OBVIOUS
    <3>1. s[j].key >= s[i].key
      BY DEF Smallest
    <3> QED BY <1>1, <1>3, <3>1
  <2>5. Falls(t, i, n)
    <3> SUFFICES ASSUME NEW k \in 1 .. n, NEW l \in 1 .. n, k < l, l < i
                 PROVE  t[k].key >= t[l].key
      BY DEF Falls
    <3>1. s[k].key >= s[l].key /\ i > 1 /\ j < i
      BY <2>4 DEF Falls
    <3>2. CASE k = j
      BY <1>1, <1>3, <2>2, <3>1, <3>2
    <3>3. CASE l = j
      <4>1. k \in 1 .. j - 1 /\ k # i /\ k # j
        BY <3>3, <3>1
      <4>2. s[k].key >= s[i].key
        BY <4>1 DEF UpTo
      <4> QED BY <2>2, <3>3, <4>1, <4>2
    <3>4. CASE k # j /\ l # j
      BY <2>2, <3>1, <3>4
    <3> QED BY <3>2, <3>3, <3>4
  <2>6. UpTo(t, i, j)
    <3> SUFFICES ASSUME NEW k \in 1 .. j PROVE t[k].key >= t[i].key
      BY DEF UpTo
    <3>1. CASE k = i \/ k = j
      BY <1>1, <1>3, <2>2, <3>1
    <3>2. CASE k # i /\ k # j
      <4>1. k \in 1 .. j - 1 /\ k \in 1 .. n
        BY <3>2
      <4>2. s[k].key >= s[i].key
        BY <4>1 DEF UpTo
      <4>3. s[k].key >= s[j].key
        BY <1>1, <1>3, <4>1, <4>2
      <4> QED BY <2>2, <3>2, <4>1, <4>3
    <3> QED BY <3>1, <3>2
  <2>7. ASSUME i > 1
        PROVE  (j + 1 < i => Smallest(t, i - 1, n)) /\ (j + 1 >= i => Smallest(t, i, n))
    <3>1. j < i /\ Smallest(s, i - 1, n) /\ i - 1 \in 1 .. n
      BY <2>4, <2>7
    <3>2. \A k \in 1 .. n : t[k].key >= s[i - 1].key
      BY <2>3, <3>1 DEF Smallest
    <3>3. j + 1 < i => t[i - 1] = s[i - 1]
      BY <2>2, <3>1
    <3>4. j + 1 >= i => t[i] = s[i - 1]
      <4>1. j + 1 >= i => j = i - 1
        BY <3>1
      <4> QED BY <2>2, <4>1
    <3> QED BY <3>2, <3>3, <3>4 DEF Smallest
  <2> QED BY <2>5, <2>6, <2>7 DEF Compared, t
<1> QED BY <1>2, <1>3

\* Between two passes.
Passed(s, i, n) == Falls(s, i + 1, n) /\ (i >= 1 => Smallest(s, i, n))

LEMMA PassBegins ==
    ASSUME NEW n \in Nat, NEW s \in Arrays(n), NEW i \in 1 .. n, Passed(s, i - 1, n)
    PROVE  Compared(s, i, 0, n)
<1>1. Falls(s, i, n) /\ (i > 1 => Smallest(s, i - 1, n))
  <2>1. (i - 1) + 1 = i /\ (i > 1 => i - 1 >= 1)
    OBVIOUS
  <2> QED BY <2>1 DEF Passed
<1>2. UpTo(s, i, 0)
  BY DEF UpTo
<1>3. ~(i > 1 /\ 0 + 1 >= i)
  OBVIOUS
<1> QED BY <1>1, <1>2, <1>3 DEF Compared

LEMMA PassEnds ==
    ASSUME NEW n \in Nat, NEW s \in Arrays(n), NEW i \in 1 .. n, Compared(s, i, n, n)
    PROVE  Passed(s, i, n)
<1>1. Smallest(s, i, n)
  BY DEF Compared, UpTo, Smallest
<1>2. Falls(s, i + 1, n)
  <2> SUFFICES ASSUME NEW k \in 1 .. n, NEW l \in 1 .. n, k < l, l < i + 1
               PROVE  s[k].key >= s[l].key
    BY DEF Falls
  <2>1. CASE l = i
    BY <1>1, <2>1 DEF Smallest
  <2>2. CASE l < i
    BY <2>2 DEF Compared, Falls
  <2> QED BY <2>1, <2>2
<1> QED BY <1>1, <1>2 DEF Passed

LEMMA ExchangeType ==
    ASSUME NEW n \in Nat, NEW s \in Arrays(n), NEW i \in 1 .. n, NEW j \in 1 .. n
    PROVE  Exchange(s, i, j) \in Arrays(n)
BY DEF Exchange, Arrays

LEMMA PassOf ==
    ASSUME NEW n \in Nat, NEW a, NEW s, Rearranged(a, s, n), NEW i \in 1 .. n,
           Passed(s, i - 1, n), Len(s) = n
    PROVE  /\ Rearranged(a, Pass(s, i), n) /\ Passed(Pass(s, i), i, n)
           /\ Len(Pass(s, i)) = n
<1> DEFINE b == CHOOSE b : b = [j \in 0 .. n |-> IF j = 0 THEN s ELSE Exchange(b[j - 1], i, j)]
           step == [j \in 1 .. n |-> [t \in Arrays(n) |-> Exchange(t, i, j)]]
<1>0. s \in Arrays(n)
  BY DEF Rearranged
<1>1. step \in [1 .. n -> [Arrays(n) -> Arrays(n)]]
  BY ExchangeType
<1>2. PICK g \in [0 .. n -> Arrays(n)] : ChainOf(step, s, n, g)
  <2> HIDE DEF step
  <2> QED BY <1>0, <1>1, ChainExists
<1>3. g[0] = s /\ \A j \in 1 .. n : g[j] = Exchange(g[j - 1], i, j)
  <2>1. g[0] = s /\ \A j \in 1 .. n : g[j] = step[j][g[j - 1]]
    BY <1>2 DEF ChainOf
  <2>2. \A j \in 1 .. n : g[j - 1] \in Arrays(n)
    OBVIOUS
  <2> QED BY <2>1, <2>2
<1>4. g = [j \in 0 .. n |-> IF j = 0 THEN s ELSE Exchange(g[j - 1], i, j)]
  <2> DEFINE h == [j \in 0 .. n |-> IF j = 0 THEN s ELSE Exchange(g[j - 1], i, j)]
  <2>1. \A j \in 0 .. n : g[j] = h[j]
    <3>1. \A j \in 0 .. n : j # 0 => j \in 1 .. n
      OBVIOUS
    <3> QED BY <1>3, <3>1
  <2> QED BY <2>1
<1>5. b = [j \in 0 .. n |-> IF j = 0 THEN s ELSE Exchange(b[j - 1], i, j)]
  <2> HIDE DEF step
  <2> QED BY <1>4
<1>6. Pass(s, i) = b[n]
  BY DEF Pass
<1> HIDE DEF b, step
<1>7. b[0] = s /\ \A j \in 1 .. n : b[j] = Exchange(b[j - 1], i, j)
  <2>1. 0 \in 0 .. n /\ \A j \in 1 .. n : j \in 0 .. n /\ j # 0
    OBVIOUS
  <2> QED BY <1>5, <2>1
<1> DEFINE S == {j \in Nat : j <= n => Rearranged(a, b[j], n) /\ Compared(b[j], i, j, n)}
<1>8. 0 \in S
  BY <1>0, <1>7, PassBegins
<1>9. ASSUME NEW j \in Nat, j \in S PROVE j + 1 \in S
  <2> SUFFICES ASSUME j + 1 <= n
               PROVE  Rearranged(a, b[j + 1], n) /\ Compared(b[j + 1], i, j + 1, n)
    OBVIOUS
  <2>1. j + 1 \in 1 .. n /\ (j + 1) - 1 = j /\ j <= n
    OBVIOUS
  <2>2. Rearranged(a, b[j], n) /\ Compared(b[j], i, j, n) /\ b[j] \in Arrays(n)
    BY <1>9, <2>1 DEF Rearranged
  <2>3. b[j + 1] = Exchange(b[j], i, j + 1)
    BY <1>7, <2>1
  <2>4. Compared(b[j + 1], i, j + 1, n)
    <3>1. /\ Falls(b[j], i, n) /\ UpTo(b[j], i, (j + 1) - 1)
          /\ i > 1 /\ j + 1 < i => Smallest(b[j], i - 1, n)
          /\ i > 1 /\ j + 1 >= i => Smallest(b[j], i, n)
      BY <2>1, <2>2 DEF Compared
    <3> DEFINE m == j + 1
    <3>2. m \in 1 .. n
      BY <2>1
    <3> HIDE DEF m
    <3>3. Compared(Exchange(b[j], i, m), i, m, n)
      BY <2>2, <3>1, <3>2, CompareStep DEF m
    <3> QED BY <2>3, <3>3 DEF m
  <2>5. Rearranged(a, b[j + 1], n)
    BY <2>1, <2>2, <2>3, ExchangeRearranges
  <2> QED BY <2>4, <2>5
<1> HIDE DEF S
<1>10. n \in S
  BY <1>8, <1>9, SetInduction
<1>11. Rearranged(a, b[n], n) /\ Compared(b[n], i, n, n) /\ b[n] \in Arrays(n)
  <2>1. Rearranged(a, b[n], n) /\ Compared(b[n], i, n, n)
    BY <1>10 DEF S
  <2> QED BY <2>1 DEF Rearranged
<1>12. Len(b[n]) = n
  BY <1>11 DEF Arrays
<1> QED BY <1>6, <1>11, <1>12, PassEnds

\* The sorted array has the same entries, the largest first.
LEMMA SortedOf ==
    ASSUME NEW n \in Nat, NEW a \in Arrays(n)
    PROVE  /\ Rearranged(a, Sorted(a), n) /\ Len(Sorted(a)) = n
           /\ \A k, l \in 1 .. n : k < l => Sorted(a)[k].key >= Sorted(a)[l].key
<1> DEFINE b == CHOOSE b : b = [i \in 0 .. n |-> IF i = 0 THEN a ELSE Pass(b[i - 1], i)]
           V == {s \in Arrays(n) : Rearranged(a, s, n)}
           G(i) == {s \in V : Passed(s, i, n)}
           step == [i \in 1 .. n |-> [t \in V |-> IF t \in G(i - 1) THEN Pass(t, i) ELSE t]]
<1>0. Len(a) = n /\ Rearranged(a, a, n)
  <2>1. Len(a) = n
    BY DEF Arrays
  <2> DEFINE p == [k \in 1 .. n |-> k]
  <2>2. /\ p \in [1 .. n -> 1 .. n] /\ \A k \in 1 .. n : a[k] = a[p[k]] /\ p[k] = k
    OBVIOUS
  <2> HIDE DEF p
  <2> QED BY <2>1, <2>2 DEF Rearranged
<1>1. \A t \in V : Len(t) = n
  BY DEF Arrays
<1>2. ASSUME NEW i \in 1 .. n, NEW t \in G(i - 1)
      PROVE  Pass(t, i) \in G(i)
  <2>1. Rearranged(a, Pass(t, i), n) /\ Passed(Pass(t, i), i, n)
    BY <1>1, PassOf
  <2> QED BY <2>1 DEF Rearranged
<1>3. step \in [1 .. n -> [V -> V]]
  <2>1. \A i \in 1 .. n, t \in V : (IF t \in G(i - 1) THEN Pass(t, i) ELSE t) \in V
    BY <1>2
  <2> HIDE DEF V, G
  <2> QED BY <2>1
<1>4. a \in G(0)
  <2>1. Passed(a, 0, n)
    BY DEF Passed, Falls
  <2> QED BY <1>0, <2>1
<1>5. PICK g \in [0 .. n -> V] : ChainOf(step, a, n, g)
  <2> HIDE DEF step, V
  <2>1. a \in V
    BY <1>0 DEF V
  <2> QED BY <1>3, <2>1, ChainExists
<1>6. g[0] = a /\ \A i \in 1 .. n : g[i] = IF g[i - 1] \in G(i - 1) THEN Pass(g[i - 1], i) ELSE g[i - 1]
  <2>1. g[0] = a /\ \A i \in 1 .. n : g[i] = step[i][g[i - 1]]
    BY <1>5 DEF ChainOf
  <2>2. \A i \in 1 .. n : g[i - 1] \in V
    BY <1>5
  <2> HIDE DEF V, G
  <2> QED BY <2>1, <2>2
<1> HIDE DEF step, V
<1> DEFINE S == {i \in Nat : i <= n => g[i] \in G(i)}
<1>7. 0 \in S
  BY <1>4, <1>6
<1>8. ASSUME NEW i \in Nat, i \in S PROVE i + 1 \in S
  <2> SUFFICES ASSUME i + 1 <= n PROVE g[i + 1] \in G(i + 1)
    OBVIOUS
  <2> HIDE DEF G
  <2>1. i + 1 \in 1 .. n /\ (i + 1) - 1 = i /\ i <= n
    OBVIOUS
  <2>2. g[i] \in G(i)
    BY <1>8, <2>1
  <2> QED BY <1>2, <1>6, <2>1, <2>2
<1> HIDE DEF S
<1>9. \A i \in 0 .. n : g[i] \in G(i)
  <2>1. Nat \subseteq S
    BY <1>7, <1>8, SetInduction
  <2> QED BY <2>1 DEF S
<1> HIDE DEF G
<1>10. g[0] = a /\ \A i \in 1 .. n : g[i] = Pass(g[i - 1], i)
  <2>1. \A i \in 1 .. n : i - 1 \in 0 .. n
    OBVIOUS
  <2> QED BY <1>6, <1>9, <2>1
<1>11. g = [i \in 0 .. n |-> IF i = 0 THEN a ELSE Pass(g[i - 1], i)]
  <2> DEFINE h == [i \in 0 .. n |-> IF i = 0 THEN a ELSE Pass(g[i - 1], i)]
  <2>1. \A i \in 0 .. n : g[i] = h[i]
    <3>1. \A i \in 0 .. n : i # 0 => i \in 1 .. n
      OBVIOUS
    <3> QED BY <1>10, <3>1
  <2> QED BY <1>5, <2>1
<1>12. b = [i \in 0 .. n |-> IF i = 0 THEN a ELSE Pass(b[i - 1], i)]
  BY <1>11
<1>13. Sorted(a) = b[n]
  BY <1>0 DEF Sorted
<1> HIDE DEF b
<1>14. \A i \in 0 .. n : b[i] = g[i]
  <2> DEFINE T == {i \in Nat : i <= n => b[i] = g[i]}
  <2>1. 0 \in T
    BY <1>10, <1>12
  <2>2. ASSUME NEW i \in Nat, i \in T PROVE i + 1 \in T
    <3> SUFFICES ASSUME i + 1 <= n PROVE b[i + 1] = g[i + 1]
      OBVIOUS
    <3>1. i + 1 \in 1 .. n /\ i + 1 \in 0 .. n /\ i + 1 # 0 /\ (i + 1) - 1 = i /\ b[i] = g[i]
      BY <2>2
    <3> QED BY <1>10, <1>12, <3>1
  <2> HIDE DEF T
  <2>3. Nat \subseteq T
    BY <2>1, <2>2, SetInduction
  <2> QED BY <2>3 DEF T
<1>15. Sorted(a) \in G(n) /\ n \in 0 .. n
  BY <1>9, <1>13, <1>14
<1>16. Rearranged(a, Sorted(a), n) /\ Passed(Sorted(a), n, n) /\ Sorted(a) \in V
  BY <1>15 DEF G, V
<1>17. \A k, l \in 1 .. n : k < l => Sorted(a)[k].key >= Sorted(a)[l].key
  <2>1. \A l \in 1 .. n : l < n + 1
    OBVIOUS
  <2> QED BY <1>16, <2>1 DEF Passed, Falls
<1> QED BY <1>1, <1>16, <1>17

-------------------------------------------------------------------------------
(***************************************************************************)
(* The main feature                                                        *)
(***************************************************************************)
Figures == {"size", "audio", "sub", "channels"}
Disc(d) ==
    /\ Len(d.sets) \in Nat \ {0} /\ Len(d.titles) \in Nat \ {0}
    /\ \A s \in 1 .. Len(d.sets), f \in Figures : d.sets[s][f] \in Nat
    /\ \A t \in 1 .. Len(d.titles) : d.titles[t].set \in Nat /\ d.titles[t].chapters \in Nat

\* The n title sets by a figure, the largest first.
Ranks(r, n, d, figure) ==
    /\ Len(r) = n
    /\ \A i \in 1 .. n : /\ r[i].set \in 1 .. n /\ r[i].key = d.sets[r[i].set][figure]
                         /\ r[i].key \in Nat
    /\ \A s \in 1 .. n : \E i \in 1 .. n : r[i].set = s
    /\ \A i, j \in 1 .. n : r[i].set = r[j].set => i = j
    /\ \A i, j \in 1 .. n : i < j => r[i].key >= r[j].key

LEMMA RankedOf ==
    ASSUME NEW d, Disc(d), NEW figure \in Figures
    PROVE  Ranks(Ranked(d, figure), Len(d.sets), d, figure)
<1> DEFINE n == Len(d.sets)
           a == [s \in 1 .. n |-> [key |-> d.sets[s][figure], set |-> s]]
           r == Sorted(a)
<1>1. n \in Nat /\ \A s \in 1 .. n : d.sets[s][figure] \in Nat
  BY DEF Disc
<1>2. a \in Arrays(n)
  <2> HIDE DEF n
  <2>1. \A s \in 1 .. n : [key |-> d.sets[s][figure], set |-> s] \in Entries
    BY <1>1 DEF Entries
  <2> QED BY <2>1 DEF Arrays
<1>3. \A s \in 1 .. n : a[s].key = d.sets[s][figure] /\ a[s].set = s
  OBVIOUS
<1>4. Ranked(d, figure) = r
  BY DEF Ranked
<1> HIDE DEF a, n
<1>5. /\ Rearranged(a, r, n) /\ Len(r) = n
      /\ \A k, l \in 1 .. n : k < l => r[k].key >= r[l].key
  BY <1>1, <1>2, SortedOf
<1> HIDE DEF r
<1>6. PICK p \in [1 .. n -> 1 .. n] :
        /\ \A k \in 1 .. n : r[k] = a[p[k]]
        /\ \A k, l \in 1 .. n : p[k] = p[l] => k = l
        /\ \A l \in 1 .. n : \E k \in 1 .. n : p[k] = l
  BY <1>5 DEF Rearranged
<1>7. \A k \in 1 .. n : p[k] \in 1 .. n /\ r[k].set = p[k] /\ r[k].key = d.sets[p[k]][figure]
  BY <1>3, <1>6
<1>8. \A k \in 1 .. n : r[k].set \in 1 .. n /\ r[k].key = d.sets[r[k].set][figure] /\ r[k].key \in Nat
  BY <1>1, <1>7
<1>9. ASSUME NEW s \in 1 .. n PROVE \E i \in 1 .. n : r[i].set = s
  <2>1. PICK k \in 1 .. n : p[k] = s
    BY <1>6
  <2>2. r[k].set = s
    BY <1>7, <2>1
  <2> QED BY <2>2
<1>10. ASSUME NEW i \in 1 .. n, NEW j \in 1 .. n, r[i].set = r[j].set PROVE i = j
  <2>1. p[i] = p[j]
    BY <1>7, <1>10
  <2> QED BY <1>6, <2>1
<1> QED BY <1>4, <1>5, <1>8, <1>9, <1>10 DEF Ranks, n

\* The n titles, those of most chapters first.
Titled(r, n, d) ==
    /\ \A i \in 1 .. n : r[i].key \in Nat
    /\ \A i, j \in 1 .. n : i < j => r[i].key >= r[j].key
    /\ \E p \in [1 .. n -> 1 .. n] :
         /\ \A k \in 1 .. n : /\ r[k].key = d.titles[p[k]].chapters
                              /\ r[k].set = d.titles[p[k]].set
         /\ \A k, l \in 1 .. n : p[k] = p[l] => k = l
         /\ \A l \in 1 .. n : \E k \in 1 .. n : p[k] = l

LEMMA ByChaptersOf ==
    ASSUME NEW d, Disc(d)
    PROVE  Titled(ByChapters(d), Len(d.titles), d)
<1> DEFINE n == Len(d.titles)
           a == [t \in 1 .. n |-> [key |-> d.titles[t].chapters, set |-> d.titles[t].set]]
           r == Sorted(a)
<1>1. n \in Nat /\ \A t \in 1 .. n : d.titles[t].set \in Nat /\ d.titles[t].chapters \in Nat
  BY DEF Disc
<1>2. a \in Arrays(n)
  <2> HIDE DEF n
  <2>1. \A t \in 1 .. n : [key |-> d.titles[t].chapters, set |-> d.titles[t].set] \in Entries
    BY <1>1 DEF Entries
  <2> QED BY <2>1 DEF Arrays
<1>3. \A t \in 1 .. n : a[t].key = d.titles[t].chapters /\ a[t].set = d.titles[t].set
  OBVIOUS
<1>4. ByChapters(d) = r
  BY DEF ByChapters
<1> HIDE DEF a, n
<1>5. /\ Rearranged(a, r, n)
      /\ \A k, l \in 1 .. n : k < l => r[k].key >= r[l].key
  BY <1>1, <1>2, SortedOf
<1> HIDE DEF r
<1>6. PICK p \in [1 .. n -> 1 .. n] :
        /\ \A k \in 1 .. n : r[k] = a[p[k]]
        /\ \A k, l \in 1 .. n : p[k] = p[l] => k = l
        /\ \A l \in 1 .. n : \E k \in 1 .. n : p[k] = l
  BY <1>5 DEF Rearranged
<1>7. \A k \in 1 .. n : p[k] \in 1 .. n /\ r[k].key = d.titles[p[k]].chapters /\ r[k].set = d.titles[p[k]].set
  BY <1>3, <1>6
<1>8. \A k \in 1 .. n : r[k].key \in Nat
  BY <1>1, <1>7
<1> QED BY <1>4, <1>5, <1>6, <1>7, <1>8 DEF Titled, n

\* CheckSizeArray() in other words.
LEMMA SimilarOf ==
    ASSUME NEW x \in Nat, NEW y \in Nat, y <= x
    PROVE  Similar(x, y) <=> 2 * x < 3 * y
<1>1. CASE y = 0
  BY <1>1 DEF Similar
<1>2. CASE y # 0
  <2>1. y \in Nat \ {0} /\ 2 * x - y \in Nat
    BY <1>2
  <2>2. ASSUME NEW v \in Nat
        PROVE  v \div y = 1 <=> y <= v /\ v < 2 * y
    <3> DEFINE q == v \div y
    <3>1. /\ q \in Nat /\ q * y <= v /\ v < q * y + y
      BY <2>1
    <3>2. q = 1 => y <= v /\ v < 2 * y
      BY <2>1, <3>1
    <3>3. CASE q = 0
      BY <2>1, <3>1, <3>3
    <3>4. CASE q >= 2
      <4>1. q * y >= 2 * y
        <5> HIDE DEF q
        <5> QED BY <2>1, <3>1, <3>4
      <4> QED BY <2>1, <3>1, <3>4, <4>1
    <3>5. CASE q = 1
      BY <3>2, <3>5
    <3> HIDE DEF q
    <3>6. q = 0 \/ q = 1 \/ q >= 2
      BY <3>1
    <3> QED BY <3>3, <3>4, <3>5, <3>6 DEF q
  <2>3. 2 * x < 3 * y => x % y = x - y
    <3> SUFFICES ASSUME 2 * x < 3 * y PROVE x % y = x - y
      OBVIOUS
    <3>1. x < 2 * y
      BY <2>1
    <3>2. x = (x \div y) * y + (x % y)
      BY <2>1
    <3>3. x \div y = 1
      BY <2>2, <3>1
    <3>4. 1 * y = y /\ x % y \in Nat
      BY <2>1
    <3> QED BY <2>1, <3>2, <3>3, <3>4
  <2>4. 2 * x < 3 * y => Similar(x, y)
    <3> SUFFICES ASSUME 2 * x < 3 * y PROVE Similar(x, y)
      OBVIOUS
    <3>1. x \div y = 1 /\ (x * 2 - y) \div y = 1
      BY <2>1, <2>2
    <3>2. (x % y) * 3 < x
      BY <2>1, <2>3
    <3> QED BY <1>2, <3>1, <3>2 DEF Similar
  <2>5. Similar(x, y) => 2 * x < 3 * y
    <3> SUFFICES ASSUME Similar(x, y) PROVE 2 * x < 3 * y
      OBVIOUS
    <3>1. (x * 2 - y) \div y = 1
      BY DEF Similar
    <3> QED BY <2>1, <2>2, <3>1
  <2> QED BY <2>4, <2>5
<1> QED BY <1>1, <1>2

\* The biggest title set and the second one.
LEMMA FirstSecond ==
    ASSUME NEW d, Disc(d)
    PROVE  /\ First(d) \in 1 .. Len(d.sets)
           /\ \A s \in 1 .. Len(d.sets) : d.sets[s].size <= d.sets[First(d)].size
           /\ Len(d.sets) > 1 => /\ Second(d) \in 1 .. Len(d.sets) /\ Second(d) # First(d)
                                 /\ Twins(d) <=> 2 * d.sets[First(d)].size < 3 * d.sets[Second(d)].size
           /\ Twins(d) => Len(d.sets) > 1
<1> DEFINE n == Len(d.sets)
           r == BySize(d)
<1>1. n \in Nat \ {0}
  BY DEF Disc
<1>2. Ranks(r, n, d, "size")
  BY RankedOf DEF BySize, Figures
<1>3. First(d) = r[1].set /\ Second(d) = r[2].set
  BY DEF First, Second
<1>4. Twins(d) <=> n > 1 /\ Similar(r[1].key, r[2].key)
  BY DEF Twins
<1> HIDE DEF r, n
<1>5. r[1].set \in 1 .. n /\ r[1].key = d.sets[r[1].set].size /\ r[1].key \in Nat
  <2>1. 1 \in 1 .. n
    BY <1>1
  <2> QED BY <1>2, <2>1 DEF Ranks
<1>6. ASSUME NEW s \in 1 .. n PROVE d.sets[s].size <= d.sets[First(d)].size
  <2>1. PICK i \in 1 .. n : r[i].set = s
    BY <1>2 DEF Ranks
  <2>2. r[i].key = d.sets[s].size /\ r[i].key \in Nat
    BY <1>2, <2>1 DEF Ranks
  <2>3. r[1].key >= r[i].key
    <3>1. 1 \in 1 .. n /\ (i = 1 \/ 1 < i)
      BY <1>1
    <3>2. CASE 1 < i
      BY <1>2, <3>1, <3>2 DEF Ranks
    <3>3. CASE i = 1
      BY <1>5, <3>3
    <3> QED BY <3>1, <3>2, <3>3
  <2> QED BY <1>3, <1>5, <2>2, <2>3
<1>7. ASSUME n > 1
      PROVE  /\ Second(d) \in 1 .. n /\ Second(d) # First(d)
             /\ Twins(d) <=> 2 * d.sets[First(d)].size < 3 * d.sets[Second(d)].size
  <2>1. 1 \in 1 .. n /\ 2 \in 1 .. n
    BY <1>1, <1>7
  <2>2. /\ r[2].set \in 1 .. n /\ r[2].key = d.sets[r[2].set].size /\ r[2].key \in Nat
        /\ r[1].key >= r[2].key /\ r[1].set # r[2].set
    BY <1>2, <2>1 DEF Ranks
  <2>3. Similar(r[1].key, r[2].key) <=> 2 * r[1].key < 3 * r[2].key
    BY <1>5, <2>2, SimilarOf
  <2> QED BY <1>3, <1>4, <1>5, <1>7, <2>2, <2>3
<1> QED BY <1>3, <1>4, <1>5, <1>6, <1>7 DEF n

\* Which title sets may be named at all.
LEMMA NamedBy ==
    ASSUME NEW d, Disc(d), NEW aspect, NEW f \in MainTitleSets(d, aspect)
    PROVE  /\ f \in 1 .. Len(d.sets)
           /\ f = First(d) \/ (Twins(d) /\ f = Second(d)) \/ Multi(d)
<1> DEFINE n == Len(d.sets)
           c == Candidate(d, aspect)
<1>1. n \in Nat \ {0}
  BY DEF Disc
<1>2. First(d) \in 1 .. n /\ (n > 1 => Second(d) \in 1 .. n) /\ (Twins(d) => n > 1)
  BY FirstSecond
<1>3. c = First(d) \/ (Twins(d) /\ c = Second(d))
  BY DEF Candidate, Dual
<1>4. \/ f = c \/ f = First(d)
      \/ Multi(d) /\ \E multi \in NumbersOfMulti(d) : f = Episode(d, multi)
  BY DEF MainTitleSets
<1>5. \A multi \in NumbersOfMulti(d) : Episode(d, multi) = First(d) \/ Episode(d, multi) \in 1 .. multi
  BY DEF Episode
<1> HIDE DEF c
<1>6. ASSUME Multi(d), NEW multi \in NumbersOfMulti(d) PROVE multi \in Int /\ multi <= n
  <2> DEFINE size == BySize(d)
             ends == {i \in 1 .. n - 1 : ~Similar(size[1].key, size[i + 1].key)}
  <2>1. Len(size) = n
    BY RankedOf DEF Ranks, BySize, Figures
  <2>2. NumbersOfMulti(d) = IF ends = {} THEN {n - 1, n} ELSE {Min(ends) - 1}
    BY <2>1 DEF NumbersOfMulti
  <2>3. ends \subseteq 1 .. n - 1
    OBVIOUS
  <2> HIDE DEF ends, n
  <2>4. CASE ends = {}
    BY <1>1, <1>6, <2>2, <2>4
  <2>5. CASE ends # {}
    <3>1. \E b \in ends : \A e \in ends : b <= e
      <4>1. ends \in SUBSET Nat
        BY <1>1, <2>3
      <4> QED BY <2>5, <4>1, Least
    <3>2. Min(ends) \in ends
      BY <3>1 DEF Min
    <3>3. Min(ends) \in 1 .. n - 1 /\ multi = Min(ends) - 1
      BY <1>6, <2>2, <2>3, <2>5, <3>2
    <3> QED BY <1>1, <3>3
  <2> QED BY <2>4, <2>5
<1>7. f \in 1 .. n
  <2>1. CASE f = c \/ f = First(d)
    BY <1>2, <1>3, <2>1
  <2>2. CASE Multi(d) /\ \E multi \in NumbersOfMulti(d) : f = Episode(d, multi)
    <3>1. PICK multi \in NumbersOfMulti(d) : f = Episode(d, multi)
      BY <2>2
    <3>2. multi \in Int /\ multi <= n
      BY <1>6, <2>2
    <3> HIDE DEF n
    <3>3. f = First(d) \/ f \in 1 .. multi
      BY <1>5, <3>1
    <3> QED BY <1>1, <1>2, <3>2, <3>3
  <2> QED BY <1>4, <2>1, <2>2
<1> QED BY <1>3, <1>4, <1>7 DEF n

\* FeatureBig of a disc and a title set.
Big(d, f) ==
    \/ \A s \in 1 .. Len(d.sets) : 2 * d.sets[s].size <= 3 * d.sets[f].size
    \/ \E a, b \in 1 .. Len(d.sets) :
         /\ a # b /\ d.sets[a].aspect = d.sets[b].aspect
         /\ d.sets[a].size < 2 * d.sets[b].size
         /\ \A s \in 1 .. Len(d.sets) : d.sets[s].size <= d.sets[a].size

LEMMA BigNamed ==
    ASSUME NEW d, Disc(d), NEW aspect, NEW f \in MainTitleSets(d, aspect)
    PROVE  Big(d, f)
<1> DEFINE n == Len(d.sets)
           x == First(d)
           y == Second(d)
<1>1. \A s \in 1 .. n : d.sets[s].size \in Nat
  BY DEF Disc, Figures
<1>2. /\ x \in 1 .. n
      /\ \A s \in 1 .. n : d.sets[s].size <= d.sets[x].size
      /\ Twins(d) => y \in 1 .. n /\ y # x /\ 2 * d.sets[x].size < 3 * d.sets[y].size
  BY FirstSecond
<1>3. f = x \/ (Twins(d) /\ f = y) \/ Multi(d)
  BY NamedBy
<1>4. Multi(d) => Twins(d) /\ d.sets[x].aspect = d.sets[y].aspect
  BY DEF Multi, Aspect
<1> HIDE DEF n, x, y
<1>5. CASE f = x
  <2>1. \A s \in 1 .. n : 2 * d.sets[s].size <= 3 * d.sets[f].size
    BY <1>1, <1>2, <1>5
  <2> QED BY <2>1 DEF Big, n
<1>6. CASE Twins(d) /\ f = y
  <2>1. ASSUME NEW s \in 1 .. n PROVE 2 * d.sets[s].size <= 3 * d.sets[f].size
    <3>1. d.sets[s].size <= d.sets[x].size /\ 2 * d.sets[x].size < 3 * d.sets[y].size
      BY <1>2, <1>6
    <3>2. d.sets[s].size \in Nat /\ d.sets[x].size \in Nat /\ d.sets[y].size \in Nat
      BY <1>1, <1>2, <1>6
    <3> QED BY <1>6, <3>1, <3>2
  <2> QED BY <2>1 DEF Big, n
<1>7. CASE Multi(d)
  <2>1. /\ x \in 1 .. n /\ y \in 1 .. n /\ x # y
        /\ d.sets[x].aspect = d.sets[y].aspect
        /\ 2 * d.sets[x].size < 3 * d.sets[y].size
    BY <1>2, <1>4, <1>7
  <2>2. d.sets[x].size < 2 * d.sets[y].size
    BY <1>1, <2>1
  <2> QED BY <1>2, <2>1, <2>2 DEF Big, n
<1> QED BY <1>3, <1>5, <1>6, <1>7

-------------------------------------------------------------------------------
\* Two entries that are above all others are in the first two places.
LEMMA TopTwo ==
    ASSUME NEW n \in Nat, NEW key \in [1 .. n -> Nat],
           \A i, j \in 1 .. n : i < j => key[i] >= key[j],
           NEW x \in 1 .. n, NEW y \in 1 .. n, x # y,
           \A k \in 1 .. n : k # x /\ k # y => key[k] < key[x] /\ key[k] < key[y]
    PROVE  x \in {1, 2} /\ y \in {1, 2}
<1>1. ASSUME NEW u \in {x, y}, u > 2 PROVE FALSE
  <2>1. 1 \in 1 .. n /\ 2 \in 1 .. n /\ 1 < u /\ 2 < u /\ u \in 1 .. n
    BY <1>1
  <2>2. PICK k \in {1, 2} : k # x /\ k # y
    BY <1>1
  <2>3. k \in 1 .. n /\ k < u
    BY <2>1
  <2>4. key[k] >= key[u] /\ key[k] < key[u]
    BY <2>1, <2>2, <2>3
  <2>5. key[k] \in Nat /\ key[u] \in Nat
    BY <2>1, <2>3
  <2> QED BY <2>4, <2>5
<1> QED BY <1>1

\* The greatest of numbers that are bounded.
LEMMA Greatest ==
    ASSUME NEW S \in SUBSET Nat, S # {}, NEW m \in Nat, \A x \in S : x <= m
    PROVE  Max(S) \in S /\ \A x \in S : x <= Max(S)
<1> DEFINE T == {b \in Nat : \A x \in S : x <= b}
<1>1. T \in SUBSET Nat /\ T # {}
  OBVIOUS
<1>2. PICK b \in T : \A c \in T : b <= c
  <2> HIDE DEF T
  <2> QED BY <1>1, Least
<1>3. b \in S
  <2> SUFFICES ASSUME b \notin S PROVE FALSE
    OBVIOUS
  <2>1. \A x \in S : x <= b - 1
    OBVIOUS
  <2>2. b - 1 \in Nat
    <3>1. PICK x \in S : x \in Nat
      OBVIOUS
    <3>2. x <= b - 1 /\ b \in Nat
      BY <2>1, <3>1
    <3> QED BY <3>1, <3>2
  <2>3. b - 1 \in T
    BY <2>1, <2>2
  <2> QED BY <1>2, <2>3
<1>4. b \in S /\ \A x \in S : b >= x
  BY <1>3
<1> HIDE DEF T
<1>5. Max(S) \in S /\ \A x \in S : Max(S) >= x
  BY <1>4 DEF Max
<1> QED BY <1>5

\* The chapters of a title set that has one title.
OnlyTitle(d, s, u) ==
    /\ \A t \in 1 .. Len(d.titles) : d.titles[t].set = s <=> t = u
    /\ Chapters(d, s) = d.titles[u].chapters

LEMMA ChaptersOf ==
    ASSUME NEW d, Disc(d), NEW s,
           Cardinality({t \in 1 .. Len(d.titles) : d.titles[t].set = s}) = 1
    PROVE  \E u \in 1 .. Len(d.titles) : OnlyTitle(d, s, u)
<1> DEFINE n == Len(d.titles)
           U == {t \in 1 .. n : d.titles[t].set = s}
<1>1. n \in Nat /\ \A t \in 1 .. n : d.titles[t].chapters \in Nat
  BY DEF Disc
<1>2. IsFiniteSet(1 .. n)
  <2> HIDE DEF n
  <2> QED BY <1>1, FS_Interval
<1>3. IsFiniteSet(U)
  BY <1>2, FS_Subset
<1>4. PICK u : U = {u}
  BY <1>3, FS_Singleton
<1>5. u \in 1 .. n /\ \A t \in 1 .. n : d.titles[t].set = s <=> t = u
  BY <1>4
<1> DEFINE c == d.titles[u].chapters
<1>6. {d.titles[t].chapters : t \in U} = {c}
  BY <1>4
<1>7. Chapters(d, s) = Max({0} \cup {c})
  BY <1>6 DEF Chapters
<1>8. c \in Nat
  BY <1>1, <1>5
<1> HIDE DEF c, U, n
<1> DEFINE S == {0} \cup {c}
<1>9. S \in SUBSET Nat /\ S # {} /\ \A x \in S : x <= c
  BY <1>8
<1>10. Max(S) = c
  <2> HIDE DEF S
  <2>1. Max(S) \in S /\ \A x \in S : x <= Max(S)
    BY <1>8, <1>9, Greatest
  <2> QED BY <1>8, <2>1 DEF S
<1> QED BY <1>5, <1>7, <1>10 DEF OnlyTitle, c, n

\* A title set that no other has more of is among the first of the ranks.
LEMMA IsFirstOf ==
    ASSUME NEW d, Disc(d), NEW figure \in Figures, NEW c \in 1 .. Len(d.sets),
           \A r \in 1 .. Len(d.sets) : d.sets[r][figure] <= d.sets[c][figure]
    PROVE  IsFirst(Ranked(d, figure), c)
<1> DEFINE n == Len(d.sets)
           r == Ranked(d, figure)
<1>1. Ranks(r, n, d, figure)
  BY RankedOf
<1>2. n \in Nat \ {0}
  BY DEF Disc
<1> HIDE DEF n, r
<1>3. 1 \in 1 .. n
  BY <1>2
<1>4. PICK i \in 1 .. n : r[i].set = c
  BY <1>1 DEF Ranks, n
<1>5. /\ r[i].key = d.sets[c][figure] /\ r[i].key \in Nat
      /\ r[1].set \in 1 .. n /\ r[1].key = d.sets[r[1].set][figure] /\ r[1].key \in Nat
  BY <1>1, <1>3, <1>4 DEF Ranks
<1>6. d.sets[r[1].set][figure] <= d.sets[c][figure]
  BY <1>5 DEF n
<1>7. r[i].key >= r[1].key
  BY <1>5, <1>6
<1>8. Len(r) = n
  BY <1>1 DEF Ranks
<1> QED BY <1>4, <1>7, <1>8 DEF IsFirst, r

LEMMA AllFound ==
    ASSUME NEW d, Disc(d), NEW c \in 1 .. Len(d.sets),
           \A figure \in {"audio", "sub", "channels"}, r \in 1 .. Len(d.sets) :
              d.sets[r][figure] <= d.sets[c][figure]
    PROVE  Found(d, c) = 3
<1> DEFINE F == {r \in {1, 2, 3} : IsFirst(<<ByAudio(d), BySub(d), ByChannels(d)>>[r], c)}
<1>1. \A figure \in {"audio", "sub", "channels"} : IsFirst(Ranked(d, figure), c)
  <2> SUFFICES ASSUME NEW figure \in {"audio", "sub", "channels"} PROVE IsFirst(Ranked(d, figure), c)
    OBVIOUS
  <2>1. figure \in Figures
    BY DEF Figures
  <2> QED BY <2>1, IsFirstOf
<1>2. IsFirst(ByAudio(d), c) /\ IsFirst(BySub(d), c) /\ IsFirst(ByChannels(d), c)
  BY <1>1 DEF ByAudio, BySub, ByChannels
<1>3. F = 1 .. 3
  BY <1>2
<1>4. Cardinality(1 .. 3) = 3
  <2> DEFINE low == 1
             high == 3
  <2>1. low \in Int /\ high \in Int /\ ~(low > high) /\ high - low + 1 = 3
    OBVIOUS
  <2> HIDE DEF low, high
  <2>2. Cardinality(low .. high) = high - low + 1
    BY <2>1, FS_Interval
  <2> QED BY <2>1, <2>2 DEF low, high
<1> QED BY <1>3, <1>4 DEF Found

\* The places of two titles that have more chapters than all others.
LEMMA PlaceOf ==
    ASSUME NEW d, Disc(d), NEW x \in 1 .. Len(d.titles), NEW y \in 1 .. Len(d.titles), x # y,
           \A t \in 1 .. Len(d.titles) : t # x /\ t # y =>
              d.titles[t].chapters < d.titles[x].chapters /\ d.titles[t].chapters < d.titles[y].chapters
    PROVE  ChapterPlace(d, d.titles[x].set) < 3
<1> DEFINE n == Len(d.titles)
           r == ByChapters(d)
           key == [k \in 1 .. n |-> r[k].key]
           c == d.titles[x].set
           places == {i \in 1 .. n : i <= 4 /\ r[i].set = c}
<1>1. n \in Nat \ {0}
  BY DEF Disc
<1>2. Titled(r, n, d)
  BY ByChaptersOf
<1>3. ChapterPlace(d, c) = IF places = {} THEN 6 ELSE Min(places)
  BY DEF ChapterPlace
<1> HIDE DEF r, n
<1>4. /\ \A i \in 1 .. n : r[i].key \in Nat
      /\ \A i, j \in 1 .. n : i < j => r[i].key >= r[j].key
  BY <1>2 DEF Titled
<1>5. PICK p \in [1 .. n -> 1 .. n] :
        /\ \A k \in 1 .. n : r[k].key = d.titles[p[k]].chapters /\ r[k].set = d.titles[p[k]].set
        /\ \A k, l \in 1 .. n : p[k] = p[l] => k = l
        /\ \A l \in 1 .. n : \E k \in 1 .. n : p[k] = l
  BY <1>2 DEF Titled
<1>6. key \in [1 .. n -> Nat] /\ \A i, j \in 1 .. n : i < j => key[i] >= key[j]
  BY <1>4
<1>7. PICK i \in 1 .. n : p[i] = x
  BY <1>5 DEF n
<1>8. PICK j \in 1 .. n : p[j] = y
  BY <1>5 DEF n
<1>9. i # j
  BY <1>7, <1>8
<1>10. \A k \in 1 .. n : k # i /\ k # j => key[k] < key[i] /\ key[k] < key[j]
  <2> SUFFICES ASSUME NEW k \in 1 .. n, k # i, k # j PROVE key[k] < key[i] /\ key[k] < key[j]
    OBVIOUS
  <2>1. p[k] # x /\ p[k] # y /\ p[k] \in 1 .. n
    BY <1>5, <1>7, <1>8
  <2>2. d.titles[p[k]].chapters < d.titles[x].chapters /\ d.titles[p[k]].chapters < d.titles[y].chapters
    BY <2>1 DEF n
  <2> QED BY <1>4, <1>5, <1>7, <1>8, <2>2
<1> HIDE DEF key
<1>11. i \in {1, 2}
  BY <1>1, <1>6, <1>9, <1>10, TopTwo
<1>12. i \in places
  <2>1. r[i].set = d.titles[p[i]].set
    BY <1>5
  <2>2. r[i].set = c /\ i <= 4
    BY <1>7, <1>11, <2>1
  <2> QED BY <2>2
<1>13. places \in SUBSET Nat
  BY <1>1
<1> HIDE DEF places
<1>14. \E b \in places : \A e \in places : b <= e
  BY <1>12, <1>13, Least
<1>15. Min(places) \in places /\ \A e \in places : Min(places) <= e
  BY <1>14 DEF Min
<1>16. ChapterPlace(d, c) = Min(places) /\ Min(places) <= i /\ Min(places) \in Nat
  BY <1>3, <1>12, <1>13, <1>15
<1> QED BY <1>11, <1>16

\* Two versions are the two biggest title sets.
LEMMA VersionsBiggest ==
    ASSUME NEW d, Disc(d), NEW a \in 1 .. Len(d.sets), NEW b \in 1 .. Len(d.sets), Versions(d, a, b)
    PROVE  /\ {First(d), Second(d)} = {a, b} /\ First(d) # Second(d)
           /\ Twins(d) /\ ~Multi(d)
<1> DEFINE n == Len(d.sets)
           r == BySize(d)
           key == [k \in 1 .. n |-> r[k].key]
<1>1. n \in Nat \ {0} /\ \A s \in 1 .. n : d.sets[s].size \in Nat
  BY DEF Disc, Figures
<1>2. Ranks(r, n, d, "size")
  BY RankedOf DEF BySize, Figures
<1>3. First(d) = r[1].set /\ Second(d) = r[2].set
  BY DEF First, Second
<1>4. /\ a # b /\ d.sets[a].aspect # d.sets[b].aspect
      /\ 2 * d.sets[a].size < 3 * d.sets[b].size /\ 2 * d.sets[b].size < 3 * d.sets[a].size
      /\ \A s \in 1 .. n : s # a /\ s # b => d.sets[s].size < d.sets[a].size /\ d.sets[s].size < d.sets[b].size
  BY DEF Versions
<1>5. n > 1
  BY <1>1, <1>4
<1> HIDE DEF r, n
<1>6. key \in [1 .. n -> Nat] /\ \A i, j \in 1 .. n : i < j => key[i] >= key[j]
  BY <1>2 DEF Ranks
<1>7. PICK i \in 1 .. n : r[i].set = a
  BY <1>2 DEF Ranks, n
<1>8. PICK j \in 1 .. n : r[j].set = b
  BY <1>2 DEF Ranks, n
<1>9. i # j
  BY <1>4, <1>7, <1>8
<1>10. \A k \in 1 .. n : k # i /\ k # j => key[k] < key[i] /\ key[k] < key[j]
  <2> SUFFICES ASSUME NEW k \in 1 .. n, k # i, k # j PROVE key[k] < key[i] /\ key[k] < key[j]
    OBVIOUS
  <2>1. r[k].set # a /\ r[k].set # b /\ r[k].set \in 1 .. n
    BY <1>2, <1>7, <1>8 DEF Ranks
  <2>2. r[k].key = d.sets[r[k].set].size /\ r[i].key = d.sets[a].size /\ r[j].key = d.sets[b].size
    BY <1>2, <1>7, <1>8 DEF Ranks
  <2> QED BY <1>4, <2>1, <2>2
<1> HIDE DEF key
<1>11. i \in {1, 2} /\ j \in {1, 2}
  BY <1>1, <1>6, <1>9, <1>10, TopTwo
<1>12. {First(d), Second(d)} = {a, b} /\ First(d) # Second(d)
  BY <1>3, <1>4, <1>7, <1>8, <1>9, <1>11
<1>13. Twins(d)
  <2>1. Twins(d) <=> 2 * d.sets[First(d)].size < 3 * d.sets[Second(d)].size
    BY <1>5, FirstSecond DEF n
  <2> QED BY <1>4, <1>12, <2>1
<1>14. ~Multi(d)
  BY <1>4, <1>12 DEF Multi, Aspect
<1> QED BY <1>12, <1>13, <1>14

\* PreferredAspect of a disc: of two versions the one asked for is taken.
LEMMA VersionAskedFor ==
    ASSUME NEW d, Disc(d), NEW a \in 1 .. Len(d.sets), NEW b \in 1 .. Len(d.sets), Versions(d, a, b)
    PROVE  MainTitleSets(d, d.sets[a].aspect) = {a}
<1> DEFINE n == Len(d.titles)
<1>1. n \in Nat /\ \A t \in 1 .. n : d.titles[t].chapters \in Nat
  BY DEF Disc
<1>2. /\ {First(d), Second(d)} = {a, b} /\ First(d) # Second(d)
      /\ Twins(d) /\ ~Multi(d)
  BY VersionsBiggest
<1>3. Cardinality({t \in 1 .. n : d.titles[t].set = a}) = 1 /\ Cardinality({t \in 1 .. n : d.titles[t].set = b}) = 1
  BY DEF Versions
<1>4. PICK x \in 1 .. n : OnlyTitle(d, a, x)
  BY <1>3, ChaptersOf
<1>5. PICK y \in 1 .. n : OnlyTitle(d, b, y)
  BY <1>3, ChaptersOf
<1>6. /\ a # b /\ d.sets[a].aspect # d.sets[b].aspect
      /\ \A t \in 1 .. n : /\ d.titles[t].chapters <= Chapters(d, a) /\ d.titles[t].chapters <= Chapters(d, b)
                           /\ d.titles[t].set # a /\ d.titles[t].set # b =>
                                d.titles[t].chapters < Chapters(d, a) /\ d.titles[t].chapters < Chapters(d, b)
  BY DEF Versions
<1>7. Chapters(d, a) = Chapters(d, b)
  BY <1>1, <1>4, <1>5, <1>6 DEF OnlyTitle
<1>8. Dual(d)
  BY <1>2, <1>7 DEF Dual
<1>9. Candidate(d, d.sets[a].aspect) = a
  <2>1. CASE First(d) = a
    BY <2>1 DEF Candidate, Aspect
  <2>2. CASE First(d) = b /\ Second(d) = a
    BY <1>6, <1>8, <2>2 DEF Candidate, Aspect
  <2> QED BY <1>2, <2>1, <2>2
<1>10. Found(d, a) = 3
  <2>1. \A figure \in {"audio", "sub", "channels"}, r \in 1 .. Len(d.sets) :
          d.sets[r][figure] <= d.sets[a][figure]
    BY DEF Versions
  <2> QED BY <2>1, AllFound
<1>11. ChapterPlace(d, a) < 3
  <2>1. x # y /\ d.titles[x].set = a
    BY <1>4, <1>5, <1>6 DEF OnlyTitle
  <2>2. \A t \in 1 .. n : t # x /\ t # y =>
          d.titles[t].chapters < d.titles[x].chapters /\ d.titles[t].chapters < d.titles[y].chapters
    BY <1>4, <1>5, <1>6 DEF OnlyTitle
  <2>3. ChapterPlace(d, d.titles[x].set) < 3
    BY <2>1, <2>2, PlaceOf
  <2> QED BY <2>1, <2>3
<1>12. Accepted(d, a)
  BY <1>8, <1>10, <1>11 DEF Accepted
<1> QED BY <1>9, <1>12 DEF MainTitleSets

-------------------------------------------------------------------------------
LEMMA JobDisc == ASSUME NEW j \in Jobs PROVE Disc(j.disc)
BY BackupAssumption DEF Disc, Figures

\* The title set guessed is one that the analysis names.
Guessed == job \in Jobs /\ (feature # 0 => feature \in MainTitleSets(job.disc, job.opts.aspect))

LEMMA GuessedRight == Guessed => FeatureRight
<1> SUFFICES ASSUME Guessed, feature # 0 PROVE FeatureRight
  BY DEF FeatureRight, PreferredAspect, FeatureBig
<1>1. Disc(job.disc) /\ feature \in MainTitleSets(job.disc, job.opts.aspect)
  BY JobDisc DEF Guessed
<1>2. PreferredAspect
  <2> SUFFICES ASSUME NEW a \in 1 .. Len(job.disc.sets), NEW b \in 1 .. Len(job.disc.sets),
                      Versions(job.disc, a, b), job.disc.sets[a].aspect = job.opts.aspect
               PROVE  feature = a
    BY DEF PreferredAspect
  <2>1. MainTitleSets(job.disc, job.disc.sets[a].aspect) = {a}
    BY <1>1, VersionAskedFor
  <2> QED BY <1>1, <2>1
<1>3. FeatureBig
  <2>1. Big(job.disc, feature)
    BY <1>1, BigNamed
  <2> QED BY <2>1 DEF Big, FeatureBig
<1> QED BY <1>2, <1>3 DEF FeatureRight

LEMMA GuessedStep == Guessed /\ [Next]_vars => Guessed'
<1> SUFFICES ASSUME Guessed, [Next]_vars PROVE Guessed'
  OBVIOUS
<1>1. CASE UNCHANGED <<job, feature>>
  BY <1>1 DEF Guessed
<1>2. CASE GetInfo
  BY <1>2 DEF GetInfo, Fails, Exit, Guessed
<1>3. UNCHANGED <<job, feature>> \/ GetInfo
  <2>1. CASE Main
    BY <2>1 DEF Main, Options, OpenDisc, TitleName, Directories, MirrorCalled, FileSet, Goto, Exit
  <2>2. CASE Title
    BY <2>2 DEF Title, OpenIfoBup, ReadIfo, WriteIfo, WriteBup, OpenMenu, CopyMenu, OpenVob, CopyVob,
                EndTitle, Copying, GivesUp, Goto, Exit, Done, Fails
  <2>3. CASE TitleCells \/ Terminated \/ UNCHANGED vars
    BY <2>3 DEF TitleCells, OpenTitle, CreateVob, CopyCells, Terminated, vars, Goto, Exit, Fails,
                Copying, GivesUp
  <2> QED BY <2>1, <2>2, <2>3 DEF Next
<1> QED BY <1>1, <1>2, <1>3

\* The main feature that -F copies is the one to be expected: the version of the
\* aspect ratio asked for, and no title set much smaller than another one
\* (DVDGetInfo()).
THEOREM FeatureIsRight == Spec => []FeatureRight
<1>1. Init => Guessed
  BY DEF Init, Guessed
<1>2. Guessed /\ [Next]_vars => Guessed'
  BY GuessedStep
<1>3. Guessed => FeatureRight
  BY GuessedRight
<1> QED BY <1>1, <1>2, <1>3, PTL DEF Spec

-------------------------------------------------------------------------------
(***************************************************************************)
(* The copy                                                                *)
(*                                                                         *)
(* Of the title sets asked for, those before set are complete, those       *)
(* behind it are untouched, and what has been changed of set itself is in  *)
(* order.  The open files are those that a complete BUP has left open, and *)
(* those of the copy that is running.                                      *)
(***************************************************************************)
Sets == 0 .. Len(job.disc.sets)

Looked == /\ DOMAIN info = Sets
          /\ \A s \in Sets : info[s] \in Seen(s)

Typed == /\ job \in Jobs
         /\ target \in [0 .. MaxSets -> FileSets(Contents)]
         /\ info = <<>> \/ Looked

Ready(s)      == info[s].ifo = "sound" => target[s].ifo = "whole" /\ target[s].bup = "whole"
MenuDone(s)   == info[s].menu = "sound" => target[s].menu = "whole"
VobDone(s, v) == "empty" \notin {info[s].vobs[1], info[s].vobs[v]} => target[s].vobs[v] = "whole"

Ordered(s) == /\ target[s].bup = "whole" => target[s].ifo = "whole"
              /\ target[s].menu # job.before[s].menu \/ target[s].vobs # job.before[s].vobs => Ready(s)

Copies == {"mirror", "titleSet", "feature"}

Frontier ==
    /\ Looked /\ Kind \in Copies
    /\ FirstSet \in Nat /\ LastSet \in Nat /\ LastSet <= Len(job.disc.sets)
    /\ set \in FirstSet .. LastSet
    /\ \A s \in 0 .. MaxSets : s < FirstSet \/ s > set => target[s] = job.before[s]
    /\ \A r \in FirstSet .. set - 1 : Complete(r) /\ Ordered(r)
    /\ Ordered(set)

\* The files that stay open.
Backed == {s \in DOMAIN info : target[s].bup = "whole"}
Held   == Backed \X {"ifo", "ifoOut", "bupOut"}

\* Those of the copy that is running.
Running == IF pc = "ifo" THEN {IfoOut, BupOut}
           ELSE IF pc \in {"writeIfo", "writeBup"} THEN {IfoOut, BupOut, IfoIn}
           ELSE IF pc \in {"copyMenu", "copyVob"} THEN {VobIn, VobOut} ELSE {}

IfoStages == {"ifo", "writeIfo", "writeBup"}
VobStages == {"vobs", "copyVob"}
Stages    == {"title", "menu", "copyMenu"} \cup IfoStages \cup VobStages

Stage ==
    /\ pc = "title" => Here = job.before[set]
    /\ pc \in IfoStages => /\ info[set].ifo = "sound" /\ Here.bup # "whole"
                           /\ Here.menu = job.before[set].menu /\ Here.vobs = job.before[set].vobs
    /\ pc = "writeBup" => Here.ifo = "whole"
    /\ pc \in {"menu", "copyMenu"} \cup VobStages => Ready(set)
    /\ pc \in VobStages => MenuDone(set)
    /\ pc \notin VobStages => vob = 0
    /\ vob \in 0 .. Len(info[set].vobs)
    /\ pc = "copyVob" => vob >= 1
    /\ \A v \in 1 .. vob : VobDone(set, v) \/ (pc = "copyVob" /\ v = vob)

Copy == /\ Frontier /\ Stage
        /\ streams = Held \cup Running
        /\ reader = 0 /\ code = 0

\* Before anything is copied.
Untouched == /\ target = job.before /\ streams = {} /\ reader = 0 /\ code = 0 /\ vob = 0

Begun   == {"open", "name", "directories", "files"}
Asks == {"mirror", "feature", "titleSet", "titles", "chapters"}
Opening ==
    /\ info = <<>> /\ Untouched
    /\ pc # "options" => Usable(job.opts)
    /\ pc \notin {"options", "open"} => Kind # "info"
    /\ pc \in Asks => pc = Kind
    /\ pc = "files" /\ Kind = "feature" => feature \in 1 .. Len(job.disc.sets)

Cells == Looked /\ Untouched /\ Kind \in {"titles", "chapters"}

\* While the cells of a title are copied: there is no BUP of this run, and the VOBs of
\* the disc are open from the first VOB of the target on.
Unbacked   == \A s \in 0 .. MaxSets : target[s].bup # "whole"
CellStages == {"createVob", "copyCells"}
CellCopy ==
    /\ Looked /\ Kind \in {"titles", "chapters"} /\ Unbacked
    /\ reader = 0 /\ code = 0
    /\ vob \in Nat /\ (pc = "copyCells" => vob > 0)
    /\ streams = {IfoInfo} \cup (IF pc = "copyCells" THEN {VobIn, VobOut}
                                 ELSE IF vob > 0 THEN {VobIn} ELSE {})

Left == Released /\ Duplicate /\ InOrder

LEMMA JobFacts ==
    ASSUME Typed
    PROVE  /\ MaxSets \in Nat /\ MaxVobs \in Nat
           /\ Len(job.disc.sets) \in 1 .. MaxSets
           /\ job.before \in [0 .. MaxSets -> FileSets({"none", "other", "old"})]
           /\ \A s \in Sets : Files(s) \in Originals
<1>1. job \in Jobs
  BY DEF Typed
<1>2. \A s \in Sets : Files(s) \in Originals
  <2>1. job.disc.manager \in Originals /\ \A s \in 1 .. Len(job.disc.sets) : job.disc.sets[s].files \in Originals
    BY <1>1, BackupAssumption
  <2>2. \A s \in Sets : s = 0 \/ s \in 1 .. Len(job.disc.sets)
    BY DEF Sets
  <2> QED BY <2>1, <2>2 DEF Files
<1> QED BY <1>1, <1>2, BackupAssumption

\* There are no more title VOBs than the target has files for.
LEMMA VobsOf ==
    ASSUME Typed, Looked, NEW s \in Sets
    PROVE  Len(info[s].vobs) \in 0 .. MaxVobs
<1>1. info[s].vobs \in {Files(s).vobs, <<>>}
  BY DEF Looked, Seen
<1>2. Files(s).vobs \in UNION {[1 .. n -> Sizes \ {"none"}] : n \in 0 .. MaxVobs}
  BY JobFacts DEF Originals
<1>3. PICK n \in 0 .. MaxVobs : Files(s).vobs \in [1 .. n -> Sizes \ {"none"}]
  BY <1>2
<1>4. Len(Files(s).vobs) = n /\ n \in Nat
  BY <1>3, JobFacts
<1>5. Len(<<>>) = 0 /\ 0 \in 0 .. MaxVobs
  BY JobFacts
<1> QED BY <1>1, <1>3, <1>4, <1>5

LEMMA BeforeOf ==
    ASSUME Typed, NEW s \in 0 .. MaxSets
    PROVE  job.before[s].bup # "whole" /\ job.before[s] \in FileSets(Contents)
<1>1. job.before[s] \in FileSets({"none", "other", "old"})
  BY JobFacts
<1>2. {"none", "other", "old"} \subseteq Contents
  BY DEF Contents
<1> QED BY <1>1, <1>2 DEF FileSets

LEMMA LookedNotEmpty == Typed /\ Looked => info # <<>>
<1> SUFFICES ASSUME Typed, Looked, info = <<>> PROVE FALSE
  OBVIOUS
<1>1. 0 \in Sets
  BY JobFacts DEF Sets
<1>2. DOMAIN info = {}
  OBVIOUS
<1> QED BY <1>1, <1>2 DEF Looked

LEMMA SameJob ==
    ASSUME job' = job, feature' = feature
    PROVE  /\ Kind' = Kind /\ Sets' = Sets /\ FirstSet' = FirstSet /\ LastSet' = LastSet /\ Asked' = Asked
<1>1. Kind' = Kind
  BY DEF Kind
<1>2. FirstSet' = FirstSet
  BY <1>1 DEF FirstSet
<1>3. LastSet' = LastSet
  BY <1>1, <1>2 DEF LastSet
<1>4. Asked' = Asked
  BY <1>1, <1>2, <1>3 DEF Asked
<1> QED BY <1>1, <1>2, <1>3, <1>4 DEF Sets

LEMMA SameLooked ==
    ASSUME job' = job, info' = info, Looked
    PROVE  Looked'
<1>1. \A s : Seen(s)' = Seen(s)
  BY DEF Seen, Files
<1>2. Sets' = Sets
  BY DEF Sets
<1> QED BY <1>1, <1>2 DEF Looked

\* The set that is copied is one of the disc.
LEMMA Place ==
    ASSUME Typed, Frontier
    PROVE  /\ set \in Sets /\ set \in 0 .. MaxSets /\ set \in Asked
           /\ Asked = FirstSet .. LastSet
           /\ \A s \in 0 .. MaxSets : s < FirstSet \/ s > set \/ s \in FirstSet .. set - 1 \/ s = set
           /\ \A r \in Asked : r \in Sets /\ (r < set => r \in FirstSet .. set - 1)
<1>1. Len(job.disc.sets) \in 1 .. MaxSets /\ MaxSets \in Nat
  BY JobFacts
<1>2. Asked = FirstSet .. LastSet
  BY DEF Frontier, Copies, Asked
<1>3. FirstSet \in Nat /\ LastSet \in Nat /\ LastSet <= Len(job.disc.sets) /\ set \in FirstSet .. LastSet
  BY DEF Frontier
<1>4. set \in Sets /\ set \in 0 .. MaxSets /\ set \in Asked
  BY <1>1, <1>2, <1>3 DEF Sets
<1>5. \A s \in 0 .. MaxSets : s < FirstSet \/ s > set \/ s \in FirstSet .. set - 1 \/ s = set
  BY <1>1, <1>3
<1>6. \A r \in Asked : r \in Sets /\ (r < set => r \in FirstSet .. set - 1)
  BY <1>1, <1>2, <1>3 DEF Sets
<1> QED BY <1>2, <1>4, <1>5, <1>6

LEMMA FrontierInOrder ==
    ASSUME Typed, Frontier
    PROVE  InOrder
<1> SUFFICES ASSUME NEW s \in 0 .. Len(job.disc.sets)
             PROVE  /\ Ordered(s)
                    /\ target[s] # job.before[s] => s \in Asked /\ \A r \in Asked : r < s => Complete(r)
  BY DEF InOrder, Ordered, Ready
<1>1. s \in 0 .. MaxSets
  BY JobFacts
<1>2. CASE s < FirstSet \/ s > set
  <2>1. target[s] = job.before[s]
    BY <1>1, <1>2 DEF Frontier
  <2> QED BY <1>1, <2>1, BeforeOf DEF Ordered
<1>3. CASE s \in FirstSet .. set - 1
  <2>1. Ordered(s) /\ s \in Asked
    BY <1>3, Place DEF Frontier
  <2>2. ASSUME NEW r \in Asked, r < s PROVE Complete(r)
    <3>1. r \in FirstSet .. set - 1
      BY <1>3, <2>2, Place DEF Frontier
    <3> QED BY <3>1 DEF Frontier
  <2> QED BY <2>1, <2>2
<1>4. CASE s = set
  <2>1. Ordered(s) /\ s \in Asked
    BY <1>4, Place DEF Frontier
  <2>2. \A r \in Asked : r < s => Complete(r)
    BY <1>4, Place DEF Frontier
  <2> QED BY <2>1, <2>2
<1> QED BY <1>1, <1>2, <1>3, <1>4, Place

\* The files of the set that is copied change.
Changes(files) == /\ UNCHANGED <<job, info, feature, set>>
                  /\ target' = [target EXCEPT ![set] = files]

LEMMA Kept ==
    ASSUME Typed, Frontier, NEW files \in FileSets(Contents), Changes(files), Ordered(set)'
    PROVE  Typed' /\ Frontier' /\ target'[set] = files
<1>1. /\ job' = job /\ info' = info /\ feature' = feature /\ set' = set
      /\ target' = [target EXCEPT ![set] = files]
  BY DEF Changes
<1>2. set \in 0 .. MaxSets
  BY Place
<1>3. /\ target' \in [0 .. MaxSets -> FileSets(Contents)] /\ target'[set] = files
      /\ \A s \in 0 .. MaxSets : s # set => target'[s] = target[s]
  BY <1>1, <1>2 DEF Typed
<1>4. Typed'
  BY <1>1, <1>3, SameLooked DEF Typed
<1>5. Kind' = Kind /\ FirstSet' = FirstSet /\ LastSet' = LastSet
  BY <1>1, SameJob
<1>6. FirstSet \in Nat /\ LastSet \in Nat /\ set \in FirstSet .. LastSet /\ LastSet <= Len(job.disc.sets)
  BY DEF Frontier
<1>7. ASSUME NEW s \in 0 .. MaxSets, s < FirstSet \/ s > set PROVE target'[s] = job.before[s]
  <2>1. s # set
    BY <1>2, <1>6, <1>7
  <2> QED BY <1>3, <1>7, <2>1 DEF Frontier
<1>8. ASSUME NEW r \in FirstSet .. set - 1 PROVE Complete(r)' /\ Ordered(r)'
  <2>1. r \in 0 .. MaxSets /\ r # set
    BY <1>2, <1>6, JobFacts
  <2>2. target'[r] = target[r]
    BY <1>3, <2>1
  <2>3. Complete(r) /\ Ordered(r)
    BY DEF Frontier
  <2>4. Complete(r)'
    BY <1>1, <2>2, <2>3 DEF Complete
  <2>5. Ordered(r)'
    BY <1>1, <2>2, <2>3 DEF Ordered, Ready
  <2> QED BY <2>4, <2>5
<1>9. Looked'
  BY <1>1, SameLooked DEF Frontier
<1>10. Frontier'
  BY <1>1, <1>5, <1>6, <1>7, <1>8, <1>9 DEF Frontier
<1> QED BY <1>3, <1>4, <1>10

LEMMA HeldSame ==
    ASSUME info' = info, \A r \in DOMAIN info : target'[r].bup = "whole" <=> target[r].bup = "whole"
    PROVE  Held' = Held
<1>1. Backed' = Backed
  BY DEF Backed
<1> QED BY <1>1 DEF Held

\* While the BUP is not complete, none of the files of the copy is among those that stay open.
LEMMA HeldApart ==
    ASSUME Here.bup # "whole"
    PROVE  \A f : <<set, f>> \notin Held
<1>1. set \notin Backed
  BY DEF Here, Backed
<1> QED BY <1>1 DEF Held

LEMMA VobsApart == VobIn \notin Held /\ VobOut \notin Held
BY DEF Held, VobIn, VobOut

LEMMA ReleasedOf == reader = 1 /\ streams = Held => Released
<1> SUFFICES ASSUME reader = 1, streams = Held PROVE Released
  OBVIOUS
<1>1. VobIn \notin streams /\ streams \ {VobIn} = Held
  BY VobsApart
<1> QED BY <1>1 DEF Held, Backed, Released

LEMMA Domain == Typed /\ Looked => DOMAIN info \subseteq 0 .. MaxSets
BY JobFacts DEF Looked, Sets

\* The run gives up.
LEMMA GaveUp ==
    ASSUME Typed, Copy, NEW files \in FileSets(Contents), Changes(files), Ordered(set)',
           pc' = "exit", code' = -1, reader' = reader + 1, streams' = Held,
           files.bup = "whole" <=> Here.bup = "whole"
    PROVE  Typed' /\ Left'
<1>1. Typed' /\ Frontier' /\ target'[set] = files
  BY Kept DEF Copy
<1>2. InOrder'
  BY <1>1, FrontierInOrder, PTL
<1>3. Duplicate'
  BY DEF Duplicate
<1>4. Released'
  <2>1. reader' = 1
    BY DEF Copy
  <2>2. set \in 0 .. MaxSets
    BY Place DEF Copy
  <2>3. \A r \in 0 .. MaxSets : r # set => target'[r] = target[r]
    BY <2>2 DEF Changes, Typed
  <2>4. \A r \in DOMAIN info : target'[r].bup = "whole" <=> target[r].bup = "whole"
    BY <1>1, <2>3, Domain DEF Here, Copy, Frontier
  <2>5. Held' = Held
    BY <2>4, HeldSame DEF Changes
  <2>6. (reader = 1 /\ streams = Held)'
    BY <2>1, <2>5
  <2> QED BY <2>6, ReleasedOf, PTL
<1> QED BY <1>1, <1>2, <1>3, <1>4 DEF Left

LEMMA GivingUp ==
    ASSUME Typed, Copy, NEW files \in FileSets(Contents), NEW open, GivesUp(files, open),
           Ordered(set)', open = Held, files.bup = "whole" <=> Here.bup = "whole"
    PROVE  Typed' /\ pc' = "exit" /\ Left'
<1>1. Changes(files) /\ pc' = "exit" /\ code' = -1 /\ reader' = reader + 1 /\ streams' = Held
  BY DEF GivesUp, Changes
<1> QED BY <1>1, GaveUp

\* Of its own accord, before it has begun another file.
LEMMA Failing ==
    ASSUME Typed, Copy, Fails, Running = {}
    PROVE  Typed' /\ pc' = "exit" /\ Left'
<1>1. /\ pc' = "exit" /\ code' = -1 /\ reader' = reader + 1
      /\ UNCHANGED <<job, info, feature, set, vob, target, streams>>
  BY DEF Fails, Exit
<1>2. set \in 0 .. MaxSets /\ Ordered(set) /\ streams = Held
  BY Place DEF Copy, Frontier
<1>3. Here \in FileSets(Contents) /\ target = [target EXCEPT ![set] = Here]
  BY <1>2 DEF Typed, Here
<1>4. Changes(Here)
  BY <1>1, <1>3 DEF Changes
<1>5. Ordered(set)'
  BY <1>1, <1>2 DEF Ordered, Ready
<1>6. streams' = Held
  BY <1>1, <1>2
<1> QED BY <1>1, <1>3, <1>4, <1>5, <1>6, GaveUp

\* The copy goes on to another stage.
LEMMA GoingOn ==
    ASSUME Typed, Copy, NEW files \in FileSets(Contents), Changes(files), Ordered(set)',
           reader' = reader, code' = code, Stage', streams' = Held' \cup Running', pc' \in Stages
    PROVE  Typed' /\ pc' \in Stages /\ Copy'
<1>1. Typed' /\ Frontier'
  BY Kept DEF Copy
<1> QED BY <1>1 DEF Copy

\* The copy goes on, or the run ends.
Continues == \/ pc' \in Stages /\ Copy'
             \/ pc' = "exit" /\ Left'

LEMMA Staying ==
    ASSUME Typed, Copy
    PROVE  /\ set \in Sets /\ set \in 0 .. MaxSets /\ Here \in FileSets(Contents)
           /\ job.before[set].bup # "whole"
           /\ target = [target EXCEPT ![set] = Here]
           /\ Len(info[set].vobs) \in 0 .. MaxVobs /\ MaxVobs \in Nat
           /\ Ordered(set)
<1>1. set \in Sets /\ set \in 0 .. MaxSets
  BY Place DEF Copy
<1>2. Here \in FileSets(Contents) /\ target = [target EXCEPT ![set] = Here]
  BY <1>1 DEF Typed, Here
<1>3. Len(info[set].vobs) \in 0 .. MaxVobs /\ MaxVobs \in Nat
  BY <1>1, VobsOf, JobFacts DEF Copy, Frontier
<1> QED BY <1>1, <1>2, <1>3, BeforeOf DEF Copy, Frontier

LEMMA HeldKept ==
    ASSUME Typed, Copy, NEW files, Changes(files), files.bup = "whole" <=> Here.bup = "whole"
    PROVE  Held' = Held
<1>1. target'[set] = files /\ \A r \in 0 .. MaxSets : r # set => target'[r] = target[r]
  BY Staying DEF Changes, Typed
<1>2. info' = info /\ \A r \in DOMAIN info : target'[r].bup = "whole" <=> target[r].bup = "whole"
  BY <1>1, Domain DEF Here, Changes, Copy, Frontier
<1> QED BY <1>2, HeldSame

LEMMA OpenIfoBupStep ==
    ASSUME Typed, Copy, OpenIfoBup
    PROVE  Typed' /\ Continues
<1>1. /\ pc = "title" /\ vob = 0 /\ streams = Held /\ Running = {} /\ Here = job.before[set]
  BY DEF OpenIfoBup, Copy, Stage, Running, VobStages
<1>2. Here.bup # "whole"
  BY <1>1, Staying
<1>3. CASE info[set].ifo = "empty" /\ Goto("menu")
  <2>1. pc' = "menu" /\ UNCHANGED <<job, info, feature, set, vob, target, streams, reader, code>>
    BY <1>3 DEF Goto
  <2>2. Changes(Here)
    BY <2>1, Staying DEF Changes
  <2>3. Ordered(set)'
    BY <2>1, Staying DEF Ordered, Ready
  <2>4. Stage'
    BY <1>1, <1>3, <2>1 DEF Stage, Copy, Ready, IfoStages, VobStages, VobDone
  <2>5. Held' = Held
    BY <2>1, HeldSame
  <2>6. streams' = Held' \cup Running'
    BY <1>1, <2>1, <2>5 DEF Running
  <2> QED BY <2>1, <2>2, <2>3, <2>4, <2>6, Staying, GoingOn DEF Continues, Stages
<1>4. CASE Fails
  BY <1>1, <1>4, Failing DEF Continues
<1>5. CASE GivesUp([Here EXCEPT !.ifo = "empty"], streams)
  <2> DEFINE files == [Here EXCEPT !.ifo = "empty"]
  <2>1. files \in FileSets(Contents) /\ files.bup = Here.bup /\ files.menu = Here.menu /\ files.vobs = Here.vobs
    BY Staying DEF FileSets, Contents
  <2> HIDE DEF files
  <2>2. UNCHANGED <<job, info, set>> /\ target'[set] = files
    BY <1>5, Staying DEF GivesUp, Typed, files
  <2>3. Ordered(set)'
    BY <1>1, <1>2, <2>1, <2>2 DEF Ordered, Ready
  <2> QED BY <1>1, <1>5, <2>1, <2>3, GivingUp DEF Continues, files
<1>6. CASE /\ info[set].ifo = "sound"
           /\ Copying("ifo", [Here EXCEPT !.ifo = "empty", !.bup = "empty"], streams \cup {IfoOut, BupOut})
  <2> DEFINE files == [Here EXCEPT !.ifo = "empty", !.bup = "empty"]
  <2>1. files \in FileSets(Contents) /\ files.bup = "empty" /\ files.menu = Here.menu /\ files.vobs = Here.vobs
    BY Staying DEF FileSets, Contents
  <2> HIDE DEF files
  <2>2. /\ pc' = "ifo" /\ UNCHANGED <<job, info, feature, set, vob, reader, code>>
        /\ streams' = streams \cup {IfoOut, BupOut} /\ target' = [target EXCEPT ![set] = files]
    BY <1>6 DEF Copying, files
  <2>3. Changes(files) /\ target'[set] = files
    BY <2>2, Staying DEF Changes, Typed
  <2>4. Ordered(set)'
    BY <1>1, <2>1, <2>2, <2>3 DEF Ordered, Ready
  <2>5. Stage'
    BY <1>1, <1>6, <2>1, <2>2, <2>3 DEF Stage, Copy, Here, IfoStages, VobStages, VobDone
  <2>6. Held' = Held
    BY <1>2, <2>1, <2>3, HeldKept
  <2>7. streams' = Held' \cup Running'
    BY <1>1, <2>2, <2>6 DEF Running, IfoOut, BupOut
  <2> QED BY <2>1, <2>2, <2>3, <2>4, <2>5, <2>7, GoingOn DEF Continues, Stages, IfoStages
<1> QED BY <1>3, <1>4, <1>5, <1>6 DEF OpenIfoBup

LEMMA ThreeFiles ==
    ASSUME NEW s
    PROVE  {s} \X {"ifo", "ifoOut", "bupOut"} = {<<s, "ifoOut">>, <<s, "bupOut">>, <<s, "ifo">>}
<1>1. ASSUME NEW x \in {s} \X {"ifo", "ifoOut", "bupOut"}
      PROVE  x \in {<<s, "ifoOut">>, <<s, "bupOut">>, <<s, "ifo">>}
  <2>1. x = <<s, x[2]>> /\ x[2] \in {"ifo", "ifoOut", "bupOut"}
    OBVIOUS
  <2> QED BY <2>1
<1>2. {<<s, "ifoOut">>, <<s, "bupOut">>, <<s, "ifo">>} \subseteq {s} \X {"ifo", "ifoOut", "bupOut"}
  OBVIOUS
<1> QED BY <1>1, <1>2

LEMMA IfoFiles == {set} \X {"ifo", "ifoOut", "bupOut"} = {IfoOut, BupOut, IfoIn}
BY ThreeFiles DEF IfoOut, BupOut, IfoIn

\* While the IFO and its BUP are written.
LEMMA IfoStage ==
    ASSUME Typed, Copy, pc \in IfoStages
    PROVE  /\ info[set].ifo = "sound" /\ vob = 0 /\ Here.bup # "whole"
           /\ Here.menu = job.before[set].menu /\ Here.vobs = job.before[set].vobs
           /\ \A f : <<set, f>> \notin Held
           /\ streams = Held \cup Running
BY HeldApart DEF Copy, Stage, IfoStages, VobStages

LEMMA IfoGivesUp ==
    ASSUME Typed, Copy, pc \in IfoStages, NEW ifo \in Contents, NEW bup \in Contents \ {"whole"},
           NEW open, open = Held, GivesUp([Here EXCEPT !.ifo = ifo, !.bup = bup], open)
    PROVE  Typed' /\ Continues
<1> DEFINE files == [Here EXCEPT !.ifo = ifo, !.bup = bup]
<1>1. files \in FileSets(Contents) /\ files.bup = bup /\ files.menu = Here.menu /\ files.vobs = Here.vobs
  BY Staying DEF FileSets
<1> HIDE DEF files
<1>2. UNCHANGED <<job, info, set>> /\ target'[set] = files
  BY Staying DEF GivesUp, Typed, files
<1>3. Ordered(set)'
  BY <1>1, <1>2, IfoStage DEF Ordered, Ready
<1> QED BY <1>1, <1>3, IfoStage, GivingUp DEF Continues, files

LEMMA ReadIfoStep ==
    ASSUME Typed, Copy, ReadIfo
    PROVE  Typed' /\ Continues
<1>1. pc = "ifo" /\ pc \in IfoStages /\ Running = {IfoOut, BupOut}
  BY DEF ReadIfo, IfoStages, Running
<1>2. Here = [Here EXCEPT !.ifo = Here.ifo, !.bup = Here.bup] /\ Here.ifo \in Contents /\ Here.bup \in Contents
  BY Staying DEF FileSets
<1>3. Here \in FileSets(Contents) /\ Ordered(set)
  BY Staying
<1>4. CASE GivesUp(Here, streams \ {IfoOut, BupOut})
  <2>1. streams \ {IfoOut, BupOut} = Held
    BY <1>1, IfoStage DEF IfoOut, BupOut
  <2>2. Ordered(set)'
    BY <1>2, <1>3, <1>4, Staying DEF GivesUp, Ordered, Ready, Typed
  <2> QED BY <1>1, <1>3, <1>4, <2>1, <2>2, GivingUp DEF Continues
<1>5. CASE Copying("writeIfo", Here, streams \cup {IfoIn})
  <2>1. /\ pc' = "writeIfo" /\ UNCHANGED <<job, info, feature, set, vob, target, reader, code>>
        /\ streams' = streams \cup {IfoIn} /\ target' = [target EXCEPT ![set] = Here]
    BY <1>5, Staying DEF Copying
  <2>2. Changes(Here)
    BY <2>1 DEF Changes
  <2>3. Ordered(set)'
    BY <1>3, <2>1 DEF Ordered, Ready
  <2>4. Stage'
    BY <1>1, <2>1, IfoStage DEF Stage, Copy, Here, IfoStages, VobStages, VobDone
  <2>5. streams' = Held' \cup Running'
    <3>1. Held' = Held
      BY <2>2, HeldKept
    <3> QED BY <1>1, <2>1, <3>1, IfoStage DEF Running, IfoOut, BupOut, IfoIn
  <2> QED BY <1>3, <2>1, <2>2, <2>3, <2>4, <2>5, GoingOn DEF Continues, Stages, IfoStages
<1> QED BY <1>4, <1>5 DEF ReadIfo

LEMMA WriteIfoStep ==
    ASSUME Typed, Copy, WriteIfo
    PROVE  Typed' /\ Continues
<1>1. pc = "writeIfo" /\ pc \in IfoStages /\ Running = {IfoOut, BupOut, IfoIn}
  BY DEF WriteIfo, IfoStages, Running
<1>2. Here \in FileSets(Contents) /\ Here.bup \in Contents
  BY Staying DEF FileSets
<1>3. CASE GivesUp([Here EXCEPT !.ifo = "part"], streams \ {IfoOut, BupOut, IfoIn})
  <2>1. streams \ {IfoOut, BupOut, IfoIn} = Held
    BY <1>1, IfoStage DEF IfoOut, BupOut, IfoIn
  <2>2. [Here EXCEPT !.ifo = "part"] = [Here EXCEPT !.ifo = "part", !.bup = Here.bup]
    BY <1>2 DEF FileSets
  <2>3. "part" \in Contents /\ Here.bup \in Contents \ {"whole"}
    BY <1>1, <1>2, IfoStage DEF Contents
  <2> QED BY <1>1, <1>3, <2>1, <2>2, <2>3, IfoGivesUp
<1>4. CASE Copying("writeBup", [Here EXCEPT !.ifo = "whole"], streams)
  <2> DEFINE files == [Here EXCEPT !.ifo = "whole"]
  <2>1. /\ files \in FileSets(Contents) /\ files.ifo = "whole" /\ files.bup = Here.bup
        /\ files.menu = Here.menu /\ files.vobs = Here.vobs
    BY <1>2 DEF FileSets, Contents
  <2> HIDE DEF files
  <2>2. /\ pc' = "writeBup" /\ UNCHANGED <<job, info, feature, set, vob, streams, reader, code>>
        /\ target' = [target EXCEPT ![set] = files]
    BY <1>4 DEF Copying, files
  <2>3. Changes(files) /\ target'[set] = files
    BY <2>2, Staying DEF Changes, Typed
  <2>4. Ordered(set)'
    BY <1>1, <2>1, <2>2, <2>3, IfoStage DEF Ordered, Ready
  <2>5. Stage'
    BY <1>1, <2>1, <2>2, <2>3, IfoStage DEF Stage, Copy, Here, IfoStages, VobStages, VobDone
  <2>6. streams' = Held' \cup Running'
    <3>1. Held' = Held
      BY <2>1, <2>3, HeldKept
    <3> QED BY <1>1, <2>2, <3>1, IfoStage DEF Running, IfoOut, BupOut, IfoIn
  <2> QED BY <2>1, <2>2, <2>3, <2>4, <2>5, <2>6, GoingOn DEF Continues, Stages, IfoStages
<1> QED BY <1>3, <1>4 DEF WriteIfo

LEMMA WriteBupStep ==
    ASSUME Typed, Copy, WriteBup
    PROVE  Typed' /\ Continues
<1>1. pc = "writeBup" /\ pc \in IfoStages /\ Running = {IfoOut, BupOut, IfoIn} /\ Here.ifo = "whole"
  BY DEF WriteBup, IfoStages, Running, Copy, Stage
<1>2. Here \in FileSets(Contents) /\ Here.ifo \in Contents
  BY Staying DEF FileSets
<1>3. CASE GivesUp([Here EXCEPT !.bup = "part"], streams \ {IfoOut, BupOut, IfoIn})
  <2>1. streams \ {IfoOut, BupOut, IfoIn} = Held
    BY <1>1, IfoStage DEF IfoOut, BupOut, IfoIn
  <2>2. [Here EXCEPT !.bup = "part"] = [Here EXCEPT !.ifo = Here.ifo, !.bup = "part"]
    BY <1>2 DEF FileSets
  <2>3. "part" \in Contents \ {"whole"}
    BY DEF Contents
  <2> QED BY <1>1, <1>2, <1>3, <2>1, <2>2, <2>3, IfoGivesUp
<1>4. CASE Copying("menu", [Here EXCEPT !.bup = "whole"], streams)
  <2> DEFINE files == [Here EXCEPT !.bup = "whole"]
  <2>1. /\ files \in FileSets(Contents) /\ files.ifo = "whole" /\ files.bup = "whole"
        /\ files.menu = Here.menu /\ files.vobs = Here.vobs
    BY <1>1, <1>2 DEF FileSets, Contents
  <2> HIDE DEF files
  <2>2. /\ pc' = "menu" /\ UNCHANGED <<job, info, feature, set, vob, streams, reader, code>>
        /\ target' = [target EXCEPT ![set] = files]
    BY <1>4 DEF Copying, files
  <2>3. Changes(files) /\ target'[set] = files
    BY <2>2, Staying DEF Changes, Typed
  <2>4. Ordered(set)' /\ Ready(set)'
    BY <2>1, <2>2, <2>3 DEF Ordered, Ready
  <2>5. Stage'
    <3>1. vob' = 0 /\ vob' \in 0 .. Len(info'[set'].vobs) /\ \A v \in 1 .. vob' : FALSE
      BY <1>1, <2>2, IfoStage DEF Copy, Stage
    <3> QED BY <2>2, <2>4, <3>1 DEF Stage, IfoStages, VobStages
  <2>6. streams' = Held' \cup Running'
    <3>1. set \in DOMAIN info
      BY Staying DEF Copy, Frontier, Looked
    <3>2. \A r \in 0 .. MaxSets : r # set => target'[r] = target[r]
      BY <2>2, Staying DEF Typed
    <3>3. Backed' = Backed \cup {set}
      BY <2>1, <2>2, <2>3, <3>1, <3>2, Domain DEF Backed, Copy, Frontier
    <3>4. Held' = Held \cup ({set} \X {"ifo", "ifoOut", "bupOut"})
      BY <3>3 DEF Held
    <3>5. {set} \X {"ifo", "ifoOut", "bupOut"} = {IfoOut, BupOut, IfoIn}
      BY IfoFiles
    <3>6. Running' = {}
      BY <2>2 DEF Running
    <3> QED BY <1>1, <2>2, <3>4, <3>5, <3>6, IfoStage
  <2> QED BY <2>1, <2>2, <2>3, <2>4, <2>5, <2>6, GoingOn DEF Continues, Stages
<1> QED BY <1>3, <1>4 DEF WriteBup

\* Once the IFO and its BUP are there, other files change.
LEMMA Beyond ==
    ASSUME Typed, Copy, NEW files, Changes(files), files.ifo = Here.ifo, files.bup = Here.bup, Ready(set)
    PROVE  Ready(set)' /\ Ordered(set)' /\ Held' = Held /\ target'[set] = files
<1>1. target'[set] = files /\ job' = job /\ info' = info /\ set' = set
  BY Staying DEF Changes, Typed
<1>2. Held' = Held
  BY HeldKept
<1>3. Ready(set)'
  BY <1>1 DEF Ready, Here
<1>4. files.bup = "whole" => files.ifo = "whole"
  BY Staying DEF Ordered, Here
<1>5. Ordered(set)'
  BY <1>1, <1>3, <1>4 DEF Ordered
<1> QED BY <1>1, <1>2, <1>3, <1>5

LEMMA MenuStage ==
    ASSUME Typed, Copy, pc \in {"menu", "copyMenu"}
    PROVE  /\ Ready(set) /\ vob = 0 /\ streams = Held \cup Running
           /\ vob \in 0 .. Len(info[set].vobs) /\ 1 .. vob = {}
BY DEF Copy, Stage, VobStages

LEMMA OpenMenuStep ==
    ASSUME Typed, Copy, OpenMenu
    PROVE  Typed' /\ Continues
<1>1. pc = "menu" /\ Running = {}
  BY DEF OpenMenu, Running
<1>2. Here \in FileSets(Contents) /\ target = [target EXCEPT ![set] = Here]
  BY Staying
<1>3. CASE info[set].menu \in {"none", "empty"} /\ Goto("vobs")
  <2>1. pc' = "vobs" /\ UNCHANGED <<job, info, feature, set, vob, target, streams, reader, code>>
    BY <1>3 DEF Goto
  <2>2. Changes(Here)
    BY <1>2, <2>1 DEF Changes
  <2>3. Ready(set)' /\ Ordered(set)' /\ Held' = Held
    BY <1>1, <2>2, Beyond, MenuStage
  <2>4. MenuDone(set)'
    BY <1>3, <2>1 DEF MenuDone
  <2>5. Stage'
    BY <1>1, <2>1, <2>3, <2>4, MenuStage DEF Stage, IfoStages, VobStages
  <2>6. streams' = Held' \cup Running'
    BY <1>1, <2>1, <2>3, MenuStage DEF Running
  <2> QED BY <1>2, <2>1, <2>2, <2>3, <2>5, <2>6, GoingOn DEF Continues, Stages, VobStages
<1>4. CASE Fails
  BY <1>1, <1>4, Failing DEF Continues
<1>5. CASE Copying("copyMenu", [Here EXCEPT !.menu = "empty"], streams \cup {VobIn, VobOut})
  <2> DEFINE files == [Here EXCEPT !.menu = "empty"]
  <2>1. files \in FileSets(Contents) /\ files.ifo = Here.ifo /\ files.bup = Here.bup
    BY <1>2 DEF FileSets, Contents
  <2> HIDE DEF files
  <2>2. /\ pc' = "copyMenu" /\ UNCHANGED <<job, info, feature, set, vob, reader, code>>
        /\ streams' = streams \cup {VobIn, VobOut} /\ target' = [target EXCEPT ![set] = files]
    BY <1>5 DEF Copying, files
  <2>3. Changes(files)
    BY <2>2 DEF Changes
  <2>4. Ready(set)' /\ Ordered(set)' /\ Held' = Held
    BY <1>1, <2>1, <2>3, Beyond, MenuStage
  <2>5. Stage'
    BY <1>1, <2>2, <2>4, MenuStage DEF Stage, IfoStages, VobStages
  <2>6. streams' = Held' \cup Running'
    BY <1>1, <2>2, <2>4, MenuStage DEF Running, VobIn, VobOut
  <2> QED BY <2>1, <2>2, <2>3, <2>4, <2>5, <2>6, GoingOn DEF Continues, Stages
<1> QED BY <1>3, <1>4, <1>5 DEF OpenMenu

LEMMA CopyMenuStep ==
    ASSUME Typed, Copy, CopyMenu
    PROVE  Typed' /\ Continues
<1>1. pc = "copyMenu" /\ Running = {VobIn, VobOut}
  BY DEF CopyMenu, Running
<1>2. Here \in FileSets(Contents)
  BY Staying
<1>3. streams \ {VobIn, VobOut} = Held
  BY <1>1, MenuStage, VobsApart
<1>4. CASE GivesUp([Here EXCEPT !.menu = "part"], streams \ {VobIn, VobOut})
  <2> DEFINE files == [Here EXCEPT !.menu = "part"]
  <2>1. files \in FileSets(Contents) /\ files.ifo = Here.ifo /\ files.bup = Here.bup
    BY <1>2 DEF FileSets, Contents
  <2> HIDE DEF files
  <2>2. Changes(files)
    BY <1>4 DEF GivesUp, Changes, files
  <2>3. Ordered(set)'
    BY <1>1, <2>1, <2>2, Beyond, MenuStage
  <2> QED BY <1>3, <1>4, <2>1, <2>3, GivingUp DEF Continues, files
<1>5. CASE Copying("vobs", [Here EXCEPT !.menu = IF info[set].menu = "sound" THEN "whole" ELSE "part"],
                   streams \ {VobIn, VobOut})
  <2> DEFINE content == IF info[set].menu = "sound" THEN "whole" ELSE "part"
             files == [Here EXCEPT !.menu = content]
  <2>1. content \in Contents /\ (info[set].menu = "sound" => content = "whole")
    BY DEF Contents
  <2> HIDE DEF content
  <2>2. files \in FileSets(Contents) /\ files.ifo = Here.ifo /\ files.bup = Here.bup /\ files.menu = content
    BY <1>2, <2>1 DEF FileSets
  <2> HIDE DEF files
  <2>3. /\ pc' = "vobs" /\ UNCHANGED <<job, info, feature, set, vob, reader, code>>
        /\ streams' = Held /\ target' = [target EXCEPT ![set] = files]
    BY <1>3, <1>5 DEF Copying, files, content
  <2>4. Changes(files)
    BY <2>3 DEF Changes
  <2>5. Ready(set)' /\ Ordered(set)' /\ Held' = Held /\ target'[set] = files
    BY <1>1, <2>2, <2>4, Beyond, MenuStage
  <2>6. MenuDone(set)'
    BY <2>1, <2>2, <2>3, <2>5 DEF MenuDone
  <2>7. Stage'
    BY <1>1, <2>3, <2>5, <2>6, MenuStage DEF Stage, IfoStages, VobStages
  <2>8. streams' = Held' \cup Running'
    BY <2>3, <2>5 DEF Running
  <2> QED BY <2>2, <2>3, <2>4, <2>5, <2>7, <2>8, GoingOn DEF Continues, Stages, VobStages
<1> QED BY <1>4, <1>5 DEF CopyMenu

\* While title VOBs are copied: those begun are done, but for the one that is written.
LEMMA VobStage ==
    ASSUME Typed, Copy, pc \in VobStages
    PROVE  /\ Ready(set) /\ MenuDone(set) /\ streams = Held \cup Running
           /\ vob \in Nat /\ vob <= Len(info[set].vobs) /\ Len(info[set].vobs) \in 0 .. MaxVobs
           /\ pc = "copyVob" => vob >= 1
           /\ \A v \in 1 .. vob : VobDone(set, v) \/ (pc = "copyVob" /\ v = vob)
BY Staying DEF Copy, Stage, VobStages

\* One of the title VOBs gets a content.
LEMMA VobChanges ==
    ASSUME Typed, Copy, NEW n \in 1 .. MaxVobs, NEW content \in Contents, NEW files,
           files = [Here EXCEPT !.vobs[n] = content]
    PROVE  /\ files \in FileSets(Contents) /\ files.ifo = Here.ifo /\ files.bup = Here.bup
           /\ files.menu = Here.menu /\ files.vobs[n] = content
           /\ \A v \in 1 .. MaxVobs : v # n => files.vobs[v] = Here.vobs[v]
<1>1. Here \in FileSets(Contents) /\ Here.vobs \in [1 .. MaxVobs -> Contents]
  BY Staying DEF FileSets
<1> DEFINE vobs == [Here.vobs EXCEPT ![n] = content]
<1>2. vobs \in [1 .. MaxVobs -> Contents] /\ vobs[n] = content /\ \A v \in 1 .. MaxVobs : v # n => vobs[v] = Here.vobs[v]
  BY <1>1
<1>3. files = [Here EXCEPT !.vobs = vobs]
  OBVIOUS
<1> HIDE DEF vobs
<1> QED BY <1>1, <1>2, <1>3 DEF FileSets

LEMMA CopyVobStep ==
    ASSUME Typed, Copy, CopyVob
    PROVE  Typed' /\ Continues
<1>1. pc = "copyVob" /\ pc \in VobStages /\ Running = {VobIn, VobOut}
  BY DEF CopyVob, Running, VobStages
<1>2. vob \in 1 .. MaxVobs /\ vob \in 1 .. Len(info[set].vobs)
  BY <1>1, VobStage, Staying
<1>3. streams \ {VobIn, VobOut} = Held
  BY <1>1, VobStage, VobsApart
<1>4. "part" \in Contents /\ "whole" \in Contents
  BY DEF Contents
<1>5. CASE GivesUp([Here EXCEPT !.vobs[vob] = "part"], streams \ {VobIn, VobOut})
  <2> DEFINE files == [Here EXCEPT !.vobs[vob] = "part"]
  <2>1. files \in FileSets(Contents) /\ files.ifo = Here.ifo /\ files.bup = Here.bup
    BY <1>2, <1>4, VobChanges
  <2> HIDE DEF files
  <2>2. Changes(files)
    BY <1>5 DEF GivesUp, Changes, files
  <2>3. Ordered(set)'
    BY <1>1, <2>1, <2>2, Beyond, VobStage
  <2> QED BY <1>3, <1>5, <2>1, <2>3, GivingUp DEF Continues, files
<1>6. CASE Copying("vobs", [Here EXCEPT !.vobs[vob] = "whole"], streams \ {VobIn, VobOut})
  <2> DEFINE files == [Here EXCEPT !.vobs[vob] = "whole"]
  <2>1. /\ files \in FileSets(Contents) /\ files.ifo = Here.ifo /\ files.bup = Here.bup
        /\ files.menu = Here.menu /\ files.vobs[vob] = "whole"
        /\ \A v \in 1 .. MaxVobs : v # vob => files.vobs[v] = Here.vobs[v]
    BY <1>2, <1>4, VobChanges
  <2> HIDE DEF files
  <2>2. /\ pc' = "vobs" /\ UNCHANGED <<job, info, feature, set, vob, reader, code>>
        /\ streams' = Held /\ target' = [target EXCEPT ![set] = files]
    BY <1>3, <1>6 DEF Copying, files
  <2>3. Changes(files)
    BY <2>2 DEF Changes
  <2>4. Ready(set)' /\ Ordered(set)' /\ Held' = Held /\ target'[set] = files
    BY <1>1, <2>1, <2>3, Beyond, VobStage
  <2>5. MenuDone(set)'
    BY <1>1, <2>1, <2>2, <2>4, VobStage DEF MenuDone, Here
  <2>6. \A v \in 1 .. vob' : VobDone(set, v)'
    <3> SUFFICES ASSUME NEW v \in 1 .. vob PROVE VobDone(set, v)'
      BY <2>2
    <3>1. CASE v = vob
      BY <2>1, <2>2, <2>4, <3>1 DEF VobDone
    <3>2. CASE v # vob
      <4>1. v \in 1 .. MaxVobs
        BY <1>2, Staying
      <4> QED BY <1>1, <2>1, <2>2, <2>4, <3>2, <4>1, VobStage DEF VobDone, Here
    <3> QED BY <3>1, <3>2
  <2>7. Stage'
    BY <1>1, <2>2, <2>4, <2>5, <2>6, VobStage DEF Stage, IfoStages, VobStages
  <2>8. streams' = Held' \cup Running'
    BY <2>2, <2>4 DEF Running
  <2> QED BY <2>1, <2>2, <2>3, <2>4, <2>7, <2>8, GoingOn DEF Continues, Stages, VobStages
<1> QED BY <1>5, <1>6 DEF CopyVob

\* The run ends with a failure, after a change of the files or none.
LEMMA FailedVob ==
    ASSUME Typed, Copy, pc = "vobs", NEW files \in FileSets(Contents), Changes(files),
           files.ifo = Here.ifo, files.bup = Here.bup,
           pc' = "exit", code' = -1, reader' = reader + 1, streams' = streams
    PROVE  Typed' /\ Continues
<1>1. pc \in VobStages /\ Running = {}
  BY DEF VobStages, Running
<1>2. streams' = Held
  BY <1>1, VobStage
<1>3. Ordered(set)'
  BY <1>1, Beyond, VobStage
<1> QED BY <1>2, <1>3, GaveUp DEF Continues

LEMMA OpenVobStep ==
    ASSUME Typed, Copy, OpenVob
    PROVE  Typed' /\ Continues
<1> DEFINE size == info[set].vobs[vob + 1]
<1>1. pc = "vobs" /\ pc \in VobStages /\ Running = {} /\ vob < Len(info[set].vobs)
  BY DEF OpenVob, Running, VobStages
<1>2. vob \in Nat /\ vob + 1 \in 1 .. MaxVobs /\ vob + 1 \in 0 .. Len(info[set].vobs)
  BY <1>1, VobStage, Staying
<1>3. Here \in FileSets(Contents) /\ target = [target EXCEPT ![set] = Here] /\ streams = Held
  BY <1>1, Staying, VobStage
<1>4. UNCHANGED <<job, info, feature, set>>
  BY DEF OpenVob
<1>5. CASE /\ "empty" \in {size, info[set].vobs[1]}
           /\ vob' = vob + 1 /\ UNCHANGED <<pc, target, streams, code, reader>>
  <2>1. Changes(Here)
    BY <1>3, <1>4, <1>5 DEF Changes
  <2>2. Ready(set)' /\ Ordered(set)' /\ Held' = Held
    BY <1>1, <2>1, Beyond, VobStage
  <2>3. MenuDone(set)'
    BY <1>1, <1>4, <1>5, VobStage DEF MenuDone
  <2>4. \A v \in 1 .. vob' : VobDone(set, v)'
    <3> SUFFICES ASSUME NEW v \in 1 .. vob + 1 PROVE VobDone(set, v)'
      BY <1>5
    <3>1. CASE v = vob + 1
      BY <1>4, <1>5, <3>1 DEF VobDone
    <3>2. CASE v # vob + 1
      <4>1. v \in 1 .. vob
        BY <1>2, <3>2
      <4>2. VobDone(set, v)
        BY <1>1, <4>1, VobStage
      <4> QED BY <1>4, <1>5, <4>2 DEF VobDone
    <3> QED BY <3>1, <3>2
  <2>5. vob' \in 0 .. Len(info'[set'].vobs)
    BY <1>2, <1>4, <1>5
  <2>6. Stage'
    BY <1>1, <1>5, <2>2, <2>3, <2>4, <2>5 DEF Stage, IfoStages, VobStages
  <2>7. streams' = Held' \cup Running'
    BY <1>1, <1>3, <1>5, <2>2 DEF Running
  <2> QED BY <1>1, <1>3, <1>5, <2>1, <2>2, <2>6, <2>7, GoingOn DEF Continues, Stages
<1>6. CASE /\ vob' = vob + 1
           /\ target' = [target EXCEPT ![set].vobs[vob + 1] = "empty"]
           /\ \/ pc' = "copyVob" /\ streams' = streams \cup {VobIn, VobOut} /\ UNCHANGED <<code, reader>>
              \/ pc' = "exit" /\ code' = -1 /\ reader' = reader + 1 /\ UNCHANGED streams
  <2> DEFINE files == [Here EXCEPT !.vobs[vob + 1] = "empty"]
  <2>1. /\ files \in FileSets(Contents) /\ files.ifo = Here.ifo /\ files.bup = Here.bup
        /\ files.menu = Here.menu
        /\ \A v \in 1 .. MaxVobs : v # vob + 1 => files.vobs[v] = Here.vobs[v]
    <3>1. "empty" \in Contents
      BY DEF Contents
    <3> QED BY <1>2, <3>1, VobChanges
  <2>2. target' = [target EXCEPT ![set] = files]
    BY <1>6 DEF Here
  <2> HIDE DEF files
  <2>3. Changes(files)
    BY <1>4, <2>2 DEF Changes
  <2>4. CASE pc' = "exit" /\ code' = -1 /\ reader' = reader + 1 /\ UNCHANGED streams
    BY <1>1, <2>1, <2>3, <2>4, FailedVob
  <2>5. CASE pc' = "copyVob" /\ streams' = streams \cup {VobIn, VobOut} /\ UNCHANGED <<code, reader>>
    <3>1. Ready(set)' /\ Ordered(set)' /\ Held' = Held /\ target'[set] = files
      BY <1>1, <2>1, <2>3, Beyond, VobStage
    <3>2. MenuDone(set)'
      BY <1>1, <1>4, <2>1, <3>1, VobStage DEF MenuDone, Here
    <3>3. \A v \in 1 .. vob' : VobDone(set, v)' \/ (pc' = "copyVob" /\ v = vob')
      <4> SUFFICES ASSUME NEW v \in 1 .. vob + 1, v # vob + 1 PROVE VobDone(set, v)'
        BY <1>6, <2>5
      <4>1. v \in 1 .. vob /\ v \in 1 .. MaxVobs
        BY <1>2, Staying
      <4>2. VobDone(set, v)
        BY <1>1, <4>1, VobStage
      <4> QED BY <1>4, <2>1, <3>1, <4>1, <4>2 DEF VobDone, Here
    <3>4. vob' \in 0 .. Len(info'[set'].vobs) /\ vob' >= 1
      BY <1>2, <1>4, <1>6
    <3>5. Stage'
      BY <2>5, <3>1, <3>2, <3>3, <3>4 DEF Stage, IfoStages, VobStages
    <3>6. streams' = Held' \cup Running'
      BY <1>3, <1>4, <2>5, <3>1 DEF Running, VobIn, VobOut
    <3> QED BY <2>1, <2>3, <2>5, <3>1, <3>5, <3>6, GoingOn DEF Continues, Stages, VobStages
  <2> QED BY <1>6, <2>4, <2>5
<1>7. CASE /\ pc' = "exit" /\ code' = -1 /\ reader' = reader + 1
           /\ UNCHANGED <<vob, target, streams>>
  <2>1. Changes(Here)
    BY <1>3, <1>4, <1>7 DEF Changes
  <2> QED BY <1>1, <1>3, <1>7, <2>1, FailedVob
<1> QED BY <1>5, <1>6, <1>7 DEF OpenVob

LEMMA EndTitleStep ==
    ASSUME Typed, Copy, EndTitle
    PROVE  Typed' /\ Continues
<1>1. pc = "vobs" /\ pc \in VobStages /\ Running = {} /\ vob = Len(info[set].vobs)
  BY DEF EndTitle, Running, VobStages
<1>2. Complete(set) /\ Ordered(set) /\ streams = Held /\ reader = 0 /\ code = 0
  <2>1. Ready(set) /\ MenuDone(set) /\ \A v \in 1 .. Len(info[set].vobs) : VobDone(set, v)
    BY <1>1, VobStage
  <2>2. Complete(set)
    BY <2>1 DEF Complete, Ready, MenuDone, VobDone
  <2> QED BY <1>1, <2>2, VobStage, Staying DEF Copy
<1>3. UNCHANGED <<job, info, feature, target, streams>>
  BY DEF EndTitle, Done, Exit
<1>4. Typed' /\ Looked' /\ Held' = Held /\ Kind' = Kind /\ FirstSet' = FirstSet /\ LastSet' = LastSet /\ Asked' = Asked
  BY <1>3, SameJob, SameLooked, HeldSame DEF Typed, Copy, Frontier
<1>5. \A r : (Complete(r) => Complete(r)') /\ (Ordered(r) => Ordered(r)')
  BY <1>3 DEF Complete, Ordered, Ready
<1>6. FirstSet \in Nat /\ LastSet \in Nat /\ set \in FirstSet .. LastSet /\ LastSet <= Len(job.disc.sets)
  BY DEF Copy, Frontier
<1>7. ASSUME NEW r \in FirstSet .. set PROVE Complete(r) /\ Ordered(r)
  <2>1. r = set \/ r \in FirstSet .. set - 1
    BY <1>6
  <2> QED BY <1>2, <2>1 DEF Copy, Frontier
<1>8. CASE /\ set < LastSet
           /\ set' = set + 1 /\ vob' = 0 /\ pc' = "title"
           /\ UNCHANGED <<job, info, feature, target, streams, reader, code>>
  <2>1. set + 1 \in FirstSet .. LastSet /\ set + 1 \in Sets /\ set + 1 \in 0 .. MaxSets /\ (set + 1) - 1 = set
    BY <1>6, <1>8, JobFacts DEF Sets
  <2>2. target[set + 1] = job.before[set + 1]
    <3>1. set + 1 > set
      BY <1>6
    <3> QED BY <2>1, <3>1 DEF Copy, Frontier
  <2>3. Ordered(set + 1)
    BY <2>1, <2>2, BeforeOf DEF Ordered
  <2>4. Ordered(set)'
    BY <1>8, <2>3 DEF Ordered, Ready
  <2>5. ASSUME NEW s \in 0 .. MaxSets, s < FirstSet \/ s > set + 1 PROVE target[s] = job.before[s]
    <3>1. s < FirstSet \/ s > set
      BY <1>6, <2>5
    <3> QED BY <3>1 DEF Copy, Frontier
  <2>6. \A r \in FirstSet .. set' - 1 : Complete(r)' /\ Ordered(r)'
    BY <1>5, <1>7, <1>8, <2>1
  <2>7. Frontier'
    BY <1>4, <1>6, <1>8, <2>1, <2>4, <2>5, <2>6 DEF Frontier, Copy
  <2>8. vob' \in 0 .. Len(info'[set'].vobs)
    <3>1. Len(info[set + 1].vobs) \in 0 .. MaxVobs
      BY <2>1, VobsOf DEF Copy, Frontier
    <3> QED BY <1>8, <3>1, JobFacts
  <2>9. Here' = job'.before[set']
    BY <1>8, <2>2 DEF Here
  <2>10. Stage'
    BY <1>8, <2>8, <2>9 DEF Stage, IfoStages, VobStages
  <2>11. Running' = {}
    BY <1>8 DEF Running
  <2> QED BY <1>2, <1>4, <1>8, <2>7, <2>10, <2>11 DEF Continues, Copy, Stages
<1>9. CASE set = LastSet /\ Done
  <2>1. pc' = "exit" /\ code' = 0 /\ reader' = reader + 1 /\ UNCHANGED set
    BY <1>9 DEF Done, Exit
  <2>2. InOrder'
    <3>1. InOrder
      BY FrontierInOrder DEF Copy
    <3>2. \A r : Complete(r)' <=> Complete(r)
      BY <1>3 DEF Complete
    <3> QED BY <1>3, <1>4, <3>1, <3>2 DEF InOrder
  <2>3. Duplicate'
    <3>1. Asked = FirstSet .. set
      BY <1>9, Place DEF Copy
    <3>2. \A s \in Asked' : Complete(s)'
      BY <1>4, <1>5, <1>7, <3>1
    <3> QED BY <3>2 DEF Duplicate
  <2>4. Released'
    <3>1. (reader = 1 /\ streams = Held)'
      BY <1>2, <1>3, <1>4, <2>1
    <3> QED BY <3>1, ReleasedOf, PTL
  <2> QED BY <1>4, <2>1, <2>2, <2>3, <2>4 DEF Continues, Left
<1> QED BY <1>8, <1>9 DEF EndTitle

-------------------------------------------------------------------------------
(***************************************************************************)
(* The whole run                                                           *)
(***************************************************************************)
LEMMA KindOf ==
    ASSUME Usable(job.opts)
    PROVE  Kind \in Kinds /\ (Kind = "titleSet" => job.opts.set \in Nat)
<1> DEFINE o == job.opts
<1>1. Cardinality(Actions(o)) = 1 /\ (Given(o.set) => o.set \in 0 .. 99)
  BY DEF Usable
<1>2. Actions(o) # {}
  BY <1>1, FS_EmptySet
<1>3. Kind \in Actions(o)
  BY <1>2 DEF Kind
<1> HIDE DEF o
<1>4. Actions(o) \subseteq Kinds
  BY DEF Actions, Kinds
<1>5. "titleSet" \in Actions(o) => Given(o.set)
  BY DEF Actions
<1> QED BY <1>1, <1>3, <1>4, <1>5 DEF o

\* Without a file set there is nothing to be told of the copy.
LEMMA NothingLeft == info = <<>> /\ streams = {} => Left
BY DEF Left, Released, Duplicate, InOrder

\* The directory as it was has no BUP of this run.
LEMMA NothingHeld ==
    Typed /\ Looked /\ target = job.before => Held = {} /\ \A s \in 0 .. MaxSets : Ordered(s)
<1> SUFFICES ASSUME Typed, Looked, target = job.before
             PROVE  Held = {} /\ \A s \in 0 .. MaxSets : Ordered(s)
  OBVIOUS
<1>1. \A s \in 0 .. MaxSets : target[s].bup # "whole"
  BY BeforeOf
<1>2. Backed = {}
  BY <1>1, Domain DEF Backed
<1>3. Held = {}
  BY <1>2 DEF Held
<1> QED BY <1>1, <1>3 DEF Ordered

LEMMA OptionsStep ==
    ASSUME Typed, Opening, Options \/ OpenDisc \/ TitleName \/ MirrorCalled
    PROVE  Typed' /\ \/ pc' \in Begun /\ Opening'
                     \/ pc' = "exit" /\ Left'
<1>1. info = <<>> /\ Untouched
  BY DEF Opening
<1>2. ASSUME NEW status, NEW closed, Exit(status, closed) PROVE Typed' /\ pc' = "exit" /\ Left'
  <2>1. pc' = "exit" /\ UNCHANGED <<job, info, target, streams>>
    BY <1>2 DEF Exit
  <2>2. Typed'
    BY <2>1, SameLooked DEF Typed
  <2>3. (info = <<>> /\ streams = {})'
    BY <1>1, <2>1 DEF Untouched
  <2> QED BY <2>1, <2>2, <2>3, NothingLeft, PTL
<1>3. ASSUME NEW next \in Begun, Goto(next),
             Usable(job.opts), next # "open" => Kind # "info",
             next = "files" => Kind # "feature"
      PROVE  Typed' /\ pc' \in Begun /\ Opening'
  <2>1. pc' = next /\ UNCHANGED <<job, info, feature, set, vob, target, streams, reader, code>>
    BY <1>3 DEF Goto
  <2>2. Typed'
    BY <2>1, SameLooked DEF Typed
  <2>3. Kind' = Kind /\ Usable(job'.opts) /\ pc' \notin Asks /\ pc' # "options"
    BY <1>3, <2>1, SameJob DEF Begun, Asks
  <2> QED BY <1>1, <1>3, <2>1, <2>2, <2>3 DEF Opening, Untouched
<1>4. CASE Options
  <2>1. pc = "options" /\ ((Usable(job.opts) /\ Goto("open")) \/ Exit(1, 0))
    BY <1>4 DEF Options
  <2> QED BY <1>2, <1>3, <2>1 DEF Begun
<1>5. CASE OpenDisc
  <2>1. /\ pc = "open" /\ (Exit(-1, 0) \/ Exit(0, 1) \/ (Kind # "info" /\ Goto("name")))
        /\ Usable(job.opts)
    BY <1>5 DEF OpenDisc, Opening
  <2> QED BY <1>2, <1>3, <2>1 DEF Begun
<1>6. CASE TitleName
  <2>1. /\ pc = "name" /\ (Goto("directories") \/ Exit(1, 1) \/ Exit(2, 1))
        /\ Usable(job.opts) /\ Kind # "info"
    BY <1>6 DEF TitleName, Opening
  <2> QED BY <1>2, <1>3, <2>1 DEF Begun
<1>7. CASE MirrorCalled
  <2>1. /\ Goto("files") /\ Usable(job.opts) /\ Kind \in {"mirror", "titleSet"}
    BY <1>7 DEF MirrorCalled, Opening, Asks
  <2> QED BY <1>3, <2>1 DEF Begun
<1> QED BY <1>4, <1>5, <1>6, <1>7

LEMMA DirectoriesStep ==
    ASSUME Typed, Opening, Directories
    PROVE  Typed' /\ \/ pc' \in Asks /\ Opening'
                     \/ pc' = "exit" /\ Left'
<1>1. info = <<>> /\ Untouched /\ Usable(job.opts) /\ Kind # "info"
  BY DEF Opening, Directories
<1>2. UNCHANGED <<job, info, feature, set, vob, target, streams>>
  BY DEF Directories, Goto, Exit
<1>3. Typed'
  BY <1>2, SameLooked DEF Typed
<1>4. CASE Goto(Kind)
  <2>1. pc' = Kind /\ UNCHANGED <<reader, code>>
    BY <1>4 DEF Goto
  <2>2. Kind \in Asks
    BY <1>1, KindOf DEF Kinds, Asks
  <2>3. Kind' = Kind /\ Usable(job'.opts)
    BY <1>1, <1>2, SameJob
  <2>4. pc' # "files"
    BY <2>1, <2>2 DEF Asks
  <2> QED BY <1>1, <1>2, <1>3, <2>1, <2>2, <2>3, <2>4 DEF Opening, Untouched
<1>5. CASE Exit(-1, 1)
  <2>1. (info = <<>> /\ streams = {})'
    BY <1>1, <1>2 DEF Untouched
  <2>2. pc' = "exit"
    BY <1>5 DEF Exit
  <2> QED BY <1>3, <2>1, <2>2, NothingLeft, PTL
<1> QED BY <1>4, <1>5 DEF Directories

LEMMA GetInfoStep ==
    ASSUME Typed, Opening, GetInfo
    PROVE  Typed' /\ \/ pc' = "files" /\ Opening'
                     \/ pc' = "exit" /\ Left'
<1>1. info = <<>> /\ Untouched /\ Usable(job.opts) /\ Kind # "info"
  BY DEF Opening, GetInfo
<1>2. UNCHANGED <<job, info, set, vob, target, streams>>
  BY DEF GetInfo, Fails, Exit
<1>3. Typed'
  BY <1>2, SameLooked DEF Typed
<1>4. CASE Fails
  <2>1. (info = <<>> /\ streams = {})'
    BY <1>1, <1>2 DEF Untouched
  <2>2. pc' = "exit"
    BY <1>4 DEF Fails, Exit
  <2> QED BY <1>3, <2>1, <2>2, NothingLeft, PTL
<1>5. CASE /\ feature' \in MainTitleSets(job.disc, job.opts.aspect)
           /\ pc' = "files" /\ UNCHANGED <<reader, code>>
  <2>1. Disc(job.disc)
    BY JobDisc DEF Typed
  <2>2. feature' \in 1 .. Len(job.disc.sets)
    BY <1>5, <2>1, NamedBy
  <2>3. Kind' = Kind /\ Usable(job'.opts)
    BY <1>1, <1>2 DEF Kind
  <2>4. pc' \notin Asks
    BY <1>5 DEF Asks
  <2> QED BY <1>1, <1>2, <1>3, <1>5, <2>2, <2>3, <2>4 DEF Opening, Untouched
<1> QED BY <1>4, <1>5 DEF GetInfo

\* The title sets asked for, before the first one is copied.
LEMMA AskedFor ==
    ASSUME Typed, Opening, pc = "files", Kind \notin {"titles", "chapters"}
    PROVE  /\ Kind \in Copies /\ FirstSet \in Nat
           /\ FirstSet <= Len(job.disc.sets) =>
                LastSet \in Nat /\ FirstSet <= LastSet /\ LastSet <= Len(job.disc.sets)
<1>1. Usable(job.opts) /\ Kind # "info" /\ (Kind = "feature" => feature \in 1 .. Len(job.disc.sets))
  BY DEF Opening
<1>2. Kind \in Copies
  BY <1>1, KindOf DEF Kinds, Copies
<1>3. Len(job.disc.sets) \in Nat
  BY JobFacts
<1>4. FirstSet \in Nat
  BY <1>1, <1>2, KindOf DEF FirstSet, Copies
<1>5. LastSet = IF Kind = "mirror" THEN Len(job.disc.sets) ELSE FirstSet
  BY DEF LastSet
<1> QED BY <1>2, <1>3, <1>4, <1>5

LEMMA VobsAll == Typed /\ Looked => \A s \in Sets : Len(info[s].vobs) \in 0 .. MaxVobs
BY VobsOf

LEMMA FileSetStep ==
    ASSUME Typed, Opening, FileSet
    PROVE  Typed' /\ \/ pc' = "cells" /\ Cells'
                     \/ pc' = "title" /\ Copy'
                     \/ pc' = "exit" /\ Left'
<1>1. info = <<>> /\ Untouched /\ pc = "files"
  BY DEF Opening, FileSet
<1>2. UNCHANGED <<job, feature, vob, target, streams>>
  BY DEF FileSet, Exit
<1>3. Kind' = Kind /\ Sets' = Sets /\ FirstSet' = FirstSet /\ LastSet' = LastSet /\ Asked' = Asked
  BY <1>2, SameJob
<1>4. CASE pc' = "exit" /\ UNCHANGED info
  <2>1. (info = <<>> /\ streams = {})'
    BY <1>1, <1>2, <1>4 DEF Untouched
  <2>2. Typed'
    BY <1>1, <1>2, <1>4 DEF Typed
  <2> QED BY <1>4, <2>1, <2>2, NothingLeft, PTL
<1>5. CASE /\ info' \in {f \in [0 .. Len(job.disc.sets) -> UNION {Seen(s) : s \in 0 .. Len(job.disc.sets)}] :
                           \A s \in DOMAIN f : f[s] \in Seen(s)}
           /\ IF Kind \in {"titles", "chapters"}
                THEN /\ pc' = "cells" /\ UNCHANGED <<set, code, reader>>
                ELSE IF FirstSet > Len(job.disc.sets)
                THEN /\ pc' = "exit" /\ code' = -1 /\ reader' = reader + 1 /\ UNCHANGED set
                ELSE /\ pc' = "title" /\ set' = FirstSet /\ UNCHANGED <<code, reader>>
  <2>1. DOMAIN info' = Sets /\ \A s \in Sets : info'[s] \in Seen(s)
    BY <1>5 DEF Sets
  <2>2. Looked'
    <3>1. \A s : Seen(s)' = Seen(s)
      BY <1>2 DEF Seen, Files
    <3> QED BY <1>3, <2>1, <3>1 DEF Looked
  <2>3. Typed'
    BY <1>2, <2>2 DEF Typed
  <2>4. Held' = {} /\ \A s \in 0 .. MaxSets : Ordered(s)'
    <3>1. (Typed /\ Looked /\ target = job.before)'
      BY <1>1, <1>2, <2>2, <2>3 DEF Untouched
    <3>2. (Held = {} /\ \A s \in 0 .. MaxSets : Ordered(s))'
      BY <3>1, NothingHeld, PTL
    <3> QED BY <3>2
  <2>5. target' = job'.before /\ streams' = {} /\ vob' = 0 /\ reader = 0 /\ code = 0
    BY <1>1, <1>2 DEF Untouched
  <2>6. CASE Kind \in {"titles", "chapters"}
    <3>1. Cells'
      BY <1>3, <1>5, <2>2, <2>5, <2>6 DEF Cells, Untouched
    <3> QED BY <1>5, <2>3, <2>6, <3>1
  <2>7. CASE Kind \notin {"titles", "chapters"} /\ FirstSet > Len(job.disc.sets)
    <3>1. pc' = "exit" /\ code' = -1 /\ reader' = 1
      BY <1>5, <2>5, <2>7
    <3>2. Duplicate'
      BY <3>1 DEF Duplicate
    <3>3. (reader = 1 /\ streams = Held)'
      BY <2>4, <2>5, <3>1
    <3>4. Released'
      BY <3>3, ReleasedOf, PTL
    <3>5. InOrder'
      <4> SUFFICES ASSUME NEW s \in 0 .. Len(job'.disc.sets) PROVE Ordered(s)' /\ target'[s] = job'.before[s]
        BY DEF InOrder, Ordered, Ready
      <4>1. s \in 0 .. MaxSets
        BY <1>2, JobFacts
      <4> QED BY <2>4, <2>5, <4>1
    <3> QED BY <2>3, <3>1, <3>2, <3>4, <3>5 DEF Left
  <2>8. CASE Kind \notin {"titles", "chapters"} /\ ~(FirstSet > Len(job.disc.sets))
    <3>1. pc' = "title" /\ set' = FirstSet /\ UNCHANGED <<code, reader>>
      BY <1>5, <2>8
    <3>2. /\ Kind \in Copies /\ FirstSet \in Nat /\ LastSet \in Nat
          /\ FirstSet <= LastSet /\ LastSet <= Len(job.disc.sets) /\ Len(job.disc.sets) \in 1 .. MaxSets
          /\ MaxSets \in Nat
      BY <1>1, <2>8, AskedFor, JobFacts
    <3>3. set' \in FirstSet .. LastSet /\ set' \in 0 .. MaxSets /\ set' \in Sets /\ FirstSet .. set' - 1 = {}
      BY <3>1, <3>2 DEF Sets
    <3>4. Ordered(set)'
      BY <2>4, <3>3 DEF Ordered, Ready
    <3>5. Frontier'
      BY <1>2, <1>3, <2>2, <2>5, <3>2, <3>3, <3>4 DEF Frontier
    <3>6. vob' \in 0 .. Len(info'[set'].vobs)
      <4>1. (\A s \in Sets : Len(info[s].vobs) \in 0 .. MaxVobs)'
        BY <2>2, <2>3, VobsAll, PTL
      <4>2. Len(info'[set'].vobs) \in 0 .. MaxVobs
        BY <1>3, <3>3, <4>1
      <4> QED BY <2>5, <4>2, JobFacts
    <3>7. Stage'
      BY <2>5, <3>1, <3>6 DEF Stage, Here, IfoStages, VobStages
    <3>8. Running' = {}
      BY <3>1 DEF Running
    <3> QED BY <2>3, <2>4, <2>5, <3>1, <3>5, <3>7, <3>8 DEF Copy
  <2> QED BY <2>6, <2>7, <2>8
<1> QED BY <1>1, <1>2, <1>4, <1>5 DEF FileSet, Exit

\* A run for a title or chapters that has come to its end.
LEMMA CellsEnd ==
    ASSUME Typed, Looked, Kind \in {"titles", "chapters"}, UNCHANGED <<job, info, feature>>,
           target' \in [0 .. MaxSets -> FileSets(Contents)], Unbacked',
           \/ pc' = "crashed"
           \/ /\ reader' = 1 /\ streams' \ {VobIn'} = {}
              /\ VobIn' \in streams' => code' # 0 /\ vob' > 0
    PROVE  Typed' /\ Left'
<1>1. Looked' /\ Kind' \in {"titles", "chapters"}
  BY SameLooked, SameJob
<1>2. Typed'
  BY <1>1 DEF Typed
<1>3. InOrder'
  BY <1>1 DEF InOrder
<1>4. Duplicate'
  <2>1. Asked' = {}
    BY <1>1 DEF Asked
  <2> QED BY <2>1 DEF Duplicate
<1>5. Released'
  <2>1. {s \in DOMAIN info' : target'[s].bup = "whole"} = {}
    <3>1. DOMAIN info' \subseteq 0 .. MaxSets
      BY Domain
    <3> QED BY <3>1 DEF Unbacked
  <2> QED BY <1>1, <2>1 DEF Released
<1> QED BY <1>2, <1>3, <1>4, <1>5 DEF Left

\* Only title VOBs of one title set are changed.
LEMMA OtherVobs ==
    ASSUME Typed, Unbacked, NEW s, NEW vobs \in [1 .. MaxVobs -> Contents],
           target' = [target EXCEPT ![s].vobs = vobs]
    PROVE  target' \in [0 .. MaxSets -> FileSets(Contents)] /\ Unbacked'
<1> DEFINE files == [target[s] EXCEPT !.vobs = vobs]
<1>1. target' = [target EXCEPT ![s] = files]
  OBVIOUS
<1>2. target \in [0 .. MaxSets -> FileSets(Contents)]
  BY DEF Typed
<1>3. s \in 0 .. MaxSets => files \in FileSets(Contents) /\ files.bup = target[s].bup
  BY <1>2 DEF FileSets
<1> HIDE DEF files
<1>4. /\ target' \in [0 .. MaxSets -> FileSets(Contents)]
      /\ \A r \in 0 .. MaxSets : target'[r].bup = target[r].bup
  BY <1>1, <1>2, <1>3
<1> QED BY <1>4, BackupAssumption DEF Unbacked

\* One of them at most.
LEMMA OneVob ==
    ASSUME Typed, Unbacked, NEW v, NEW content \in Contents,
           target' = [target EXCEPT ![set].vobs = [Here.vobs EXCEPT ![v] = content]]
    PROVE  target' \in [0 .. MaxSets -> FileSets(Contents)] /\ Unbacked'
<1> DEFINE vobs == [Here.vobs EXCEPT ![v] = content]
<1>1. CASE set \in 0 .. MaxSets
  <2>1. Here.vobs \in [1 .. MaxVobs -> Contents]
    BY <1>1 DEF Typed, Here, FileSets
  <2>2. vobs \in [1 .. MaxVobs -> Contents]
    BY <2>1
  <2> HIDE DEF vobs
  <2>3. target' = [target EXCEPT ![set].vobs = vobs]
    BY DEF vobs
  <2> QED BY <2>2, <2>3, OtherVobs
<1>2. CASE set \notin 0 .. MaxSets
  <2>1. target' = target
    BY <1>2 DEF Typed
  <2>2. target \in [0 .. MaxSets -> FileSets(Contents)]
    BY DEF Typed
  <2> QED BY <2>1, <2>2 DEF Unbacked
<1> QED BY <1>1, <1>2

LEMMA NoneBacked == Typed /\ Looked /\ target = job.before => Unbacked
BY BeforeOf DEF Unbacked

Ends == pc \in {"exit", "crashed"} /\ Left
Goes == pc \in CellStages /\ CellCopy

LEMMA OpenTitleStep ==
    ASSUME Typed, Cells, OpenTitle
    PROVE  Typed' /\ (Ends' \/ Goes')
<1>1. Looked /\ Untouched /\ Kind \in {"titles", "chapters"} /\ Unbacked
  BY NoneBacked DEF Cells, Untouched
<1>2. UNCHANGED <<job, info, feature, vob>>
  BY DEF OpenTitle, Fails, Exit, Goto
<1>3. CASE Fails \/ Goto("crashed")
  <2>1. /\ UNCHANGED <<target, streams, vob>>
        /\ pc' = "crashed" \/ (pc' = "exit" /\ reader' = reader + 1)
    BY <1>3 DEF Fails, Exit, Goto
  <2>2. target' \in [0 .. MaxSets -> FileSets(Contents)] /\ Unbacked'
    BY <1>1, <2>1 DEF Typed, Unbacked
  <2>3. streams' = {} /\ reader = 0
    BY <1>1, <2>1 DEF Untouched
  <2>4. Typed' /\ Left'
    BY <1>1, <1>2, <2>1, <2>2, <2>3, CellsEnd
  <2> QED BY <2>1, <2>4 DEF Ends
<1>4. ASSUME set' = TitleSet, streams' = streams \cup {<<TitleSet, "info">>},
             target' = [target EXCEPT ![TitleSet].vobs =
                         [v \in 1 .. MaxVobs |-> IF @[v] = "other" THEN @[v] ELSE "none"]],
             pc' = "createVob", UNCHANGED <<reader, code>>
      PROVE  Typed' /\ Goes'
  <2> DEFINE vobs == [v \in 1 .. MaxVobs |->
                       IF target[TitleSet].vobs[v] = "other" THEN target[TitleSet].vobs[v] ELSE "none"]
  <2>1. vobs \in [1 .. MaxVobs -> Contents]
    BY DEF Contents
  <2>2. target' = [target EXCEPT ![TitleSet].vobs = vobs]
    BY <1>4
  <2> HIDE DEF vobs
  <2>3. target' \in [0 .. MaxSets -> FileSets(Contents)] /\ Unbacked'
    BY <1>1, <2>1, <2>2, OtherVobs
  <2>4. Looked' /\ Kind' \in {"titles", "chapters"}
    BY <1>1, <1>2, SameLooked, SameJob
  <2>5. Typed'
    BY <1>2, <2>3, <2>4 DEF Typed
  <2>6. vob' = 0 /\ reader' = 0 /\ code' = 0 /\ streams = {}
    BY <1>1, <1>2, <1>4 DEF Untouched
  <2>7. streams' = {IfoInfo'}
    BY <1>4, <2>6 DEF IfoInfo
  <2> QED BY <1>4, <2>3, <2>4, <2>5, <2>6, <2>7 DEF Goes, CellStages, CellCopy
<1> QED BY <1>2, <1>3, <1>4 DEF OpenTitle

\* The files of the copy are files of the same title set after a step.
LEMMA SameFiles ==
    set' = set => IfoInfo' = IfoInfo /\ VobIn' = VobIn /\ VobOut' = VobOut
BY DEF IfoInfo, VobIn, VobOut

LEMMA FilesDiffer == IfoInfo # VobIn /\ IfoInfo # VobOut /\ VobIn # VobOut
BY DEF IfoInfo, VobIn, VobOut

LEMMA CreateVobStep ==
    ASSUME Typed, CellCopy, CreateVob
    PROVE  Typed' /\ (Ends' \/ Goes')
<1>1. /\ pc = "createVob" /\ UNCHANGED <<job, info, feature, set>>
      /\ Looked /\ Kind \in {"titles", "chapters"} /\ Unbacked
      /\ reader = 0 /\ code = 0 /\ vob \in Nat
      /\ streams = {IfoInfo} \cup (IF vob > 0 THEN {VobIn} ELSE {})
  BY DEF CreateVob, CellCopy
<1>2. IfoInfo' = IfoInfo /\ VobIn' = VobIn /\ VobOut' = VobOut
  BY <1>1, SameFiles
<1>3. Looked' /\ Kind' \in {"titles", "chapters"}
  BY <1>1, SameLooked, SameJob
<1>4. ASSUME pc' = "exit", code' = -1, reader' = reader + 1, streams' = streams \ {IfoInfo},
             vob' = vob \/ vob = 0, target' \in [0 .. MaxSets -> FileSets(Contents)], Unbacked'
      PROVE  Typed' /\ Ends'
  <2>1. streams' = IF vob > 0 THEN {VobIn} ELSE {}
    BY <1>1, <1>4, FilesDiffer
  <2>2. /\ reader' = 1 /\ streams' \ {VobIn'} = {}
        /\ VobIn' \in streams' => code' # 0 /\ vob' > 0
    BY <1>1, <1>2, <1>4, <2>1
  <2>3. Typed' /\ Left'
    BY <1>1, <1>4, <2>2, CellsEnd
  <2> QED BY <1>4, <2>3 DEF Ends
<1>5. CASE /\ pc' = "exit" /\ code' = -1 /\ reader' = reader + 1
           /\ streams' = streams \ {IfoInfo}
           /\ UNCHANGED <<vob, target>>
  <2>1. target' \in [0 .. MaxSets -> FileSets(Contents)] /\ Unbacked'
    BY <1>1, <1>5 DEF Typed, Unbacked
  <2> QED BY <1>4, <1>5, <2>1
<1>6. ASSUME vob' = vob + 1, target' = [target EXCEPT ![set].vobs[vob + 1] = "empty"],
             \/ /\ pc' = "copyCells" /\ streams' = streams \cup {VobIn, VobOut}
                /\ UNCHANGED <<code, reader>>
             \/ /\ vob = 0 /\ pc' = "exit" /\ code' = -1 /\ reader' = reader + 1
                /\ streams' = streams \ {IfoInfo}
      PROVE  Typed' /\ (Ends' \/ Goes')
  <2>1. target' \in [0 .. MaxSets -> FileSets(Contents)] /\ Unbacked'
    <3>1. target' = [target EXCEPT ![set].vobs = [Here.vobs EXCEPT ![vob + 1] = "empty"]]
      BY <1>6 DEF Here
    <3>2. "empty" \in Contents
      BY DEF Contents
    <3> QED BY <1>1, <3>1, <3>2, OneVob
  <2>2. CASE pc' = "exit"
    BY <1>4, <1>6, <2>1, <2>2
  <2>3. CASE pc' = "copyCells" /\ streams' = streams \cup {VobIn, VobOut} /\ UNCHANGED <<code, reader>>
    <3>1. streams' = {IfoInfo'} \cup {VobIn', VobOut'}
      BY <1>1, <1>2, <2>3
    <3>2. vob' \in Nat /\ vob' > 0
      BY <1>1, <1>6
    <3>3. Typed'
      BY <1>1, <1>3, <2>1 DEF Typed
    <3> QED BY <1>1, <1>3, <2>1, <2>3, <3>1, <3>2, <3>3 DEF Goes, CellStages, CellCopy
  <2> QED BY <1>6, <2>2, <2>3
<1> QED BY <1>5, <1>6 DEF CreateVob

LEMMA CopyCellsStep ==
    ASSUME Typed, CellCopy, CopyCells
    PROVE  Typed' /\ (Ends' \/ Goes')
<1>1. /\ pc = "copyCells" /\ UNCHANGED <<job, info, feature, set, vob>>
      /\ Looked /\ Kind \in {"titles", "chapters"} /\ Unbacked
      /\ reader = 0 /\ code = 0 /\ vob \in Nat /\ vob > 0
      /\ streams = {IfoInfo, VobIn, VobOut}
  BY DEF CopyCells, CellCopy, GivesUp, Copying
<1>2. IfoInfo' = IfoInfo /\ VobIn' = VobIn /\ VobOut' = VobOut
  BY <1>1, SameFiles
<1>3. Looked' /\ Kind' \in {"titles", "chapters"}
  BY <1>1, SameLooked, SameJob
<1>4. ASSUME NEW content \in Contents,
             \/ target' = [target EXCEPT ![set] = [Here EXCEPT !.vobs[vob] = content]]
             \/ target' = [target EXCEPT ![set].vobs[vob] = content]
      PROVE  target' \in [0 .. MaxSets -> FileSets(Contents)] /\ Unbacked'
  <2>1. target' = [target EXCEPT ![set].vobs = [Here.vobs EXCEPT ![vob] = content]]
    BY <1>4 DEF Here
  <2> QED BY <1>1, <2>1, OneVob
<1>5. "part" \in Contents /\ "cells" \in Contents
  BY DEF Contents
<1>6. ASSUME pc' = "exit", reader' = reader + 1, streams' \in {{}, {VobIn}},
             streams' = {} \/ code' # 0,
             target' \in [0 .. MaxSets -> FileSets(Contents)], Unbacked'
      PROVE  Typed' /\ Ends'
  <2>1. /\ reader' = 1 /\ streams' \ {VobIn'} = {}
        /\ VobIn' \in streams' => code' # 0 /\ vob' > 0
    BY <1>1, <1>2, <1>6
  <2>2. Typed' /\ Left'
    BY <1>1, <1>6, <2>1, CellsEnd
  <2> QED BY <1>6, <2>2 DEF Ends
<1>7. streams \ {IfoInfo, VobIn, VobOut} = {} /\ streams \ {IfoInfo, VobOut} = {VobIn}
  BY <1>1, FilesDiffer
<1>8. CASE GivesUp([Here EXCEPT !.vobs[vob] = "part"], streams \ {IfoInfo, VobIn, VobOut})
  BY <1>4, <1>5, <1>6, <1>7, <1>8 DEF GivesUp
<1>9. CASE GivesUp([Here EXCEPT !.vobs[vob] = "part"], streams \ {IfoInfo, VobOut})
  <2>1. /\ pc' = "exit" /\ code' = -1 /\ reader' = reader + 1 /\ streams' = {VobIn}
        /\ target' = [target EXCEPT ![set] = [Here EXCEPT !.vobs[vob] = "part"]]
    BY <1>7, <1>9 DEF GivesUp
  <2>2. target' \in [0 .. MaxSets -> FileSets(Contents)] /\ Unbacked'
    BY <1>4, <1>5, <2>1
  <2>3. code' # 0 /\ streams' \in {{}, {VobIn}}
    BY <2>1
  <2> QED BY <1>6, <2>1, <2>2, <2>3
<1>10. CASE Copying("createVob", [Here EXCEPT !.vobs[vob] = "cells"], streams \ {VobOut})
  <2>1. /\ pc' = "createVob" /\ streams' = streams \ {VobOut} /\ UNCHANGED <<reader, code>>
        /\ target' = [target EXCEPT ![set] = [Here EXCEPT !.vobs[vob] = "cells"]]
    BY <1>10 DEF Copying
  <2>2. target' \in [0 .. MaxSets -> FileSets(Contents)] /\ Unbacked'
    BY <1>4, <1>5, <2>1
  <2>3. streams' = {IfoInfo'} \cup {VobIn'}
    BY <1>1, <1>2, <2>1, FilesDiffer
  <2>4. Typed'
    BY <1>1, <1>3, <2>2 DEF Typed
  <2> QED BY <1>1, <1>3, <2>1, <2>2, <2>3, <2>4 DEF Goes, CellStages, CellCopy
<1>11. CASE /\ pc' = "exit" /\ code' = 0 /\ reader' = reader + 1
            /\ target' = [target EXCEPT ![set].vobs[vob] = "cells"]
            /\ streams' = streams \ {IfoInfo, VobIn, VobOut}
  BY <1>4, <1>5, <1>6, <1>7, <1>11
<1> QED BY <1>8, <1>9, <1>10, <1>11 DEF CopyCells

Before == Begun \cup Asks \cup {"options"}

\* What is known of every stage of the run.
Known == \/ pc \in Before /\ Opening
         \/ pc = "cells" /\ Cells
         \/ pc \in CellStages /\ CellCopy
         \/ pc \in Stages /\ Copy
         \/ pc \in {"exit", "crashed"} /\ Left

BackupInv == Typed /\ Guessed /\ Known

LEMMA BackupBegins == Init => BackupInv
<1> SUFFICES ASSUME Init PROVE BackupInv
  OBVIOUS
<1>1. /\ job \in Jobs /\ pc = "options" /\ info = <<>> /\ feature = 0 /\ vob = 0
      /\ target = job.before /\ streams = {} /\ reader = 0 /\ code = 0
  BY DEF Init
<1>2. Typed
  <2>1. job.before \in [0 .. MaxSets -> FileSets({"none", "other", "old"})]
    BY <1>1, BackupAssumption
  <2>2. FileSets({"none", "other", "old"}) \subseteq FileSets(Contents)
    BY DEF FileSets, Contents
  <2> QED BY <1>1, <2>1, <2>2 DEF Typed
<1>3. Guessed
  BY <1>1 DEF Guessed
<1>4. Opening
  BY <1>1 DEF Opening, Untouched, Asks
<1> QED BY <1>1, <1>2, <1>3, <1>4 DEF BackupInv, Known, Before

LEMMA BackupStep == BackupInv /\ [Next]_vars => BackupInv'
<1> SUFFICES ASSUME BackupInv, [Next]_vars PROVE BackupInv'
  OBVIOUS
<1>1. Typed /\ Guessed /\ Known
  BY DEF BackupInv
<1>2. Guessed'
  BY <1>1, GuessedStep
<1>3. ASSUME Main PROVE Typed' /\ Known'
  <2>1. CASE pc = "files" /\ FileSet
    <3>1. Opening
      BY <1>1, <2>1 DEF Known, Stages, IfoStages, VobStages, CellStages
    <3> QED BY <1>1, <2>1, <3>1, FileSetStep DEF Known, Stages
  <2>2. ASSUME pc \in Before, Options \/ OpenDisc \/ TitleName \/ Directories \/ GetInfo \/ MirrorCalled
        PROVE  Typed' /\ Known'
    <3>1. Opening
      BY <1>1, <2>2 DEF Known, Before, Begun, Asks, Stages, IfoStages, VobStages, CellStages
    <3>2. Typed' /\ \/ pc' \in Before /\ Opening'
                    \/ pc' = "exit" /\ Left'
      BY <1>1, <2>2, <3>1, OptionsStep, DirectoriesStep, GetInfoStep DEF Before, Begun
    <3> QED BY <3>2 DEF Known
  <2>3. FileSet => pc = "files"
    BY DEF FileSet
  <2>4. Options \/ OpenDisc \/ TitleName \/ Directories \/ GetInfo \/ MirrorCalled => pc \in Before
    BY DEF Options, OpenDisc, TitleName, Directories, GetInfo, MirrorCalled, Before, Begun, Asks
  <2> QED BY <1>3, <2>1, <2>2, <2>3, <2>4 DEF Main
<1>4. ASSUME Title PROVE Typed' /\ Known'
  <2>1. pc \in Stages
    BY <1>4 DEF Title, OpenIfoBup, ReadIfo, WriteIfo, WriteBup, OpenMenu, CopyMenu, OpenVob, CopyVob,
                EndTitle, Stages, IfoStages, VobStages
  <2>2. Copy
    BY <1>1, <2>1 DEF Known, Before, Begun, Asks, Stages, IfoStages, VobStages, CellStages
  <2>3. Typed' /\ Continues
    BY <1>1, <1>4, <2>2, OpenIfoBupStep, ReadIfoStep, WriteIfoStep, WriteBupStep, OpenMenuStep,
       CopyMenuStep, OpenVobStep, CopyVobStep, EndTitleStep DEF Title
  <2> QED BY <2>3 DEF Known, Continues
<1>5. ASSUME TitleCells PROVE Typed' /\ Known'
  <2>1. CASE OpenTitle
    <3>1. pc = "cells"
      BY <2>1 DEF OpenTitle
    <3>2. Cells
      BY <1>1, <3>1 DEF Known, Before, Begun, Asks, Stages, IfoStages, VobStages, CellStages
    <3> QED BY <1>1, <2>1, <3>2, OpenTitleStep DEF Known, Ends, Goes
  <2>2. CASE CreateVob \/ CopyCells
    <3>1. pc \in CellStages
      BY <2>2 DEF CreateVob, CopyCells, CellStages
    <3>2. CellCopy
      BY <1>1, <3>1 DEF Known, Before, Begun, Asks, Stages, IfoStages, VobStages, CellStages
    <3> QED BY <1>1, <2>2, <3>2, CreateVobStep, CopyCellsStep DEF Known, Ends, Goes
  <2> QED BY <1>5, <2>1, <2>2 DEF TitleCells
<1>6. ASSUME UNCHANGED vars PROVE Typed' /\ Known'
  <2>1. UNCHANGED <<job, pc, info, feature, set, vob, target, streams, reader, code>>
    BY <1>6 DEF vars
  <2>2. Kind' = Kind /\ Sets' = Sets /\ FirstSet' = FirstSet /\ LastSet' = LastSet /\ Asked' = Asked
    BY <2>1, SameJob
  <2>3. Typed' /\ (Looked => Looked') /\ Held' = Held /\ Running' = Running
    BY <1>1, <2>1, SameLooked DEF Typed, Held, Backed, Running, IfoOut, BupOut, IfoIn, VobIn, VobOut
  <2>4. \A s : /\ Complete(s)' <=> Complete(s)
               /\ Ordered(s)' <=> Ordered(s)
               /\ Ready(s)' <=> Ready(s)
               /\ MenuDone(s)' <=> MenuDone(s)
    BY <2>1 DEF Complete, Ordered, Ready, MenuDone
  <2>5. \A s, v : VobDone(s, v)' <=> VobDone(s, v)
    BY <2>1 DEF VobDone
  <2>6. Opening => Opening'
    BY <2>1, <2>2 DEF Opening, Untouched
  <2>7. Cells => Cells'
    BY <2>1, <2>2, <2>3 DEF Cells, Untouched
  <2>c. CellCopy => CellCopy'
    BY <2>1, <2>2, <2>3 DEF CellCopy, Unbacked, IfoInfo, VobIn, VobOut
  <2>8. Copy => Copy'
    <3>1. Frontier => Frontier'
      BY <2>1, <2>2, <2>3, <2>4 DEF Frontier
    <3>2. Stage => Stage'
      BY <2>1, <2>4, <2>5 DEF Stage, Here
    <3> QED BY <2>1, <2>3, <3>1, <3>2 DEF Copy
  <2>9. Left => Left'
    <3>1. Released => Released'
      BY <2>1, <2>2 DEF Released, VobIn
    <3>2. Duplicate => Duplicate'
      BY <2>1, <2>2, <2>4 DEF Duplicate
    <3>3. InOrder => InOrder'
      BY <2>1, <2>2, <2>4 DEF InOrder
    <3> QED BY <3>1, <3>2, <3>3 DEF Left
  <2> QED BY <1>1, <2>1, <2>3, <2>6, <2>7, <2>8, <2>9, <2>c DEF Known
<1>7. Typed' /\ Known'
  BY <1>3, <1>4, <1>5, <1>6 DEF Next, Terminated
<1> QED BY <1>2, <1>7 DEF BackupInv

LEMMA LeftEverywhere == BackupInv => Left
<1> SUFFICES ASSUME BackupInv PROVE Left
  OBVIOUS
<1>1. Typed /\ Known
  BY DEF BackupInv
<1>2. CASE pc \in Before /\ Opening
  BY <1>2, NothingLeft DEF Opening, Untouched
<1>3. CASE pc = "cells" /\ Cells
  <2>1. Asked = {}
    BY <1>3 DEF Cells, Asked
  <2> QED BY <1>3, <2>1 DEF Cells, Left, Released, Duplicate, InOrder
<1>5. CASE pc \in CellStages /\ CellCopy
  <2>1. Asked = {} /\ pc # "exit"
    BY <1>5 DEF CellCopy, Asked, CellStages
  <2> QED BY <1>5, <2>1 DEF CellCopy, Left, Released, Duplicate, InOrder
<1>4. CASE pc \in Stages /\ Copy
  <2>1. pc # "exit"
    BY <1>4 DEF Stages, IfoStages, VobStages
  <2>2. InOrder
    BY <1>1, <1>4, FrontierInOrder DEF Copy
  <2> QED BY <2>1, <2>2 DEF Left, Released, Duplicate
<1> QED BY <1>1, <1>2, <1>3, <1>4, <1>5 DEF Known

\* Of the file set, the main feature and each stage of the run from main()'s options to
\* its exit what BackupInv says of them is true whenever the run is there.
THEOREM BackupInvHolds == Spec => []BackupInv
BY BackupBegins, BackupStep, PTL DEF Spec

\* At the end the reader is closed once, and of the files of title sets only those of an
\* IFO and its BUP that have been copied are still open, and the VOBs of the disc if the
\* copy of a title's cells is given up: DVDCopyIfoBup(), DVDCopyMenu() and
\* DVDCopyTitleVobX() close what they have opened wherever they give up,
\* DVDWriteCells() all but the VOBs of the disc.
THEOREM OnlyTheseStayOpen == Spec => []Released
<1>1. BackupInv => Released
  BY LeftEverywhere DEF Left
<1> QED BY <1>1, BackupInvHolds, PTL

\* A run that ends with success has copied every title set asked for completely
\* (DVDMirror(), DVDMirrorTitleSet() and DVDMirrorMainFeature()).
THEOREM SuccessIsComplete == Spec => []Duplicate
<1>1. BackupInv => Duplicate
  BY LeftEverywhere DEF Left
<1> QED BY <1>1, BackupInvHolds, PTL

\* Nothing incomplete is left behind what has been changed of the target directory,
\* at no moment of the run (the order of the copies in DVDMirror() and DVDMirrorTitleX()).
THEOREM NothingLeftBehind == Spec => []InOrder
<1>1. BackupInv => InOrder
  BY LeftEverywhere DEF Left
<1> QED BY <1>1, BackupInvHolds, PTL
===============================================================================
