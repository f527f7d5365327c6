---------------------------- MODULE SubtitleProofs ----------------------------
(***************************************************************************)
(* Proofs about subtitleripper: subtitle2pgm (Spudec), for every stream,   *)
(* picture and loss that satisfies SpudecAssumption, and the VobSub writer *)
(* and reader (Vobsub), for every file and packet that satisfies           *)
(* VobsubAssumption.                                                       *)
(***************************************************************************)
EXTENDS Spudec, Vobsub, SequenceTheorems, WellFoundedInduction, TLAPS

-------------------------------------------------------------------------------
(***************************************************************************)
(* Numbers                                                                 *)
(***************************************************************************)
\* Induction over the natural numbers, for a set: the library's theorem takes an
\* operator as its parameter.
LEMMA SetInduction ==
    ASSUME NEW S, 0 \in S, \A n \in Nat : n \in S => n + 1 \in S
    PROVE  Nat \subseteq S
<1> DEFINE T == Nat \ S
           R == {ss \in Nat \X Nat : ss[1] < ss[2]}
<1>1. IsWellFoundedOn(R, Nat)
  BY NatLessThanWellFounded DEF OpToRel
<1> SUFFICES ASSUME T # {} PROVE FALSE
  OBVIOUS
<1>2. PICK x \in T : \A y \in T : ~ (<<y, x>> \in R)
  <2> HIDE DEF R
  <2> QED BY <1>1, WFMin
<1>3. x # 0 /\ x - 1 \in Nat
  OBVIOUS
<1>4. <<x - 1, x>> \in R
  BY <1>3
<1>5. x - 1 \notin T
  BY <1>2, <1>4
<1>6. (x - 1) + 1 \in S
  BY <1>3, <1>5
<1> QED BY <1>6

\* A set of natural numbers has a least one.
LEMMA LeastIs ==
    ASSUME NEW S \in SUBSET Nat, S # {}
    PROVE  /\ Least(S) \in S
           /\ \A c \in S : Least(S) <= c
<1> DEFINE R == {ss \in Nat \X Nat : ss[1] < ss[2]}
<1>1. IsWellFoundedOn(R, Nat)
  BY NatLessThanWellFounded DEF OpToRel
<1>2. PICK x \in S : \A y \in S : ~ (<<y, x>> \in R)
  <2> HIDE DEF R
  <2> QED BY <1>1, WFMin
<1>3. \A y \in S : ~ (y < x)
  BY <1>2
<1>4. \E b \in S : \A c \in S : b <= c
  BY <1>3
<1> QED BY <1>4 DEF Least

\* A bounded set of natural numbers has a greatest one.
LEMMA MostIs ==
    ASSUME NEW n \in Nat, NEW S \in SUBSET (0 .. n), S # {}
    PROVE  /\ Most(S) \in S
           /\ \A c \in S : c <= Most(S)
<1> DEFINE M == {n - c : c \in S}
<1>1. M \in SUBSET Nat /\ M # {}
  <2>1. \A c \in S : n - c \in Nat
    OBVIOUS
  <2>2. PICK c \in S : TRUE
    OBVIOUS
  <2>3. n - c \in M
    OBVIOUS
  <2> QED BY <2>1, <2>3
<1> DEFINE b == Least(M)
<1>2. b \in M /\ \A c \in M : b <= c
  BY <1>1, LeastIs
<1> HIDE DEF b
<1>3. PICK c \in S : b = n - c
  BY <1>2
<1>4. \A e \in S : n - e \in M
  OBVIOUS
<1>5. \A e \in S : e <= c
  BY <1>2, <1>3, <1>4
<1> QED BY <1>5 DEF Most

\* s adds up the n numbers l.
Adds(l, n, s) ==
    /\ s \in [0 .. n -> Nat] /\ s[0] = 0
    /\ \A k \in 1 .. n : s[k] = s[k - 1] + l[k]

LEMMA SumExists ==
    ASSUME NEW n \in Nat, NEW l, \A k \in 1 .. n : l[k] \in Nat
    PROVE  \E s : Adds(l, n, s)
<1> DEFINE S == {m \in Nat : m <= n => \E s : Adds(l, m, s)}
<1>1. 0 \in S
  <2>1. Adds(l, 0, [i \in 0 .. 0 |-> 0])
    BY DEF Adds
  <2> QED BY <2>1
<1>2. ASSUME NEW m \in Nat, m \in S PROVE m + 1 \in S
  <2> SUFFICES ASSUME m + 1 <= n PROVE \E s : Adds(l, m + 1, s)
    OBVIOUS
  <2>1. PICK s : Adds(l, m, s)
    BY <1>2
  <2> DEFINE t == [i \in 0 .. m + 1 |-> IF i = m + 1 THEN s[m] + l[m + 1] ELSE s[i]]
  <2>2. s \in [0 .. m -> Nat] /\ s[0] = 0 /\ \A k \in 1 .. m : s[k] = s[k - 1] + l[k]
    BY <2>1 DEF Adds
  <2>3. l[m + 1] \in Nat /\ s[m] \in Nat
    BY <2>2
  <2>4. t \in [0 .. m + 1 -> Nat]
    BY <2>2, <2>3
  <2>5. t[0] = 0
    BY <2>2
  <2>6. ASSUME NEW k \in 1 .. m + 1 PROVE t[k] = t[k - 1] + l[k]
    <3>1. k - 1 \in 0 .. m /\ k - 1 # m + 1
      OBVIOUS
    <3>2. t[k - 1] = s[k - 1]
      BY <3>1
    <3>3. CASE k = m + 1
      BY <3>2, <3>3
    <3>4. CASE k # m + 1
      <4>1. k \in 1 .. m /\ t[k] = s[k]
        BY <3>4
      <4> QED BY <3>2, <4>1, <2>2
    <3> QED BY <3>3, <3>4
  <2> HIDE DEF t
  <2>7. Adds(l, m + 1, t)
    BY <2>4, <2>5, <2>6 DEF Adds
  <2> QED BY <2>7
<1> HIDE DEF S
<1>3. n \in S
  BY <1>1, <1>2, SetInduction
<1> QED BY <1>3 DEF S

LEMMA SumUnique ==
    ASSUME NEW n \in Nat, NEW m \in Nat, m <= n, NEW l, NEW k, NEW s, NEW t,
           Adds(l, n, s), Adds(k, m, t), \A i \in 1 .. m : l[i] = k[i]
    PROVE  \A i \in 0 .. m : s[i] = t[i]
<1> DEFINE S == {i \in Nat : i <= m => s[i] = t[i]}
<1>1. 0 \in S
  BY DEF Adds
<1>2. ASSUME NEW i \in Nat, i \in S PROVE i + 1 \in S
  <2> SUFFICES ASSUME i + 1 <= m PROVE s[i + 1] = t[i + 1]
    OBVIOUS
  <2>1. i + 1 \in 1 .. m /\ i + 1 \in 1 .. n /\ (i + 1) - 1 = i
    OBVIOUS
  <2>2. s[i + 1] = s[i] + l[i + 1] /\ t[i + 1] = t[i] + k[i + 1]
    BY <2>1 DEF Adds
  <2> QED BY <1>2, <2>1, <2>2
<1> HIDE DEF S
<1>3. Nat \subseteq S
  BY <1>1, <1>2, SetInduction
<1> QED BY <1>3 DEF S

\* A sum grows.
LEMMA SumGrows ==
    ASSUME NEW n \in Nat, NEW l, NEW s, Adds(l, n, s), \A k \in 1 .. n : l[k] \in Nat,
           NEW i \in 0 .. n, NEW j \in i .. n
    PROVE  s[i] <= s[j]
<1> DEFINE S == {d \in Nat : i + d <= n => s[i] <= s[i + d]}
<1>1. 0 \in S
  <2>1. s[i] \in Nat
    BY DEF Adds
  <2> QED BY <2>1
<1>2. ASSUME NEW d \in Nat, d \in S PROVE d + 1 \in S
  <2> SUFFICES ASSUME i + d + 1 <= n PROVE s[i] <= s[i + (d + 1)]
    OBVIOUS
  <2>1. i + d + 1 \in 1 .. n /\ (i + d + 1) - 1 = i + d /\ i + d \in 0 .. n
    OBVIOUS
  <2>2. s[i + d + 1] = s[i + d] + l[i + d + 1] /\ l[i + d + 1] \in Nat
    BY <2>1 DEF Adds
  <2>3. s[i] <= s[i + d] /\ s[i] \in Nat /\ s[i + d] \in Nat
    BY <1>2, <2>1 DEF Adds
  <2>4. i + (d + 1) = i + d + 1
    OBVIOUS
  <2> QED BY <2>2, <2>3, <2>4
<1> HIDE DEF S
<1>3. Nat \subseteq S
  BY <1>1, <1>2, SetInduction
<1>4. j - i \in S /\ i + (j - i) = j
  BY <1>3
<1> QED BY <1>4 DEF S

-------------------------------------------------------------------------------
(***************************************************************************)
(* Fragments                                                               *)
(***************************************************************************)
Lengths(b) == [k \in 1 .. Len(b) |-> LengthOf(b[k])]

LEMMA OffsetIs ==
    ASSUME NEW b, Len(b) \in Nat, \A k \in 1 .. Len(b) : LengthOf(b[k]) \in Nat
    PROVE  \E s : Adds(Lengths(b), Len(b), s) /\ Offset(b) = s[Len(b)]
<1> DEFINE N == Len(b)
           F(f) == [k \in 0 .. N |-> IF k = 0 THEN 0 ELSE f[k - 1] + LengthOf(b[k])]
           g == CHOOSE f : f = F(f)
<1>1. Offset(b) = g[N]
  BY DEF Offset
<1>2. PICK s : Adds(Lengths(b), N, s)
  BY SumExists DEF Lengths
<1>3. s = F(s)
  <2>1. s \in [0 .. N -> Nat]
    BY <1>2 DEF Adds
  <2>2. \A k \in 0 .. N : s[k] = IF k = 0 THEN 0 ELSE s[k - 1] + LengthOf(b[k])
    BY <1>2 DEF Adds, Lengths
  <2> QED BY <2>1, <2>2
<1>4. g = F(g)
  <2> HIDE DEF F
  <2> QED BY <1>3
<1> HIDE DEF g
<1>5. \A k \in 0 .. N : g[k] = IF k = 0 THEN 0 ELSE g[k - 1] + LengthOf(b[k])
  BY <1>4
<1> DEFINE S == {i \in Nat : i <= N => g[i] = s[i]}
<1>6. 0 \in S
  BY <1>2, <1>5 DEF Adds
<1>7. ASSUME NEW i \in Nat, i \in S PROVE i + 1 \in S
  <2> SUFFICES ASSUME i + 1 <= N PROVE g[i + 1] = s[i + 1]
    OBVIOUS
  <2>1. i + 1 \in 1 .. N /\ i + 1 \in 0 .. N /\ i + 1 # 0 /\ (i + 1) - 1 = i
    OBVIOUS
  <2>2. g[i + 1] = g[i] + LengthOf(b[i + 1])
    BY <1>5, <2>1
  <2>3. s[i + 1] = s[i] + LengthOf(b[i + 1])
    BY <1>2, <2>1 DEF Adds, Lengths
  <2> QED BY <1>7, <2>2, <2>3
<1> HIDE DEF S
<1>8. N \in S
  BY <1>6, <1>7, SetInduction
<1>9. g[N] = s[N]
  BY <1>8 DEF S
<1> QED BY <1>1, <1>2, <1>9

\* The first k fragments of a unit
Prefix(u, k) == [i \in 1 .. k |-> <<u, i>>]

\* A unit of the stream and its fragments
LEMMA UnitIs ==
    ASSUME script \in Scripts, NEW u \in 1 .. Len(script)
    PROVE  /\ u \in DOMAIN script
           /\ WellDrawn(script[u]) /\ WellSent(script[u]) /\ Programmed(script[u])
           /\ Len(script[u].lens) \in Nat \ {0}
           /\ \A k \in 1 .. Len(script[u].lens) : LengthOf(<<u, k>>) \in Nat \ {0, 1}
           /\ Whole(u) = Prefix(u, Len(script[u].lens))
<1>1. u \in DOMAIN script /\ WellDrawn(script[u]) /\ WellSent(script[u]) /\ Programmed(script[u])
  BY SpudecAssumption
<1>2. script[u].lens \in Seq(Nat \ {0, 1}) /\ script[u].lens # <<>>
  BY <1>1 DEF WellSent
<1>3. Len(script[u].lens) \in Nat \ {0}
  BY <1>2
<1>4. \A k \in 1 .. Len(script[u].lens) : script[u].lens[k] \in Nat \ {0, 1}
  BY <1>2
<1> QED BY <1>1, <1>3, <1>4 DEF LengthOf, Unit, Whole, Prefix

LEMMA PrefixProperties ==
    ASSUME NEW u, NEW k \in Nat
    PROVE  /\ Len(Prefix(u, k)) = k
           /\ \A i \in 1 .. k : Prefix(u, k)[i] = <<u, i>>
           /\ k > 0 => Prefix(u, k) # <<>>
           /\ Append(Prefix(u, k), <<u, k + 1>>) = Prefix(u, k + 1)
           /\ u \in Nat => Prefix(u, k) \in Seq(Nat \X Nat)
<1> DEFINE T == {<<u, i>> : i \in 1 .. k + 1}
<1>1. Prefix(u, k) \in Seq(T) /\ Prefix(u, k + 1) \in Seq(T) /\ <<u, k + 1>> \in T
  <2>1. \A i \in 1 .. k : <<u, i>> \in T
    OBVIOUS
  <2>2. \A i \in 1 .. k + 1 : <<u, i>> \in T
    OBVIOUS
  <2> HIDE DEF T
  <2> QED BY <2>1, <2>2 DEF Prefix
<1>2. Len(Prefix(u, k)) = k /\ Len(Prefix(u, k + 1)) = k + 1
  BY DEF Prefix
<1>3. \A i \in 1 .. k : Prefix(u, k)[i] = <<u, i>> /\ Prefix(u, k + 1)[i] = <<u, i>>
  BY DEF Prefix
<1>4. Prefix(u, k + 1)[k + 1] = <<u, k + 1>>
  BY DEF Prefix
<1> DEFINE a == Append(Prefix(u, k), <<u, k + 1>>)
<1> HIDE DEF T
<1>5. a \in Seq(T) /\ Len(a) = k + 1 /\ a[k + 1] = <<u, k + 1>>
      /\ \A i \in 1 .. k : a[i] = Prefix(u, k)[i]
  BY <1>1, <1>2, AppendProperties
<1>6. a = Prefix(u, k + 1)
  <2>1. ASSUME NEW i \in 1 .. k + 1 PROVE a[i] = Prefix(u, k + 1)[i]
    <3>1. CASE i \in 1 .. k
      BY <3>1, <1>3, <1>5
    <3>2. CASE i = k + 1
      BY <3>2, <1>4, <1>5
    <3> HIDE DEF a
    <3> QED BY <3>1, <3>2
  <2> HIDE DEF a
  <2> QED BY <1>1, <1>2, <1>5, <2>1, SeqEqual
<1>7. u \in Nat => Prefix(u, k) \in Seq(Nat \X Nat)
  BY DEF Prefix
<1>8. k > 0 => Prefix(u, k) # <<>>
  BY <1>2
<1> QED BY <1>2, <1>3, <1>6, <1>7, <1>8

\* What is missing from a unit is 2 bytes at least.
LEMMA PrefixOffset ==
    ASSUME script \in Scripts, NEW u \in 1 .. Len(script),
           NEW k \in 1 .. Len(script[u].lens)
    PROVE  /\ Offset(Prefix(u, k)) \in Nat
           /\ Offset(Prefix(u, k)) = Offset(Prefix(u, k - 1)) + LengthOf(<<u, k>>)
           /\ Offset(Prefix(u, k - 1)) \in Nat
           /\ Offset(Whole(u)) \in Nat
           /\ Offset(Prefix(u, k)) <= Offset(Whole(u))
           /\ k < Len(script[u].lens) => Offset(Prefix(u, k)) + 2 <= Offset(Whole(u))
<1> DEFINE N == Len(script[u].lens)
           l == [i \in 1 .. N |-> LengthOf(<<u, i>>)]
<1>1. N \in Nat \ {0} /\ \A i \in 1 .. N : LengthOf(<<u, i>>) \in Nat \ {0, 1}
  BY UnitIs
<1>2. Whole(u) = Prefix(u, N)
  BY UnitIs
<1>3. PICK s : Adds(l, N, s)
  <2>1. \A i \in 1 .. N : l[i] \in Nat
    BY <1>1
  <2> HIDE DEF l, N
  <2> QED BY <1>1, <2>1, SumExists
<1>4. ASSUME NEW m \in 0 .. N PROVE Offset(Prefix(u, m)) = s[m]
  <2>0. m \in Nat /\ \A i \in 1 .. m : i \in 1 .. N
    BY <1>1
  <2>1. Len(Prefix(u, m)) = m /\ \A i \in 1 .. m : Prefix(u, m)[i] = <<u, i>>
    BY <2>0, PrefixProperties
  <2>2. \A i \in 1 .. m : LengthOf(Prefix(u, m)[i]) \in Nat
    <3> HIDE DEF l, N
    <3> QED BY <1>1, <2>0, <2>1
  <2>3. PICK t : Adds(Lengths(Prefix(u, m)), m, t) /\ Offset(Prefix(u, m)) = t[m]
    BY <2>1, <2>2, OffsetIs
  <2>4. \A i \in 1 .. m : l[i] = Lengths(Prefix(u, m))[i]
    BY <2>1 DEF Lengths
  <2>5. \A i \in 0 .. m : s[i] = t[i]
    <3> HIDE DEF l, N
    <3> QED BY <1>1, <1>3, <2>3, <2>4, SumUnique
  <2> QED BY <2>3, <2>5
<1>5. s \in [0 .. N -> Nat] /\ \A i \in 1 .. N : s[i] = s[i - 1] + LengthOf(<<u, i>>)
  BY <1>3 DEF Adds
<1>6. \A i \in 0 .. N : \A j \in i .. N : s[i] <= s[j]
  <2>1. \A i \in 1 .. N : l[i] \in Nat
    BY <1>1
  <2> HIDE DEF l, N
  <2> QED BY <1>1, <1>3, <2>1, SumGrows
<1> HIDE DEF l, N
<1>7. k \in 0 .. N /\ k - 1 \in 0 .. N /\ N \in 0 .. N /\ k \in 1 .. N /\ N \in k .. N
  BY <1>1 DEF N
<1>8. s[k] = s[k - 1] + LengthOf(<<u, k>>) /\ s[k] \in Nat /\ s[k - 1] \in Nat /\ s[N] \in Nat /\ s[k] <= s[N]
  BY <1>5, <1>6, <1>7
<1>9. k < N => s[k] + 2 <= s[N]
  <2> SUFFICES ASSUME k < N PROVE s[k] + 2 <= s[N]
    OBVIOUS
  <2>1. N \in 1 .. N /\ N - 1 \in k .. N /\ N - 1 \in 0 .. N
    BY <1>1, <1>7
  <2>2. s[N] = s[N - 1] + LengthOf(<<u, N>>) /\ s[k] <= s[N - 1] /\ s[N - 1] \in Nat
    BY <1>5, <1>6, <1>7, <2>1
  <2>3. LengthOf(<<u, N>>) >= 2 /\ LengthOf(<<u, N>>) \in Nat
    BY <1>1, <2>1
  <2> QED BY <1>8, <2>2, <2>3
<1> QED BY <1>2, <1>4, <1>7, <1>8, <1>9 DEF N

-------------------------------------------------------------------------------
(***************************************************************************)
(* Assembly                                                                *)
(***************************************************************************)
Lens(u) == Len(script[u].lens)

\* What the packet buffer holds when nothing is missing.
AtHand ==
    /\ run # "died"
    /\ AllRead => packet = <<>>
    /\ ~AllRead =>
         /\ packet # <<>> => /\ at[2] > 1 /\ packet = Prefix(at[1], at[2] - 1)
                             /\ packet_size = Announced(at[1])
                             /\ packet_pts = script[at[1]].pts
                             /\ from <= script[at[1]].pts
         /\ at[2] > 1 /\ from <= script[at[1]].pts => packet # <<>>

AssembleInv ==
    /\ script \in Scripts /\ from \in Froms
    /\ at \in (Nat \ {0}) \X (Nat \ {0})
    /\ ~AllRead => at[2] <= Lens(at[1])
    /\ packet_pts \in Nat
    /\ clean \in BOOLEAN
    /\ clean => AtHand

LEMMA AssembleInit == Init => AssembleInv
<1> SUFFICES ASSUME Init PROVE AssembleInv
  OBVIOUS
<1>1. script \in Scripts /\ from \in Froms /\ at = <<1, 1>> /\ packet = <<>> /\ packet_pts = 0
      /\ clean = TRUE /\ run = "going"
  BY DEF Init
<1>2. ~AllRead => 1 \in 1 .. Len(script)
  BY <1>1, SpudecAssumption DEF AllRead
<1>3. ~AllRead => at[2] <= Lens(at[1])
  BY <1>1, <1>2, UnitIs DEF Lens
<1> QED BY <1>1, <1>3 DEF AssembleInv, AtHand

\* The fragment that is read next
LEMMA NextIs ==
    ASSUME AssembleInv, ~AllRead
    PROVE  /\ at[1] \in 1 .. Len(script) /\ at[2] \in 1 .. Lens(at[1]) /\ at = <<at[1], at[2]>>
           /\ Unit(at) = script[at[1]] /\ Unit(at).pts \in Nat /\ from \in Nat
           /\ Announced(at[1]) \in Nat
           /\ Announced(at[1]) \in {Offset(Whole(at[1])), Offset(Whole(at[1])) + 1}
<1>1. at[1] \in 1 .. Len(script) /\ at[2] \in 1 .. Lens(at[1]) /\ at = <<at[1], at[2]>>
  <2>1. Len(script) \in Nat
    BY SpudecAssumption DEF AssembleInv
  <2>2. at[1] \in 1 .. Len(script)
    BY <2>1 DEF AssembleInv, AllRead
  <2>3. Lens(at[1]) \in Nat
    BY <2>2, UnitIs DEF AssembleInv, Lens
  <2> QED BY <2>2, <2>3 DEF AssembleInv
<1>2. WellSent(script[at[1]])
  BY <1>1, UnitIs DEF AssembleInv
<1>3. Offset(Whole(at[1])) \in Nat
  BY <1>1, PrefixOffset DEF AssembleInv, Lens
<1>4. from \in Nat
  BY SpudecAssumption DEF AssembleInv
<1> QED BY <1>1, <1>2, <1>3, <1>4 DEF WellSent, Unit, Announced

\* Where the next one is
LEMMA AfterIs ==
    ASSUME AssembleInv, ~AllRead, at' = After(at), UNCHANGED script
    PROVE  /\ at' \in (Nat \ {0}) \X (Nat \ {0})
           /\ ~AllRead' => at'[2] <= Lens(at'[1])
           /\ at[2] < Lens(at[1]) => at' = <<at[1], at[2] + 1>> /\ ~AllRead'
           /\ at[2] = Lens(at[1]) => at' = <<at[1] + 1, 1>>
<1>1. at[1] \in 1 .. Len(script) /\ at[2] \in 1 .. Lens(at[1]) /\ Unit(at) = script[at[1]]
  BY NextIs
<1>2. Len(script) \in Nat /\ Lens(at[1]) \in Nat
  BY <1>1, SpudecAssumption, UnitIs DEF AssembleInv, Lens
<1>3. CASE at[2] < Lens(at[1])
  <2>1. at' = <<at[1], at[2] + 1>>
    BY <1>1, <1>3 DEF After, Lens
  <2> QED BY <1>1, <1>2, <1>3, <2>1 DEF AllRead
<1>4. CASE at[2] = Lens(at[1])
  <2>1. at' = <<at[1] + 1, 1>>
    BY <1>1, <1>2, <1>4 DEF After, Lens
  <2>2. ~AllRead' => at[1] + 1 \in 1 .. Len(script)
    BY <1>1, <1>2, <2>1 DEF AllRead
  <2>3. ~AllRead' => Lens(at[1] + 1) >= 1
    BY <2>2, UnitIs DEF AssembleInv, Lens
  <2> QED BY <1>1, <1>2, <1>4, <2>1, <2>3
<1> QED BY <1>1, <1>2, <1>3, <1>4

\* With nothing missing a fragment completes its unit or is put behind those before.
LEMMA CleanFragment ==
    ASSUME AssembleInv, Fragment, clean'
    PROVE  /\ UNCHANGED run
           /\ packet_pts' = script[at[1]].pts
           /\ packet_size' = Announced(at[1])
           /\ \/ /\ at[2] = Lens(at[1]) /\ packet' = <<>>
                 /\ Decode(at[1], script[at[1]].pts)
              \/ /\ at[2] < Lens(at[1]) /\ packet' = Prefix(at[1], at[2])
                 /\ UNCHANGED <<dec, titles>>
<1> DEFINE u == at[1]
           k == at[2]
           pts == script[u].pts
           L == Lens(u)
<1>1. ~AllRead /\ from <= pts /\ Assemble(at)
  BY NextIs DEF Fragment
<1>2. u \in 1 .. Len(script) /\ k \in 1 .. L /\ at = <<u, k>> /\ Unit(at) = script[u]
      /\ pts \in Nat /\ Announced(u) \in Nat
      /\ Announced(u) \in {Offset(Whole(u)), Offset(Whole(u)) + 1}
  BY <1>1, NextIs
<1>3. script \in Scripts /\ L \in Nat /\ packet_pts \in Nat /\ Gap \in Nat
  BY <1>2, UnitIs, SpudecAssumption DEF AssembleInv, Lens
<1>4. /\ Offset(Prefix(u, k)) \in Nat
      /\ Offset(Prefix(u, k)) = Offset(Prefix(u, k - 1)) + LengthOf(at)
      /\ Offset(Prefix(u, k - 1)) \in Nat /\ Offset(Whole(u)) \in Nat
      /\ Offset(Prefix(u, k)) <= Offset(Whole(u))
      /\ k < L => Offset(Prefix(u, k)) + 2 <= Offset(Whole(u))
      /\ LengthOf(at) \in Nat
  BY <1>2, <1>3, PrefixOffset, UnitIs DEF Lens
<1>5. Whole(u) = Prefix(u, L)
  BY <1>2, <1>3, UnitIs DEF Lens
<1>6. packet_pts' = pts
  BY <1>1, <1>2 DEF Assemble
\* The buffer as it is when the whole step is done.
<1>7. ASSUME Collected(Prefix(u, k), Announced(u), pts)
      PROVE  /\ packet_size' = Announced(u)
             /\ \/ k = L /\ packet' = <<>> /\ Decode(u, pts)
                \/ k < L /\ packet' = Prefix(u, k) /\ UNCHANGED <<dec, titles>>
  <2>1. CASE k = L
    <3>1. Offset(Prefix(u, k)) \in {Announced(u), Announced(u) - 1}
      BY <1>2, <1>4, <1>5, <2>1
    <3>2. Prefix(u, k) = Whole(u)
      BY <1>5, <2>1
    <3>3. Prefix(u, k)[1][1] = u
      <4>1. k \in Nat /\ 1 \in 1 .. k
        BY <1>2, <1>3
      <4>2. Prefix(u, k)[1] = <<u, 1>>
        BY <4>1, PrefixProperties
      <4> QED BY <4>2
    <3>4. Chained(Prefix(u, k)) = {u}
      BY <3>2, <3>3 DEF Chained
    <3>5. u # None
      BY <1>2 DEF None
    <3> QED BY <1>7, <2>1, <3>1, <3>4, <3>5 DEF Collected
  <2>2. CASE k < L
    <3>1. Offset(Prefix(u, k)) \notin {Announced(u), Announced(u) - 1}
      BY <1>2, <1>4, <2>2
    <3> QED BY <1>7, <2>2, <3>1 DEF Collected
  <2> QED BY <1>2, <1>3, <2>1, <2>2
<1>8. CASE Before(pts) = <<>>
  <2>1. FirstFragment(at, pts)
    BY <1>1, <1>2, <1>8 DEF Assemble
  <2>2. k = 1
    <3> SUFFICES ASSUME k # 1 PROVE FALSE
      OBVIOUS
    <3>1. clean
      BY <1>1 DEF Assemble
    <3>2. packet # <<>> /\ packet_pts = pts
      BY <1>1, <1>2, <3>1 DEF AssembleInv, AtHand
    <3>3. ~TooLong(pts)
      BY <1>2, <1>3, <3>2 DEF TooLong
    <3> QED BY <1>8, <3>2, <3>3 DEF Before
  <2>3. <<at>> = Prefix(u, k)
    BY <1>2, <2>2 DEF Prefix
  <2>4. ~(LengthOf(at) > Announced(u))
    BY <1>2, <1>4
  <2>5. Collected(<<at>>, Announced(u), pts) /\ UNCHANGED run
    BY <2>1, <2>2, <2>4 DEF FirstFragment
  <2>6. Collected(Prefix(u, k), Announced(u), pts)
    BY <2>3, <2>5
  <2> QED BY <1>6, <1>7, <2>5, <2>6
<1>9. CASE Before(pts) # <<>>
  <2>1. NextFragment(at, pts) /\ ~TooLong(pts) /\ packet # <<>>
    BY <1>1, <1>2, <1>9 DEF Assemble, Before
  <2>2. clean
    BY <1>1, <1>2, <2>1 DEF Assemble, TooLong
  <2>3. k > 1 /\ packet = Prefix(u, k - 1) /\ packet_size = Announced(u)
    BY <1>1, <2>1, <2>2 DEF AssembleInv, AtHand
  <2>4. Append(packet, at) = Prefix(u, k)
    <3>1. k - 1 \in Nat /\ (k - 1) + 1 = k
      BY <1>2, <1>3
    <3>2. Append(Prefix(u, k - 1), <<u, (k - 1) + 1>>) = Prefix(u, (k - 1) + 1)
      BY <3>1, PrefixProperties
    <3> QED BY <1>2, <2>3, <3>1, <3>2
  <2>5. ~(packet_size < Offset(packet) + LengthOf(at))
    BY <1>2, <1>4, <2>3
  <2>6. Collected(Append(packet, at), packet_size, pts) /\ UNCHANGED run
    BY <2>1, <2>5 DEF NextFragment
  <2>7. Collected(Prefix(u, k), Announced(u), pts)
    BY <2>3, <2>4, <2>6
  <2> QED BY <1>6, <1>7, <2>6, <2>7
<1> QED BY <1>8, <1>9

LEMMA AssembleStep == AssembleInv /\ [Next]_vars => AssembleInv'
<1> SUFFICES ASSUME AssembleInv, [Next]_vars PROVE AssembleInv'
  OBVIOUS
<1>1. CASE Lose
  <2>1. ~AllRead /\ at' = After(at) /\ clean' = FALSE /\ UNCHANGED <<script, from, packet_pts>>
    BY <1>1 DEF Lose, Options
  <2>2. at' \in (Nat \ {0}) \X (Nat \ {0}) /\ (~AllRead' => at'[2] <= Lens(at'[1]))
    BY <2>1, AfterIs
  <2>3. Lens(at[1])' = Lens(at'[1])
    BY <2>1 DEF Lens
  <2> QED BY <2>1, <2>2, <2>3 DEF AssembleInv, Lens
<1>2. CASE Ignore
  <2>1. ~AllRead /\ at' = After(at) /\ Unit(at).pts < from
        /\ UNCHANGED <<script, from, packet, packet_size, packet_pts, run, clean>>
    BY <1>2 DEF Ignore, Options
  <2>2. at[1] \in 1 .. Len(script) /\ at[2] \in 1 .. Lens(at[1]) /\ Unit(at) = script[at[1]]
        /\ Unit(at).pts \in Nat /\ from \in Nat
    BY <2>1, NextIs
  <2>3. /\ at' \in (Nat \ {0}) \X (Nat \ {0}) /\ (~AllRead' => at'[2] <= Lens(at'[1]))
        /\ at[2] < Lens(at[1]) => at' = <<at[1], at[2] + 1>> /\ ~AllRead'
        /\ at[2] = Lens(at[1]) => at' = <<at[1] + 1, 1>>
    BY <2>1, AfterIs
  <2>4. clean => packet = <<>>
    BY <2>1, <2>2 DEF AssembleInv, AtHand
  <2>5. at[2] < Lens(at[1]) \/ at[2] = Lens(at[1])
    <3>1. Lens(at[1]) \in Nat
      BY <2>2, UnitIs DEF AssembleInv, Lens
    <3> QED BY <2>2, <3>1
  <2>6. ~AllRead' => ~(at'[2] > 1 /\ from' <= script'[at'[1]].pts)
    BY <2>1, <2>2, <2>3, <2>5
  <2>7. clean' => AtHand'
    BY <2>1, <2>4, <2>6 DEF AssembleInv, AtHand
  <2> QED BY <2>1, <2>3, <2>7 DEF AssembleInv, Lens
<1>3. CASE Fragment
  <2>1. ~AllRead /\ at' = After(at) /\ UNCHANGED <<script, from>> /\ Assemble(at) /\ Unit(at).pts >= from
    BY <1>3 DEF Fragment, Options
  <2>2. at[1] \in 1 .. Len(script) /\ at[2] \in 1 .. Lens(at[1]) /\ Unit(at) = script[at[1]]
        /\ Unit(at).pts \in Nat /\ from \in Nat
    BY <2>1, NextIs
  <2>3. /\ at' \in (Nat \ {0}) \X (Nat \ {0}) /\ (~AllRead' => at'[2] <= Lens(at'[1]))
        /\ at[2] < Lens(at[1]) => at' = <<at[1], at[2] + 1>> /\ ~AllRead'
        /\ at[2] = Lens(at[1]) => at' = <<at[1] + 1, 1>>
    BY <2>1, AfterIs
  <2>4. packet_pts' \in Nat /\ clean' \in BOOLEAN
    BY <2>1, <2>2 DEF Assemble, AssembleInv
  <2>5. ASSUME clean' PROVE AtHand'
    <3>1. /\ UNCHANGED run
          /\ packet_pts' = script[at[1]].pts
          /\ packet_size' = Announced(at[1])
          /\ \/ at[2] = Lens(at[1]) /\ packet' = <<>>
             \/ at[2] < Lens(at[1]) /\ packet' = Prefix(at[1], at[2])
      BY <1>3, <2>5, CleanFragment
    <3>2. run' # "died"
      BY <1>3, <3>1 DEF Fragment
    <3>3. CASE at[2] = Lens(at[1]) /\ packet' = <<>>
      <4>1. ~(at'[2] > 1)
        BY <2>3, <3>3
      <4> QED BY <3>2, <3>3, <4>1 DEF AtHand
    <3>4. CASE at[2] < Lens(at[1]) /\ packet' = Prefix(at[1], at[2])
      <4>1. at' = <<at[1], at[2] + 1>> /\ ~AllRead'
        BY <2>3, <3>4
      <4>2. at'[1] = at[1] /\ at'[2] > 1 /\ at'[2] - 1 = at[2]
        BY <2>2, <4>1
      <4>3. Announced(at[1])' = Announced(at[1])
        BY <2>1, <4>2 DEF Announced, Offset, Whole, LengthOf, Unit
      <4>4. Prefix(at'[1], at'[2] - 1) = packet' /\ packet' # <<>>
        BY <2>2, <3>4, <4>2, PrefixProperties
      <4> QED BY <2>1, <2>2, <3>1, <3>2, <4>1, <4>2, <4>3, <4>4 DEF AtHand
    <3> QED BY <3>1, <3>3, <3>4
  <2> QED BY <2>1, <2>3, <2>4, <2>5 DEF AssembleInv, Lens
<1>4. CASE BadStream
  <2>1. run' = "failed" /\ UNCHANGED <<script, from, at, packet, packet_size, packet_pts, clean>>
    BY <1>4 DEF BadStream, Options
  <2>2. UNCHANGED AllRead /\ Announced(at[1])' = Announced(at[1]) /\ Lens(at[1])' = Lens(at[1])
    BY <2>1 DEF AllRead, Announced, Offset, Whole, LengthOf, Unit, Lens
  <2> QED BY <2>1, <2>2 DEF AssembleInv, AtHand
<1>5. CASE End
  <2>1. run' = "ended" /\ UNCHANGED <<script, from, at, packet, packet_size, packet_pts, clean>>
    BY <1>5 DEF End, Options
  <2>2. UNCHANGED AllRead /\ Announced(at[1])' = Announced(at[1]) /\ Lens(at[1])' = Lens(at[1])
    BY <2>1 DEF AllRead, Announced, Offset, Whole, LengthOf, Unit, Lens
  <2> QED BY <2>1, <2>2 DEF AssembleInv, AtHand
<1>6. CASE UNCHANGED vars
  <2>1. UNCHANGED <<run, script, from, at, packet, packet_size, packet_pts, clean>>
    BY <1>6 DEF vars
  <2>2. UNCHANGED AllRead /\ Announced(at[1])' = Announced(at[1]) /\ Lens(at[1])' = Lens(at[1])
    BY <2>1 DEF AllRead, Announced, Offset, Whole, LengthOf, Unit, Lens
  <2> QED BY <2>1, <2>2 DEF AssembleInv, AtHand
<1> QED BY <1>1, <1>2, <1>3, <1>4, <1>5, <1>6 DEF Next

LEMMA AssembleInvHolds == Spec => []AssembleInv
  BY AssembleInit, AssembleStep, PTL DEF Spec

\* Lost fragments are forgotten at the next long gap (spudec_assemble): from there
\* on the buffer holds the first fragments of the unit that is being read and
\* nothing else, and the assertion on its size holds.
THEOREM ForgetsTheLost == Spec => []Resynchronised
<1>1. AssembleInv => Resynchronised
  <2> SUFFICES ASSUME AssembleInv, clean PROVE Resynchronised
    BY DEF Resynchronised
  <2>1. AtHand
    BY DEF AssembleInv
  <2> SUFFICES ASSUME packet # <<>>
               PROVE  ~AllRead /\ packet = SubSeq(Whole(at[1]), 1, at[2] - 1)
    BY <2>1 DEF Resynchronised, AtHand
  <2>2. ~AllRead /\ at[2] > 1 /\ packet = Prefix(at[1], at[2] - 1)
    BY <2>1 DEF AtHand
  <2>3. at[1] \in 1 .. Len(script) /\ at[2] \in 1 .. Lens(at[1])
    BY <2>2, NextIs
  <2>4. Whole(at[1]) = Prefix(at[1], Lens(at[1])) /\ Lens(at[1]) \in Nat
    BY <2>3, UnitIs DEF AssembleInv, Lens
  <2>5. SubSeq(Prefix(at[1], Lens(at[1])), 1, at[2] - 1) = Prefix(at[1], at[2] - 1)
    BY <2>2, <2>3, <2>4 DEF Prefix
  <2> QED BY <2>2, <2>4, <2>5
<1> QED BY <1>1, AssembleInvHolds, PTL

-------------------------------------------------------------------------------
(***************************************************************************)
(* Sequences put together                                                  *)
(***************************************************************************)
\* The length of what the first k sequences are together
At(ss, k) == Len(FlattenSeq([i \in 1 .. k |-> ss[i]]))
LenOf(ss) == [k \in 1 .. Len(ss) |-> Len(ss[k])]

\* f[i] is the first i sequences together.
Flat(ss, n, f) == f[1] = ss[1] /\ \A i \in 2 .. n : f[i] = f[i - 1] \o ss[i]

LEMMA FlatExists ==
    ASSUME NEW S, NEW ss, NEW n \in Nat, n > 0, \A i \in 1 .. n : ss[i] \in Seq(S)
    PROVE  \E f \in [1 .. n -> Seq(S)] : Flat(ss, n, f)
<1> DEFINE M == {m \in Nat : m + 1 <= n => \E f \in [1 .. m + 1 -> Seq(S)] : Flat(ss, m + 1, f)}
<1>1. 0 \in M
  <2> DEFINE f == [i \in 1 .. 1 |-> ss[1]]
  <2>1. ss[1] \in Seq(S)
    OBVIOUS
  <2>2. f \in [1 .. 1 -> Seq(S)] /\ f[1] = ss[1]
    BY <2>1
  <2> HIDE DEF f
  <2>3. Flat(ss, 1, f)
    BY <2>2 DEF Flat
  <2> QED BY <2>2, <2>3
<1>2. ASSUME NEW m \in Nat, m \in M PROVE m + 1 \in M
  <2> SUFFICES ASSUME m + 2 <= n
               PROVE  \E f \in [1 .. m + 2 -> Seq(S)] : Flat(ss, m + 2, f)
    OBVIOUS
  <2>1. PICK f \in [1 .. m + 1 -> Seq(S)] : Flat(ss, m + 1, f)
    BY <1>2
  <2> HIDE DEF M
  <2> DEFINE h == [i \in 1 .. m + 2 |-> IF i = m + 2 THEN f[m + 1] \o ss[m + 2] ELSE f[i]]
  <2>2. f[m + 1] \in Seq(S) /\ ss[m + 2] \in Seq(S)
    BY <2>1
  <2>3. f[m + 1] \o ss[m + 2] \in Seq(S)
    BY <2>2
  <2>4. h \in [1 .. m + 2 -> Seq(S)]
    BY <2>1, <2>3
  <2>5. h[1] = ss[1]
    BY <2>1 DEF Flat
  <2>6. ASSUME NEW i \in 2 .. m + 2 PROVE h[i] = h[i - 1] \o ss[i]
    <3>1. i - 1 \in 1 .. m + 1 /\ i - 1 # m + 2
      OBVIOUS
    <3>2. h[i - 1] = f[i - 1]
      BY <3>1
    <3>3. CASE i = m + 2
      <4>1. i \in 1 .. m + 2 /\ i - 1 = m + 1
        BY <3>3
      <4>2. h[i] = f[m + 1] \o ss[m + 2]
        BY <3>3, <4>1
      <4> HIDE DEF h
      <4> QED BY <3>2, <3>3, <4>1, <4>2
    <3>4. CASE i # m + 2
      <4>1. h[i] = f[i] /\ i \in 2 .. m + 1
        BY <3>4
      <4>2. f[i] = f[i - 1] \o ss[i]
        BY <2>1, <4>1 DEF Flat
      <4> HIDE DEF h
      <4> QED BY <3>2, <4>1, <4>2
    <3> QED BY <3>3, <3>4
  <2> HIDE DEF h
  <2>7. Flat(ss, m + 2, h)
    BY <2>5, <2>6 DEF Flat
  <2> QED BY <2>4, <2>7
<1> HIDE DEF M
<1>3. n - 1 \in M /\ (n - 1) + 1 = n
  BY <1>1, <1>2, SetInduction
<1> QED BY <1>3 DEF M

\* Where the parts of such a sequence are
FlatRight(ss, s, m, r) ==
    /\ Len(r) = s[m]
    /\ \A k \in 1 .. m : \A i \in 1 .. Len(ss[k]) : r[s[k - 1] + i] = ss[k][i]

LEMMA Within ==
    ASSUME NEW a \in Nat, NEW b \in Nat, NEW c \in Nat, NEW l \in Nat, NEW i \in 1 .. l,
           b = a + l, b <= c
    PROVE  a + i \in 1 .. c
  OBVIOUS

LEMMA FlatStep ==
    ASSUME NEW S, NEW ss, NEW n \in Nat, \A i \in 1 .. n : ss[i] \in Seq(S),
           NEW s, Adds(LenOf(ss), n, s), Len(ss) = n,
           NEW m \in Nat, m + 1 <= n, NEW r \in Seq(S), FlatRight(ss, s, m, r)
    PROVE  FlatRight(ss, s, m + 1, r \o ss[m + 1])
<1> DEFINE t == ss[m + 1]
           q == r \o t
<1>0. m + 1 \in 1 .. n /\ m \in 0 .. n /\ m + 1 \in 0 .. n /\ (m + 1) - 1 = m /\ t \in Seq(S) /\ Len(t) \in Nat
  OBVIOUS
<1>1. \A i \in 1 .. n : Len(ss[i]) \in Nat /\ LenOf(ss)[i] = Len(ss[i])
  BY DEF LenOf
<1>2. s \in [0 .. n -> Nat] /\ s[0] = 0 /\ \A k \in 1 .. n : s[k] = s[k - 1] + Len(ss[k])
  BY <1>1 DEF Adds
<1>3. s[m + 1] = s[m] + Len(t) /\ s[m] \in Nat /\ s[m + 1] \in Nat /\ Len(r) = s[m]
  BY <1>0, <1>2 DEF FlatRight
<1>4. q \in Seq(S) /\ Len(q) = s[m + 1]
      /\ \A i \in 1 .. s[m + 1] : q[i] = IF i <= s[m] THEN r[i] ELSE t[i - s[m]]
  <2>1. q \in Seq(S) /\ Len(q) = Len(r) + Len(t)
        /\ \A i \in 1 .. Len(r) + Len(t) : q[i] = IF i <= Len(r) THEN r[i] ELSE t[i - Len(r)]
    <3> HIDE DEF t
    <3> QED BY <1>0, ConcatProperties
  <2> HIDE DEF t, q
  <2> QED BY <1>3, <2>1
<1>5. ASSUME NEW k \in 1 .. m + 1, NEW i \in 1 .. Len(ss[k]) PROVE q[s[k - 1] + i] = ss[k][i]
  <2>1. k \in 1 .. n /\ k - 1 \in 0 .. n /\ Len(ss[k]) \in Nat
    BY <1>0, <1>1
  <2>2. s[k] = s[k - 1] + Len(ss[k]) /\ s[k - 1] \in Nat /\ s[k] \in Nat
    BY <1>2, <2>1
  <2>3. CASE k = m + 1
    <3>1. s[k - 1] = s[m] /\ s[k - 1] + i \in 1 .. s[m + 1] /\ ~(s[k - 1] + i <= s[m])
          /\ (s[k - 1] + i) - s[m] = i
      BY <1>0, <1>3, <2>1, <2>2, <2>3
    <3> HIDE DEF q
    <3> QED BY <1>4, <2>3, <3>1
  <2>4. CASE k # m + 1
    <3>1. k \in 1 .. m /\ k \in 0 .. n /\ m \in k .. n
      BY <1>0, <2>4
    <3>2. s[k] <= s[m]
      BY <1>1, <3>1, SumGrows
    <3>3. s[k - 1] + i \in 1 .. s[m + 1] /\ s[k - 1] + i <= s[m]
      <4> HIDE DEF t, q
      <4>1. s[k - 1] + i \in 1 .. s[m]
        BY <1>3, <2>1, <2>2, <3>2, Within
      <4>2. s[m] <= s[m + 1]
        BY <1>0, <1>3
      <4> QED BY <1>3, <4>1, <4>2
    <3>4. r[s[k - 1] + i] = ss[k][i]
      BY <3>1 DEF FlatRight
    <3> HIDE DEF q
    <3> QED BY <1>4, <3>3, <3>4
  <2> QED BY <2>3, <2>4
<1> HIDE DEF q
<1>6. FlatRight(ss, s, m + 1, q)
  BY <1>4, <1>5 DEF FlatRight
<1> QED BY <1>6 DEF q

\* What FlattenSeq computes, by its recursion
LEMMA FlattenIs ==
    ASSUME NEW S, NEW ss \in Seq(Seq(S)), NEW s, Adds(LenOf(ss), Len(ss), s)
    PROVE  /\ FlattenSeq(ss) \in Seq(S)
           /\ FlatRight(ss, s, Len(ss), FlattenSeq(ss))
<1>0. PICK n \in Nat : n = Len(ss)
  OBVIOUS
<1>1. \A k \in 1 .. n : ss[k] \in Seq(S)
  BY <1>0
<1>2. CASE n = 0
  <2>1. FlattenSeq(ss) = ss
    BY <1>0, <1>2 DEF FlattenSeq
  <2>2. ss = <<>> /\ Len(ss) = 0
    BY <1>0, <1>2, EmptySeq
  <2>3. s[0] = 0
    BY DEF Adds
  <2>4. ss \in Seq(S)
    BY <2>2
  <2> QED BY <2>1, <2>2, <2>3, <2>4 DEF FlatRight
<1>3. CASE n # 0
  <2> DEFINE F(f) == [i \in 1 .. n |-> IF i = 1 THEN ss[i] ELSE f[i - 1] \o ss[i]]
             g == CHOOSE f : f = F(f)
  <2>1. FlattenSeq(ss) = g[n]
    BY <1>0, <1>3 DEF FlattenSeq
  <2>2. PICK e \in [1 .. n -> Seq(S)] : Flat(ss, n, e)
    <3>1. n > 0
      BY <1>3
    <3> QED BY <1>1, <3>1, FlatExists
  <2>3. e = F(e)
    <3>1. \A i \in 1 .. n : e[i] = IF i = 1 THEN ss[i] ELSE e[i - 1] \o ss[i]
      <4>1. \A i \in 1 .. n : i # 1 => i \in 2 .. n
        OBVIOUS
      <4> QED BY <2>2, <4>1 DEF Flat
    <3> QED BY <3>1
  <2>4. g = F(g)
    <3> HIDE DEF F
    <3> QED BY <2>3
  <2> HIDE DEF g
  <2>5. \A i \in 1 .. n : g[i] = IF i = 1 THEN ss[i] ELSE g[i - 1] \o ss[i]
    BY <2>4
  <2> HIDE DEF F
  <2> DEFINE I == {m \in Nat : m + 1 <= n => g[m + 1] \in Seq(S) /\ FlatRight(ss, s, m + 1, g[m + 1])}
  <2>6. s[0] = 0 /\ s[1] = s[0] + Len(ss[1]) /\ Len(ss[1]) \in Nat /\ g[1] = ss[1] /\ ss[1] \in Seq(S)
    <3>1. 1 \in 1 .. n
      BY <1>3
    <3>2. LenOf(ss)[1] = Len(ss[1]) /\ ss[1] \in Seq(S)
      BY <1>0, <1>1, <3>1 DEF LenOf
    <3> QED BY <1>0, <2>5, <3>1, <3>2 DEF Adds
  <2>7. 0 \in I
    <3>1. FlatRight(ss, s, 1, g[1])
      BY <2>6 DEF FlatRight
    <3> QED BY <2>6, <3>1
  <2>8. ASSUME NEW m \in Nat, m \in I PROVE m + 1 \in I
    <3> SUFFICES ASSUME m + 2 <= n
                 PROVE  g[m + 2] \in Seq(S) /\ FlatRight(ss, s, m + 2, g[m + 2])
      OBVIOUS
    <3>1. g[m + 1] \in Seq(S) /\ FlatRight(ss, s, m + 1, g[m + 1])
      BY <2>8
    <3> HIDE DEF I
    <3>2. m + 2 \in 1 .. n /\ m + 2 # 1 /\ (m + 2) - 1 = m + 1 /\ (m + 1) + 1 = m + 2 /\ m + 1 \in Nat
      OBVIOUS
    <3>3. g[m + 2] = g[m + 1] \o ss[m + 2] /\ ss[m + 2] \in Seq(S)
      BY <1>1, <2>5, <3>2
    <3>4. g[m + 2] \in Seq(S)
      BY <3>1, <3>3
    <3>5. FlatRight(ss, s, (m + 1) + 1, g[m + 1] \o ss[(m + 1) + 1])
      BY <1>0, <1>1, <3>1, <3>2, FlatStep
    <3> QED BY <3>2, <3>3, <3>4, <3>5
  <2> HIDE DEF I
  <2>9. n - 1 \in I /\ (n - 1) + 1 = n
    <3>1. Nat \subseteq I
      BY <2>7, <2>8, SetInduction
    <3>2. n - 1 \in Nat
      BY <1>3
    <3> QED BY <3>1, <3>2
  <2>10. g[n] \in Seq(S) /\ FlatRight(ss, s, n, g[n])
    BY <2>9 DEF I
  <2> QED BY <1>0, <2>1, <2>10
<1> QED BY <1>2, <1>3

\* The same with positions that need no sum
LEMMA FlattenAt ==
    ASSUME NEW S, NEW ss \in Seq(Seq(S))
    PROVE  /\ FlattenSeq(ss) \in Seq(S)
           /\ Len(FlattenSeq(ss)) = At(ss, Len(ss))
           /\ At(ss, 0) = 0
           /\ \A k \in 0 .. Len(ss) : At(ss, k) \in Nat /\ At(ss, k) <= At(ss, Len(ss))
           /\ \A k \in 1 .. Len(ss) : /\ At(ss, k) = At(ss, k - 1) + Len(ss[k])
                                      /\ \A i \in 1 .. Len(ss[k]) :
                                           FlattenSeq(ss)[At(ss, k - 1) + i] = ss[k][i]
<1> DEFINE N == Len(ss)
<1>0. N \in Nat /\ \A k \in 1 .. N : ss[k] \in Seq(S) /\ Len(ss[k]) \in Nat
  OBVIOUS
<1>1. \A k \in 1 .. N : LenOf(ss)[k] \in Nat
  BY <1>0 DEF LenOf
<1>2. PICK s : Adds(LenOf(ss), N, s)
  BY <1>0, <1>1, SumExists
<1>3. ASSUME NEW k \in 0 .. N PROVE At(ss, k) = s[k]
  <2> DEFINE tt == [i \in 1 .. k |-> ss[i]]
  <2>1. k \in Nat /\ \A i \in 1 .. k : i \in 1 .. N
    BY <1>0
  <2>2. tt \in Seq(Seq(S)) /\ Len(tt) = k /\ \A i \in 1 .. k : tt[i] = ss[i]
    BY <1>0, <2>1
  <2> HIDE DEF tt
  <2>3. \A i \in 1 .. k : LenOf(tt)[i] = LenOf(ss)[i] /\ LenOf(tt)[i] \in Nat
    BY <1>0, <2>1, <2>2 DEF LenOf
  <2>4. PICK t : Adds(LenOf(tt), k, t)
    BY <2>1, <2>3, SumExists
  <2>5. Len(FlattenSeq(tt)) = t[k]
    BY <2>2, <2>4, FlattenIs DEF FlatRight
  <2>6. \A i \in 0 .. k : s[i] = t[i]
    <3>1. \A i \in 1 .. k : LenOf(ss)[i] = LenOf(tt)[i]
      BY <2>3
    <3>2. k <= N
      BY <1>0
    <3> QED BY <1>0, <1>2, <2>1, <2>4, <3>1, <3>2, SumUnique
  <2> QED BY <2>1, <2>5, <2>6 DEF At, tt
<1>4. /\ FlattenSeq(ss) \in Seq(S)
      /\ Len(FlattenSeq(ss)) = s[Len(ss)]
      /\ \A k \in 1 .. Len(ss) : \A i \in 1 .. Len(ss[k]) : FlattenSeq(ss)[s[k - 1] + i] = ss[k][i]
  BY <1>2, FlattenIs DEF FlatRight
<1>5. s \in [0 .. N -> Nat] /\ s[0] = 0 /\ \A k \in 1 .. N : s[k] = s[k - 1] + Len(ss[k])
  BY <1>2 DEF Adds, LenOf
<1>6. \A k \in 0 .. N : s[k] <= s[N]
  BY <1>0, <1>1, <1>2, SumGrows
<1>7. 0 \in 0 .. N /\ N \in 0 .. N /\ \A k \in 1 .. N : k \in 0 .. N /\ k - 1 \in 0 .. N
  BY <1>0
<1> QED BY <1>3, <1>4, <1>5, <1>6, <1>7

-------------------------------------------------------------------------------
(***************************************************************************)
(* The run-length code                                                     *)
(***************************************************************************)
Run == (0 .. 255) \X (0 .. 3)
Nibble == 0 .. 15

LEMMA RunIs ==
    ASSUME NEW r \in Run
    PROVE  r[1] \in 0 .. 255 /\ r[2] \in 0 .. 3 /\ r[1] \in Nat /\ r[2] \in Nat
  BY DEF Run

LEMMA RunCodeIs ==
    ASSUME NEW r \in Run
    PROVE  RunCode(r) \in Seq(Nibble) /\ Len(RunCode(r)) \in 1 .. 4
<1>1. r[1] \in 0 .. 255 /\ r[2] \in 0 .. 3
  BY DEF Run
<1> DEFINE n == 4 * r[1] + r[2]
<1>2. n \in 0 .. 1023
  BY <1>1
<1>3. CASE r[1] \in 1 .. 3
  <2>1. RunCode(r) = <<n>> /\ n \in Nibble
    BY <1>1, <1>3 DEF RunCode, Nibble
  <2> QED BY <2>1
<1>4. CASE r[1] \in 4 .. 15
  <2>1. RunCode(r) = <<n \div 16, n % 16>> /\ n \div 16 \in Nibble /\ n % 16 \in Nibble
    BY <1>1, <1>4 DEF RunCode, Nibble
  <2> QED BY <2>1
<1>5. CASE r[1] \in 16 .. 63
  <2>1. RunCode(r) = <<0, n \div 16, n % 16>> /\ n \div 16 \in Nibble /\ n % 16 \in Nibble /\ 0 \in Nibble
    BY <1>1, <1>5 DEF RunCode, Nibble
  <2> QED BY <2>1
<1>6. CASE r[1] \notin 1 .. 3 /\ r[1] \notin 4 .. 15 /\ r[1] \notin 16 .. 63
  <2>1. RunCode(r) = <<0, n \div 256, (n \div 16) % 16, n % 16>>
    BY <1>6 DEF RunCode
  <2>2. 0 \in Nibble /\ n \div 256 \in Nibble /\ (n \div 16) % 16 \in Nibble /\ n % 16 \in Nibble
    BY <1>2 DEF Nibble
  <2> QED BY <2>1, <2>2
<1> QED BY <1>3, <1>4, <1>5, <1>6

\* The digits of the number of a long run
LEMMA FourDigits ==
    ASSUME NEW m \in 0 .. 1023, m \in 0 .. 3 \/ m \in 256 .. 1023,
           NEW b, NEW c, NEW d, b = m \div 256, c = (m \div 16) % 16, d = m % 16
    PROVE  /\ b \in 0 .. 3 /\ c \in 0 .. 15 /\ d \in 0 .. 15
           /\ m = 256 * b + 16 * c + d
  OBVIOUS

\* The decoder reads the code of a run as it was written.
Reads(data, p, code) == \A i \in 1 .. Len(code) : NibbleAt(data, p + (i - 1)) = code[i]

LEMMA CodeAtIs ==
    ASSUME NEW r \in Run, NEW data, NEW p \in Nat, Reads(data, p, RunCode(r))
    PROVE  CodeAt(data, p) = <<Len(RunCode(r)), 4 * r[1] + r[2]>>
<1>1. r[1] \in 0 .. 255 /\ r[2] \in 0 .. 3
  BY DEF Run
<1> DEFINE a(i) == NibbleAt(data, p + i)
<1>0. PICK m : m = 4 * r[1] + r[2]
  OBVIOUS
<1>2. m \in 0 .. 1023
  BY <1>1, <1>0
<1>7. CodeAt(data, p) =
        LET n1 == a(0)
            n2 == 16 * n1 + a(1)
            n3 == 16 * n2 + a(2)
            n4 == 16 * n3 + a(3)
        IN  IF n1 >= 4 THEN <<1, n1>>
            ELSE IF n2 >= 16 THEN <<2, n2>>
            ELSE IF n3 >= 64 THEN <<3, n3>>
            ELSE <<4, n4>>
  <2>1. p + 0 = p
    OBVIOUS
  <2> QED BY <2>1 DEF CodeAt
<1>8. \A i \in 1 .. Len(RunCode(r)) : a(i - 1) = RunCode(r)[i]
  BY DEF Reads
<1>9. 0 = 1 - 1 /\ 1 = 2 - 1 /\ 2 = 3 - 1 /\ 3 = 4 - 1
  OBVIOUS
<1> HIDE DEF a
<1>3. CASE r[1] \in 1 .. 3
  <2>1. RunCode(r) = <<m>> /\ m >= 4
    BY <1>0, <1>1, <1>3 DEF RunCode
  <2>2. a(0) = m
    BY <2>1, <1>8, <1>9
  <2> QED BY <1>0, <1>7, <2>1, <2>2
<1>4. CASE r[1] \in 4 .. 15
  <2>1. RunCode(r) = <<m \div 16, m % 16>>
    BY <1>0, <1>1, <1>4 DEF RunCode
  <2>2. m \in 16 .. 63
    BY <1>0, <1>1, <1>4
  <2>3. a(0) = m \div 16 /\ a(1) = m % 16
    BY <2>1, <1>8, <1>9
  <2>4. ~(a(0) >= 4) /\ 16 * a(0) + a(1) = m
    BY <2>2, <2>3
  <2>5. CodeAt(data, p) = <<2, m>>
    BY <1>7, <2>2, <2>4
  <2> QED BY <1>0, <2>1, <2>5
<1>5. CASE r[1] \in 16 .. 63
  <2>1. RunCode(r) = <<0, m \div 16, m % 16>>
    BY <1>0, <1>1, <1>5 DEF RunCode
  <2>2. m \in 64 .. 255
    BY <1>0, <1>1, <1>5
  <2>3. a(0) = 0 /\ a(1) = m \div 16 /\ a(2) = m % 16
    BY <2>1, <1>8, <1>9
  <2>4. ~(a(0) >= 4) /\ ~(16 * a(0) + a(1) >= 16) /\ 16 * (16 * a(0) + a(1)) + a(2) = m
    BY <2>2, <2>3
  <2>5. CodeAt(data, p) = <<3, m>>
    BY <1>7, <2>2, <2>4
  <2> QED BY <1>0, <2>1, <2>5
<1>6. CASE r[1] \notin 1 .. 3 /\ r[1] \notin 4 .. 15 /\ r[1] \notin 16 .. 63
  <2>1. RunCode(r) = <<0, m \div 256, (m \div 16) % 16, m % 16>>
    BY <1>0, <1>6 DEF RunCode
  <2>2. m \in 0 .. 3 \/ m \in 256 .. 1023
    BY <1>0, <1>1, <1>6
  <2>3. a(0) = 0 /\ a(1) = m \div 256 /\ a(2) = (m \div 16) % 16 /\ a(3) = m % 16
    BY <2>1, <1>8, <1>9
  <2>0. PICK b, c, d : b = m \div 256 /\ c = (m \div 16) % 16 /\ d = m % 16
    OBVIOUS
  <2>4. b \in 0 .. 3 /\ c \in 0 .. 15 /\ d \in 0 .. 15 /\ m = 256 * b + 16 * c + d
    BY <1>2, <2>2, <2>0, FourDigits
  <2>5. ~(0 >= 4) /\ ~(16 * 0 + b >= 16) /\ ~(16 * (16 * 0 + b) + c >= 64)
        /\ 16 * (16 * (16 * 0 + b) + c) + d = m
    BY <2>4
  <2>7. a(0) = 0 /\ a(1) = b /\ a(2) = c /\ a(3) = d
    BY <2>0, <2>3
  <2>6. CodeAt(data, p) = <<4, m>>
    BY <1>7, <2>5, <2>7
  <2> QED BY <1>0, <2>1, <2>6
<1> QED BY <1>3, <1>4, <1>5, <1>6

\* The codes of a line, and how far the first k of them reach
Codes(line) == [k \in 1 .. Len(line) |-> RunCode(line[k])]
CodeTo(line, k) == At(Codes(line), k)

LEMMA LineCodeIs ==
    ASSUME NEW line \in Seq(Run)
    PROVE  /\ LineCode(line) \in Seq(Nibble) /\ Len(LineCode(line)) % 2 = 0
           /\ CodeTo(line, 0) = 0
           /\ \A k \in 0 .. Len(line) : CodeTo(line, k) \in Nat /\ CodeTo(line, k) <= Len(LineCode(line))
           /\ Len(LineCode(line)) = CodeTo(line, Len(line)) + (CodeTo(line, Len(line)) % 2)
           /\ \A k \in 1 .. Len(line) :
                /\ CodeTo(line, k) = CodeTo(line, k - 1) + Len(RunCode(line[k]))
                /\ \A i \in 1 .. Len(RunCode(line[k])) :
                     LineCode(line)[CodeTo(line, k - 1) + i] = RunCode(line[k])[i]
<1> DEFINE cs == Codes(line)
           body == FlattenSeq(cs)
<1>0. Len(line) \in Nat /\ \A k \in 1 .. Len(line) : line[k] \in Run
  OBVIOUS
<1>1. cs \in Seq(Seq(Nibble)) /\ Len(cs) = Len(line) /\ \A k \in 1 .. Len(line) : cs[k] = RunCode(line[k])
  <2>1. \A k \in 1 .. Len(line) : RunCode(line[k]) \in Seq(Nibble)
    BY <1>0, RunCodeIs
  <2> QED BY <1>0, <2>1 DEF Codes
<1> HIDE DEF cs
<1>2. /\ body \in Seq(Nibble)
      /\ Len(body) = At(cs, Len(line))
      /\ At(cs, 0) = 0
      /\ \A k \in 0 .. Len(line) : At(cs, k) \in Nat /\ At(cs, k) <= At(cs, Len(line))
      /\ \A k \in 1 .. Len(line) : /\ At(cs, k) = At(cs, k - 1) + Len(RunCode(line[k]))
                                   /\ \A i \in 1 .. Len(RunCode(line[k])) :
                                        body[At(cs, k - 1) + i] = RunCode(line[k])[i]
  <2>1. /\ body \in Seq(Nibble)
        /\ Len(body) = At(cs, Len(cs))
        /\ At(cs, 0) = 0
        /\ \A k \in 0 .. Len(cs) : At(cs, k) \in Nat /\ At(cs, k) <= At(cs, Len(cs))
        /\ \A k \in 1 .. Len(cs) : /\ At(cs, k) = At(cs, k - 1) + Len(cs[k])
                                   /\ \A i \in 1 .. Len(cs[k]) : body[At(cs, k - 1) + i] = cs[k][i]
    BY <1>1, FlattenAt
  <2> HIDE DEF body
  <2> QED BY <1>1, <2>1
<1> HIDE DEF body
<1>3. LineCode(line) = IF Len(body) % 2 = 1 THEN Append(body, 0) ELSE body
  BY DEF LineCode, body, cs, Codes
<1>4. /\ LineCode(line) \in Seq(Nibble)
      /\ Len(LineCode(line)) = Len(body) + (Len(body) % 2)
      /\ \A i \in 1 .. Len(body) : LineCode(line)[i] = body[i]
  <2>1. Len(body) \in Nat /\ 0 \in Nibble
    BY <1>2 DEF Nibble
  <2>2. CASE Len(body) % 2 = 1
    <3>1. LineCode(line) = Append(body, 0)
      BY <1>3, <2>2
    <3> QED BY <1>2, <2>1, <2>2, <3>1, AppendProperties
  <2>3. CASE Len(body) % 2 # 1
    <3>1. LineCode(line) = body /\ Len(body) % 2 = 0
      BY <1>3, <2>1, <2>3
    <3> QED BY <1>2, <2>1, <3>1
  <2> QED BY <2>2, <2>3
<1>5. Len(body) \in Nat
  BY <1>2
<1>6. ASSUME NEW k \in 1 .. Len(line), NEW i \in 1 .. Len(RunCode(line[k]))
      PROVE  LineCode(line)[At(cs, k - 1) + i] = RunCode(line[k])[i]
  <2>1. k - 1 \in 0 .. Len(line) /\ k \in 0 .. Len(line) /\ Len(RunCode(line[k])) \in Nat
    BY <1>0, RunCodeIs
  <2>2. At(cs, k - 1) + i \in 1 .. Len(body)
    BY <1>2, <1>5, <2>1, Within
  <2> QED BY <1>2, <1>4, <2>2
<1>7. Len(LineCode(line)) % 2 = 0 /\ Len(LineCode(line)) >= Len(body) /\ Len(LineCode(line)) \in Nat
  BY <1>4, <1>5
<1>8. \A k : At(cs, k) = CodeTo(line, k)
  BY DEF cs, CodeTo
<1>9. ASSUME NEW k \in 0 .. Len(line)
      PROVE  CodeTo(line, k) \in Nat /\ CodeTo(line, k) <= Len(LineCode(line))
  <2>1. CodeTo(line, k) \in Nat /\ CodeTo(line, k) <= Len(body)
    BY <1>2, <1>8
  <2> QED BY <1>5, <1>7, <2>1
<1> QED BY <1>2, <1>4, <1>6, <1>7, <1>8, <1>9

LEMMA Even ==
    ASSUME NEW a \in Nat, NEW b \in Nat, a % 2 = 0, b % 2 = 0
    PROVE  (a + b) % 2 = 0 /\ 2 * (4 + (a \div 2)) = 8 + a /\ 4 + (a \div 2) \in Nat
  OBVIOUS

LEMMA Halves ==
    ASSUME NEW p \in Nat, NEW c \in Nat, p < 2 * c
    PROVE  p \div 2 < c
  OBVIOUS

\* The lines of a field of a unit, coded
Lines(u) == script[u].lines
LinesIn(u, odd) == (Len(Lines(u)) + 1 - odd) \div 2
Field(u, odd) == [j \in 1 .. LinesIn(u, odd) |-> LineCode(Lines(u)[2 * j - 1 + odd])]

LEMMA LinesAre ==
    ASSUME script \in Scripts, NEW u \in 1 .. Len(script)
    PROVE  /\ Len(Lines(u)) \in Nat /\ Len(Lines(u)) > 1
           /\ \A y \in 1 .. Len(Lines(u)) : Lines(u)[y] \in Seq(Run) /\ Covers(Lines(u)[y], Width(u))
           /\ Width(u) \in Nat \ {0} /\ Height(u) \in Nat \ {0} /\ Height(u) = Len(Lines(u)) - 1
<1>1. WellDrawn(script[u])
  BY UnitIs
<1>2. Lines(u) \in Seq(Seq(Run)) /\ Len(Lines(u)) > 1 /\ Width(u) \in Nat \ {0}
      /\ \A y \in DOMAIN Lines(u) : Covers(Lines(u)[y], Width(u))
  BY <1>1 DEF WellDrawn, Run, Lines, Width
<1>3. Len(Lines(u)) \in Nat /\ DOMAIN Lines(u) = 1 .. Len(Lines(u))
  BY <1>2
<1>4. \A y \in 1 .. Len(Lines(u)) : Lines(u)[y] \in Seq(Run)
  BY <1>2
<1>5. Height(u) = Len(Lines(u)) - 1
  BY DEF Height, Lines
<1>6. Len(Lines(u)) > 1
  BY <1>2
<1>7. Height(u) \in Nat \ {0}
  BY <1>3, <1>5, <1>6
<1> QED BY <1>7, <1>2, <1>3, <1>4, <1>5

LEMMA FieldIs ==
    ASSUME script \in Scripts, NEW u \in 1 .. Len(script), NEW odd \in {0, 1}
    PROVE  /\ LinesIn(u, odd) \in Nat
           /\ FieldCode(u, odd) \in Seq(Nibble)
           /\ Len(FieldCode(u, odd)) = At(Field(u, odd), LinesIn(u, odd))
           /\ At(Field(u, odd), 0) = 0
           /\ \A j \in 0 .. LinesIn(u, odd) :
                /\ At(Field(u, odd), j) \in Nat /\ At(Field(u, odd), j) % 2 = 0
                /\ At(Field(u, odd), j) <= Len(FieldCode(u, odd))
           /\ \A j \in 1 .. LinesIn(u, odd) :
                LET code == LineCode(Lines(u)[2 * j - 1 + odd])
                IN  /\ At(Field(u, odd), j) = At(Field(u, odd), j - 1) + Len(code)
                    /\ \A i \in 1 .. Len(code) :
                         FieldCode(u, odd)[At(Field(u, odd), j - 1) + i] = code[i]
<1>0. Len(Lines(u)) \in Nat /\ Len(Lines(u)) > 1 /\ \A y \in 1 .. Len(Lines(u)) : Lines(u)[y] \in Seq(Run)
  BY LinesAre
<1>1. LinesIn(u, odd) \in Nat /\ \A j \in 1 .. LinesIn(u, odd) : 2 * j - 1 + odd \in 1 .. Len(Lines(u))
  BY <1>0 DEF LinesIn
<1>2. \A j \in 1 .. LinesIn(u, odd) :
        /\ LineCode(Lines(u)[2 * j - 1 + odd]) \in Seq(Nibble)
        /\ Len(LineCode(Lines(u)[2 * j - 1 + odd])) % 2 = 0
  BY <1>0, <1>1, LineCodeIs
<1> DEFINE f == Field(u, odd)
           n == LinesIn(u, odd)
<1>3. f \in Seq(Seq(Nibble)) /\ Len(f) = n /\ FlattenSeq(f) = FieldCode(u, odd)
      /\ \A j \in 1 .. n : f[j] = LineCode(Lines(u)[2 * j - 1 + odd])
  <2>1. f = [j \in 1 .. n |-> LineCode(Lines(u)[2 * j - 1 + odd])]
    BY DEF Field
  <2>2. FlattenSeq(f) = FieldCode(u, odd)
    BY DEF FieldCode, Field, LinesIn, Lines
  <2> HIDE DEF f, n
  <2>3. n \in Nat /\ \A j \in 1 .. n : LineCode(Lines(u)[2 * j - 1 + odd]) \in Seq(Nibble)
    BY <1>1, <1>2 DEF n
  <2> QED BY <2>1, <2>2, <2>3
<1> HIDE DEF f
<1>4. /\ FlattenSeq(f) \in Seq(Nibble)
      /\ Len(FlattenSeq(f)) = At(f, Len(f))
      /\ At(f, 0) = 0
      /\ \A k \in 0 .. Len(f) : At(f, k) \in Nat /\ At(f, k) <= At(f, Len(f))
      /\ \A k \in 1 .. Len(f) : /\ At(f, k) = At(f, k - 1) + Len(f[k])
                                /\ \A i \in 1 .. Len(f[k]) :
                                     FlattenSeq(f)[At(f, k - 1) + i] = f[k][i]
  BY <1>3, FlattenAt
<1> HIDE DEF n
<1> DEFINE S == {j \in Nat : j <= n => At(f, j) % 2 = 0}
<1>5. 0 \in S
  BY <1>4
<1>6. ASSUME NEW j \in Nat, j \in S PROVE j + 1 \in S
  <2> SUFFICES ASSUME j + 1 <= n PROVE At(f, j + 1) % 2 = 0
    OBVIOUS
  <2>1. At(f, j) % 2 = 0
    BY <1>6, <1>1 DEF n
  <2> HIDE DEF S
  <2>2. j + 1 \in 1 .. n /\ (j + 1) - 1 = j /\ j \in 0 .. n /\ n \in Nat
    BY <1>1 DEF n
  <2>3. At(f, j + 1) = At(f, j) + Len(f[j + 1]) /\ At(f, j) \in Nat
    BY <1>3, <1>4, <2>2
  <2>4. f[j + 1] \in Seq(Nibble) /\ Len(f[j + 1]) % 2 = 0
    BY <1>2, <1>3, <2>2 DEF n
  <2>5. Len(f[j + 1]) \in Nat
    BY <2>4
  <2>6. Len(f[j + 1]) % 2 = 0
    BY <2>4
  <2> HIDE DEF f
  <2>7. (At(f, j) + Len(f[j + 1])) % 2 = 0
    BY <2>1, <2>3, <2>5, <2>6, Even
  <2> QED BY <2>3, <2>7
<1> HIDE DEF S
<1>7. \A j \in 0 .. n : At(f, j) % 2 = 0
  <2>1. Nat \subseteq S
    BY <1>5, <1>6, SetInduction
  <2> QED BY <1>1, <2>1 DEF S, n
<1>8. n = LinesIn(u, odd) /\ f = Field(u, odd)
  BY DEF n, f
<1>9. ASSUME NEW j \in 1 .. n
      PROVE  LET code == LineCode(Lines(u)[2 * j - 1 + odd])
             IN  /\ At(f, j) = At(f, j - 1) + Len(code)
                 /\ \A i \in 1 .. Len(code) : FieldCode(u, odd)[At(f, j - 1) + i] = code[i]
  BY <1>3, <1>4
<1> QED BY <1>1, <1>3, <1>4, <1>7, <1>8, <1>9

\* Where line y of a unit begins
Pos(u, y) == 8 + (y % 2) * Len(FieldCode(u, 0)) + At(Field(u, y % 2), y \div 2)

\* What the reader meets at position p, whose field has its codes from base on
LEMMA FieldRead ==
    ASSUME NEW data, NEW len \in Nat, len = Len(data), len % 2 = 0,
           NEW a \in Nat, NEW code, NEW l \in Nat, l = Len(code), a + l <= len,
           \A i \in 1 .. l : data[a + i] = code[i]
    PROVE  Reads(data, 8 + a, code)
<1> SUFFICES ASSUME NEW i \in 1 .. l PROVE NibbleAt(data, (8 + a) + (i - 1)) = code[i]
  BY DEF Reads
<1>1. (8 + a) + (i - 1) \in Nat /\ ((8 + a) + (i - 1)) - 7 = a + i /\ (8 + a) + (i - 1) < 8 + len
  OBVIOUS
<1>2. ControlStart(data) = 4 + (len \div 2)
  BY DEF ControlStart
<1>3. 2 * ControlStart(data) = 8 + len /\ ControlStart(data) \in Nat
  BY <1>2, Even
<1>4. ((8 + a) + (i - 1)) \div 2 < ControlStart(data)
  BY <1>1, <1>3, Halves
<1>5. NibbleAt(data, (8 + a) + (i - 1)) = data[((8 + a) + (i - 1)) - 7]
  BY <1>4 DEF NibbleAt
<1> QED BY <1>1, <1>5

LEMMA PosIs ==
    ASSUME script \in Scripts, NEW u \in 1 .. Len(script)
    PROVE  /\ Pos(u, 0) = LineStarts(u)[1] /\ Pos(u, 1) = LineStarts(u)[2]
           /\ \A y \in 0 .. Height(u) :
                LET code == LineCode(Lines(u)[y + 1])
                IN  /\ Pos(u, y) \in Nat /\ Pos(u, y) % 2 = 0
                    /\ Pos(u, y + 2) = Pos(u, y) + Len(code)
                    /\ y % 2 = 0 => Pos(u, y) + Len(code) <= LineStarts(u)[2]
                    /\ Pos(u, y) + Len(code) <= 2 * ControlStart(Nibbles(u))
                    /\ Reads(Nibbles(u), Pos(u, y), code)
<1> DEFINE e == FieldCode(u, 0)
           o == FieldCode(u, 1)
           data == Nibbles(u)
<1>1. e \in Seq(Nibble) /\ o \in Seq(Nibble) /\ Len(e) % 2 = 0 /\ Len(o) % 2 = 0
  <2>1. \A odd \in {0, 1} : LinesIn(u, odd) \in Nat /\ LinesIn(u, odd) \in 0 .. LinesIn(u, odd)
    BY FieldIs
  <2>2. \A odd \in {0, 1} : FieldCode(u, odd) \in Seq(Nibble) /\ Len(FieldCode(u, odd)) % 2 = 0
    BY <2>1, FieldIs
  <2> QED BY <2>2
<1>2. data = e \o o
  BY DEF Nibbles
<1> HIDE DEF e, o
<1>3. data \in Seq(Nibble) /\ Len(data) = Len(e) + Len(o)
      /\ \A i \in 1 .. Len(e) + Len(o) : data[i] = IF i <= Len(e) THEN e[i] ELSE o[i - Len(e)]
  BY <1>1, <1>2, ConcatProperties
<1> HIDE DEF data
<1>4. LineStarts(u) = <<8, 8 + Len(e)>>
  BY DEF LineStarts, e
<1>5. PICK le \in Nat, lo \in Nat, len \in Nat : le = Len(e) /\ lo = Len(o) /\ len = Len(data)
  BY <1>1, <1>3
<1>6. len = le + lo /\ le % 2 = 0 /\ lo % 2 = 0 /\ len % 2 = 0
  <2>1. len = le + lo /\ le % 2 = 0 /\ lo % 2 = 0
    BY <1>1, <1>3, <1>5
  <2> QED BY <2>1, Even
<1>7. 2 * ControlStart(data) = 8 + len
  BY <1>5, <1>6, Even DEF ControlStart
<1>8. Pos(u, 0) = 8 /\ Pos(u, 1) = 8 + le
  <2>1. At(Field(u, 0), 0) = 0 /\ At(Field(u, 1), 0) = 0
    BY FieldIs
  <2>2. 0 % 2 = 0 /\ 0 \div 2 = 0 /\ 1 % 2 = 1 /\ 1 \div 2 = 0
    OBVIOUS
  <2> QED BY <1>5, <2>1, <2>2 DEF Pos, e
<1>9. ASSUME NEW y \in 0 .. Height(u)
      PROVE LET code == LineCode(Lines(u)[y + 1])
            IN  /\ Pos(u, y) \in Nat /\ Pos(u, y) % 2 = 0
                /\ Pos(u, y + 2) = Pos(u, y) + Len(code)
                /\ y % 2 = 0 => Pos(u, y) + Len(code) <= LineStarts(u)[2]
                /\ Pos(u, y) + Len(code) <= 2 * ControlStart(data)
                /\ Reads(data, Pos(u, y), code)
  <2>0. Len(Lines(u)) \in Nat /\ Len(Lines(u)) > 1 /\ Height(u) = Len(Lines(u)) - 1 /\ Lines(u)[y + 1] \in Seq(Run)
    BY LinesAre
  <2>1. PICK odd \in {0, 1}, j \in Nat \ {0} : odd = y % 2 /\ j - 1 = y \div 2
    <3>1. y \in Nat
      BY <2>0
    <3>2. y % 2 \in {0, 1} /\ (y \div 2) + 1 \in Nat \ {0} /\ ((y \div 2) + 1) - 1 = y \div 2
      BY <3>1
    <3> QED BY <3>2
  <2>2. y \in Nat /\ j \in 1 .. LinesIn(u, odd) /\ 2 * j - 1 + odd = y + 1
        /\ j - 1 \in 0 .. LinesIn(u, odd) /\ j \in 0 .. LinesIn(u, odd)
        /\ (y + 2) % 2 = odd /\ (y + 2) \div 2 = j
    BY <2>0, <2>1 DEF LinesIn
  <2> DEFINE code == LineCode(Lines(u)[y + 1])
  <2>3. code \in Seq(Nibble)
    BY <2>0, LineCodeIs
  <2>4. PICK l \in Nat : l = Len(code)
    BY <2>3
  <2>5. /\ At(Field(u, odd), j - 1) \in Nat
        /\ At(Field(u, odd), j - 1) % 2 = 0
        /\ At(Field(u, odd), j) <= Len(FieldCode(u, odd))
    BY <2>2, FieldIs
  <2>6. /\ At(Field(u, odd), j) = At(Field(u, odd), j - 1) + Len(LineCode(Lines(u)[2 * j - 1 + odd]))
        /\ \A i \in 1 .. Len(LineCode(Lines(u)[2 * j - 1 + odd])) :
             FieldCode(u, odd)[At(Field(u, odd), j - 1) + i] = LineCode(Lines(u)[2 * j - 1 + odd])[i]
    BY <2>2, FieldIs
  <2>7. PICK a \in Nat : a = At(Field(u, odd), j - 1)
    BY <2>5
  <2>8. a % 2 = 0 /\ At(Field(u, odd), j) = a + l /\ a + l <= Len(FieldCode(u, odd))
    BY <2>2, <2>4, <2>5, <2>6, <2>7
  <2>9. \A i \in 1 .. l : FieldCode(u, odd)[a + i] = code[i]
    BY <2>2, <2>4, <2>6, <2>7
  <2>10. Pos(u, y) = 8 + odd * le + a /\ Pos(u, y + 2) = 8 + odd * le + (a + l)
    BY <1>5, <2>1, <2>2, <2>7, <2>8 DEF Pos, e
  <2> HIDE DEF code
  <2>11. CASE odd = 0
    <3>1. Pos(u, y) = 8 + a /\ Pos(u, y + 2) = (8 + a) + l /\ a + l <= le /\ a + l <= len
      <4>1. odd * le = 0 /\ Len(FieldCode(u, odd)) = le
        BY <1>5, <2>11 DEF e
      <4>2. len = le + lo
        BY <1>6
      <4>3. a + l <= le
        BY <2>8, <4>1
      <4> QED BY <2>10, <4>1, <4>2, <4>3
    <3>2. (8 + a) % 2 = 0
      BY <2>8
    <3>3. \A i \in 1 .. l : data[a + i] = code[i]
      <4> TAKE i \in 1 .. l
      <4>1. a + i \in 1 .. le /\ a + i \in 1 .. le + lo /\ a + i <= le
        BY <3>1
      <4>2. data[a + i] = e[a + i]
        BY <1>3, <1>5, <4>1
      <4> QED BY <2>9, <2>11, <4>2 DEF e
    <3>4. Reads(data, 8 + a, code)
      BY <1>5, <1>6, <2>4, <3>1, <3>3, FieldRead
    <3>5. (8 + a) + l <= 8 + le /\ (8 + a) + l <= 8 + len /\ 8 + a \in Nat
      BY <3>1
    <3> QED BY <1>4, <1>5, <1>7, <2>4, <3>1, <3>2, <3>4, <3>5 DEF code
  <2>12. CASE odd = 1
    <3>1. Pos(u, y) = 8 + (le + a) /\ Pos(u, y + 2) = (8 + (le + a)) + l /\ a + l <= lo /\ (le + a) + l <= len
      <4>1. odd * le = le /\ Len(FieldCode(u, odd)) = lo
        BY <1>5, <2>12 DEF o
      <4>2. len = le + lo
        BY <1>6
      <4>3. a + l <= lo
        BY <2>8, <4>1
      <4> QED BY <2>10, <4>1, <4>2, <4>3
    <3>2. (8 + (le + a)) % 2 = 0
      BY <1>6, <2>8
    <3>3. \A i \in 1 .. l : data[(le + a) + i] = code[i]
      <4> TAKE i \in 1 .. l
      <4>1. (le + a) + i \in 1 .. le + lo /\ ~((le + a) + i <= le) /\ ((le + a) + i) - le = a + i
        BY <3>1
      <4>2. data[(le + a) + i] = o[a + i]
        BY <1>3, <1>5, <4>1
      <4> QED BY <2>9, <2>12, <4>2 DEF o
    <3>4. Reads(data, 8 + (le + a), code)
      <4>1. PICK b \in Nat : b = le + a
        OBVIOUS
      <4>2. b + l <= len /\ \A i \in 1 .. l : data[b + i] = code[i]
        BY <3>1, <3>3, <4>1
      <4>3. Reads(data, 8 + b, code)
        BY <1>5, <1>6, <2>4, <4>2, FieldRead
      <4> QED BY <4>1, <4>3
    <3>5. (8 + (le + a)) + l <= 8 + len /\ 8 + (le + a) \in Nat /\ y % 2 # 0
      BY <2>1, <2>12, <3>1
    <3> QED BY <1>5, <1>7, <2>4, <3>1, <3>2, <3>4, <3>5 DEF code
  <2> QED BY <2>11, <2>12
<1> QED BY <1>4, <1>5, <1>8, <1>9 DEF data

\* The columns of a line
RunLengths(line) == [k \in 1 .. Len(line) |-> line[k][1]]

LEMMA ColumnsSum ==
    ASSUME NEW line \in Seq(Run), NEW n \in 0 .. Len(line), NEW s, Adds(RunLengths(line), Len(line), s)
    PROVE  Columns(line, n) = s[n]
<1> DEFINE F(f) == [k \in 0 .. n |-> IF k = 0 THEN 0 ELSE f[k - 1] + line[k][1]]
           g == CHOOSE f : f = F(f)
           e == [k \in 0 .. n |-> s[k]]
<1>0. Len(line) \in Nat /\ n \in Nat /\ n \in 0 .. n /\ \A k \in 1 .. n : k \in 1 .. Len(line)
  OBVIOUS
<1>1. Columns(line, n) = g[n]
  BY DEF Columns
<1>2. s[0] = 0 /\ \A k \in 1 .. n : s[k] = s[k - 1] + line[k][1]
  BY <1>0 DEF Adds, RunLengths
<1>3. e = F(e)
  <2>1. ASSUME NEW k \in 0 .. n PROVE e[k] = IF k = 0 THEN 0 ELSE e[k - 1] + line[k][1]
    <3>1. CASE k = 0
      BY <1>2, <3>1
    <3>2. CASE k # 0
      <4>1. k \in 1 .. n /\ k - 1 \in 0 .. n
        BY <3>2
      <4> QED BY <1>2, <3>2, <4>1
    <3> QED BY <3>1, <3>2
  <2> QED BY <2>1
<1>4. g = F(g)
  <2> HIDE DEF F
  <2> QED BY <1>3
<1> HIDE DEF g
<1>5. \A k \in 0 .. n : g[k] = IF k = 0 THEN 0 ELSE g[k - 1] + line[k][1]
  BY <1>4
<1> DEFINE S == {i \in Nat : i <= n => g[i] = s[i]}
<1>6. 0 \in S
  BY <1>0, <1>2, <1>5
<1>7. ASSUME NEW i \in Nat, i \in S PROVE i + 1 \in S
  <2> SUFFICES ASSUME i + 1 <= n PROVE g[i + 1] = s[i + 1]
    OBVIOUS
  <2>1. i + 1 \in 1 .. n /\ i + 1 \in 0 .. n /\ i + 1 # 0 /\ (i + 1) - 1 = i
    OBVIOUS
  <2>2. g[i + 1] = g[i] + line[i + 1][1]
    BY <1>5, <2>1
  <2>3. s[i + 1] = s[i] + line[i + 1][1]
    BY <1>2, <2>1
  <2> QED BY <1>7, <2>2, <2>3
<1> HIDE DEF S
<1>8. n \in S
  <2>1. Nat \subseteq S
    BY <1>6, <1>7, SetInduction
  <2> QED BY <1>0, <2>1
<1> QED BY <1>1, <1>8 DEF S

LEMMA ColumnsAre ==
    ASSUME NEW line \in Seq(Run)
    PROVE  /\ Columns(line, 0) = 0
           /\ \A k \in 0 .. Len(line) : Columns(line, k) \in Nat
           /\ \A k \in 1 .. Len(line) : Columns(line, k) = Columns(line, k - 1) + line[k][1]
           /\ \A k \in 0 .. Len(line) : \A j \in k .. Len(line) : Columns(line, k) <= Columns(line, j)
<1> DEFINE l == RunLengths(line)
           n == Len(line)
<1>1. n \in Nat /\ \A k \in 1 .. n : line[k] \in Run
  OBVIOUS
<1>2. \A k \in 1 .. n : l[k] = line[k][1] /\ l[k] \in Nat
  <2>1. \A r \in Run : r[1] \in Nat
    BY RunIs
  <2> QED BY <1>1, <2>1 DEF RunLengths
<1> HIDE DEF l, n
<1>3. PICK s : Adds(l, n, s)
  BY <1>1, <1>2, SumExists
<1>4. \A k \in 0 .. n : Columns(line, k) = s[k]
  BY <1>3, ColumnsSum DEF l, n
<1>5. s \in [0 .. n -> Nat] /\ s[0] = 0 /\ \A k \in 1 .. n : s[k] = s[k - 1] + line[k][1]
  BY <1>2, <1>3 DEF Adds
<1>6. \A k \in 0 .. n : \A j \in k .. n : s[k] <= s[j]
  BY <1>1, <1>2, <1>3, SumGrows
<1>7. \A k \in 0 .. n : \A j \in k .. n : j \in 0 .. n
  BY <1>1
<1>8. 0 \in 0 .. n /\ \A k \in 1 .. n : k \in 0 .. n /\ k - 1 \in 0 .. n
  BY <1>1
<1> QED BY <1>4, <1>5, <1>6, <1>7, <1>8 DEF n

\* The column behind run k
EndOf(line, width, k) == IF k < Len(line) THEN Columns(line, k) ELSE width

LEMMA RunsAre ==
    ASSUME NEW line \in Seq(Run), NEW width \in Nat \ {0}, Covers(line, width)
    PROVE  /\ Len(line) \in Nat \ {0}
           /\ \A k \in 1 .. Len(line) :
                /\ line[k] \in Run
                /\ Columns(line, k - 1) \in Nat /\ EndOf(line, width, k) \in Nat
                /\ Columns(line, k - 1) < EndOf(line, width, k)
                /\ k < Len(line) => Columns(line, k) < width
                /\ RunLength(line[k][1], width - Columns(line, k - 1))
                     = EndOf(line, width, k) - Columns(line, k - 1)
                /\ \A x \in Columns(line, k - 1) .. EndOf(line, width, k) - 1 :
                     PixelAt(line, x) = line[k][2]
<1> DEFINE n == Len(line)
           C(k) == Columns(line, k)
<1>1. n \in Nat \ {0} /\ \A k \in 1 .. n : line[k] \in Run /\ line[k][1] \in Nat
  <2>1. n \in Nat /\ n > 0
    BY DEF Covers
  <2>2. \A k \in 1 .. n : line[k] \in Run
    OBVIOUS
  <2>3. \A r \in Run : r[1] \in Nat
    BY RunIs
  <2> QED BY <2>1, <2>2, <2>3
<1>2. /\ C(0) = 0
      /\ \A k \in 0 .. n : C(k) \in Nat
      /\ \A k \in 1 .. n : C(k) = C(k - 1) + line[k][1]
      /\ \A k \in 0 .. n : \A j \in k .. n : C(k) <= C(j)
  BY ColumnsAre
<1>3. /\ \A k \in 1 .. n - 1 : line[k][1] > 0
      /\ line[n][1] = 0 => C(n) < width
      /\ line[n][1] # 0 => C(n) = width
  BY DEF Covers
<1> HIDE DEF n, C
<1>4. ASSUME NEW k \in 1 .. n
      PROVE  /\ C(k - 1) \in Nat /\ C(k - 1) < width /\ EndOf(line, width, k) \in Nat
             /\ C(k - 1) < EndOf(line, width, k)
             /\ k < n => C(k) < width
             /\ RunLength(line[k][1], width - C(k - 1)) = EndOf(line, width, k) - C(k - 1)
             /\ \A j \in 1 .. k - 1 : line[j][1] > 0 /\ C(j) <= C(k - 1)
             /\ line[k][1] = 0 \/ C(k) = EndOf(line, width, k)
  <2>1. PICK q \in Nat, a \in Nat, b \in Nat, z \in Nat, c \in Nat :
          q = line[k][1] /\ a = C(k - 1) /\ b = C(k) /\ z = C(n) /\ c = line[n][1]
    <3>1. k - 1 \in 0 .. n /\ k \in 0 .. n /\ n \in 0 .. n /\ n \in 1 .. n
      BY <1>1
    <3> QED BY <1>1, <1>2, <3>1
  <2>2. b = a + q /\ b <= z
    <3>1. k \in 0 .. n /\ n \in k .. n
      BY <1>1
    <3> QED BY <1>2, <2>1, <3>1
  <2>3. \A j \in 1 .. k - 1 : line[j][1] > 0 /\ C(j) <= C(k - 1)
    <3> TAKE j \in 1 .. k - 1
    <3>1. j \in 1 .. n - 1 /\ j \in 0 .. n /\ k - 1 \in j .. n
      BY <1>1
    <3> QED BY <1>2, <1>3, <3>1
  <2>4. CASE k = n
    <3>1. EndOf(line, width, k) = width /\ z = b /\ c = q
      BY <2>1, <2>4, <1>1 DEF EndOf, n
    <3>2. (q = 0 => b < width) /\ (q # 0 => b = width)
      BY <1>3, <2>1, <3>1
    <3>3. a < width /\ (IF q > width - a \/ q = 0 THEN width - a ELSE q) = width - a
      BY <2>2, <3>2
    <3>4. RunLength(line[k][1], width - C(k - 1)) = width - a
      BY <2>1, <3>3 DEF RunLength
    <3>5. line[k][1] = 0 \/ C(k) = width
      BY <2>1, <3>2
    <3>6. ~(k < n)
      BY <1>1, <2>4
    <3> QED BY <2>1, <2>3, <3>1, <3>3, <3>4, <3>5, <3>6
  <2>5. CASE k < n
    <3>1. EndOf(line, width, k) = b /\ q > 0
      <4>1. k \in 1 .. n - 1
        BY <1>1, <2>5
      <4> QED BY <1>3, <2>1, <2>5, <4>1 DEF EndOf, n, C
    <3>2. b < width
      <4>1. C(n) = C(n - 1) + line[n][1] /\ C(k) <= C(n - 1) /\ C(n - 1) \in Nat
        <5>1. n \in 1 .. n /\ k \in 0 .. n /\ n - 1 \in k .. n /\ n - 1 \in 0 .. n
          BY <1>1, <2>5
        <5> QED BY <1>2, <5>1
      <4>2. PICK w \in Nat : w = C(n - 1)
        BY <4>1
      <4>3. z = w + c /\ b <= w
        BY <2>1, <4>1, <4>2
      <4>4. (c = 0 => z < width) /\ (c # 0 => z = width)
        BY <1>3, <2>1
      <4> QED BY <4>3, <4>4
    <3>3. a < width /\ a < b /\ (IF q > width - a \/ q = 0 THEN width - a ELSE q) = b - a
      BY <2>2, <3>1, <3>2
    <3>4. RunLength(line[k][1], width - C(k - 1)) = b - a
      BY <2>1, <3>3 DEF RunLength
    <3> QED BY <2>1, <2>3, <3>1, <3>2, <3>3, <3>4
  <2>6. k = n \/ k < n
    BY <1>1
  <2> QED BY <2>4, <2>5, <2>6
<1>5. ASSUME NEW k \in 1 .. n, NEW x \in C(k - 1) .. EndOf(line, width, k) - 1
      PROVE  PixelAt(line, x) = line[k][2]
  <2> DEFINE K == {i \in DOMAIN line : line[i][1] = 0 \/ x < Columns(line, i)}
  <2>1. x \in Nat /\ C(k - 1) <= x /\ x < EndOf(line, width, k)
    BY <1>4
  <2>2. DOMAIN line = 1 .. n
    BY DEF n
  <2>3. k \in K
    BY <1>4, <2>1, <2>2 DEF C
  <2>4. \A i \in K : k <= i
    <3> SUFFICES ASSUME NEW i \in K, i < k PROVE FALSE
      BY <1>1, <2>2
    <3>1. i \in 1 .. k - 1
      BY <2>2
    <3>2. line[i][1] > 0 /\ C(i) <= C(k - 1)
      BY <1>4, <3>1
    <3>3. i \in 0 .. n
      BY <1>1, <3>1
    <3>4. C(i) \in Nat /\ C(k - 1) \in Nat
      BY <1>2, <1>4, <3>3
    <3>5. x < C(i)
      BY <3>2 DEF C
    <3> QED BY <2>1, <3>2, <3>4, <3>5
  <2>5. K \in SUBSET Nat
    BY <1>1, <2>2
  <2> HIDE DEF K
  <2>6. Least(K) \in K /\ \A i \in K : Least(K) <= i
    BY <2>3, <2>5, LeastIs
  <2>7. Least(K) = k
    <3>1. Least(K) <= k /\ k <= Least(K) /\ Least(K) \in Nat /\ k \in Nat
      BY <2>3, <2>4, <2>5, <2>6
    <3> QED BY <3>1
  <2>8. PixelAt(line, x) = line[Least(K)][2]
    BY DEF PixelAt, K
  <2> QED BY <2>7, <2>8
<1> QED BY <1>1, <1>4, <1>5 DEF n, C

LEMMA RunAt ==
    ASSUME NEW line \in Seq(Run), NEW width \in Nat \ {0}, Covers(line, width), NEW k \in 1 .. Len(line)
    PROVE  /\ Columns(line, k - 1) \in Nat /\ EndOf(line, width, k) \in Nat
           /\ Columns(line, k - 1) < EndOf(line, width, k)
           /\ k < Len(line) => Columns(line, k) < width
           /\ RunLength(line[k][1], width - Columns(line, k - 1))
                = EndOf(line, width, k) - Columns(line, k - 1)
  BY RunsAre

-------------------------------------------------------------------------------
(***************************************************************************)
(* The decoder                                                             *)
(***************************************************************************)
\* What is read at p, where run k = r of line y begins
RunRead(u, y, k, p, r) ==
    /\ p \in Nat /\ p < 2 * ControlStart(Nibbles(u)) /\ ControlStart(Nibbles(u)) \in Nat
    /\ y % 2 = 0 => p < LineStarts(u)[2]
    /\ r[1] \in Nat /\ r[2] \in 0 .. 3
    /\ CodeAt(Nibbles(u), p) = <<Len(RunCode(r)), 4 * r[1] + r[2]>>
    /\ Advanced(Nibbles(u), p, Len(RunCode(r))) = Pos(u, y) + CodeTo(Lines(u)[y + 1], k)
    /\ Pos(u, y) + CodeTo(Lines(u)[y + 1], k) \in Nat
    /\ k = Len(Lines(u)[y + 1])
         => Aligned(Pos(u, y) + CodeTo(Lines(u)[y + 1], k)) = Pos(u, y + 2)

LEMMA RunReads ==
    ASSUME script \in Scripts, NEW u \in 1 .. Len(script), NEW y \in 0 .. Height(u),
           NEW k \in 1 .. Len(Lines(u)[y + 1])
    PROVE  RunRead(u, y, k, Pos(u, y) + CodeTo(Lines(u)[y + 1], k - 1), Lines(u)[y + 1][k])
<1>0. PICK p, r : p = Pos(u, y) + CodeTo(Lines(u)[y + 1], k - 1) /\ r = Lines(u)[y + 1][k]
  OBVIOUS
<1> DEFINE line == Lines(u)[y + 1]
           code == LineCode(line)
           data == Nibbles(u)
<1>1. line \in Seq(Run) /\ Len(line) \in Nat /\ r \in Run
  <2>1. Len(Lines(u)) \in Nat /\ Height(u) = Len(Lines(u)) - 1 /\ \A i \in 1 .. Len(Lines(u)) : Lines(u)[i] \in Seq(Run)
    BY LinesAre
  <2>2. y + 1 \in 1 .. Len(Lines(u))
    BY <2>1
  <2> QED BY <1>0, <2>1, <2>2
<1>2. /\ Pos(u, y) \in Nat /\ Pos(u, y) % 2 = 0
      /\ Pos(u, y + 2) = Pos(u, y) + Len(code)
      /\ y % 2 = 0 => Pos(u, y) + Len(code) <= LineStarts(u)[2]
      /\ Pos(u, y) + Len(code) <= 2 * ControlStart(data)
  BY PosIs
<1>3. Reads(data, Pos(u, y), code)
  BY PosIs
<1> HIDE DEF line, code, data
<1>4. k \in 1 .. Len(line) /\ k - 1 \in 0 .. Len(line) /\ k \in 0 .. Len(line) /\ r = line[k]
  BY <1>0, <1>1 DEF line
<1>5. /\ CodeTo(line, k - 1) \in Nat /\ CodeTo(line, k) \in Nat /\ CodeTo(line, k) <= Len(code)
      /\ CodeTo(line, k) = CodeTo(line, k - 1) + Len(RunCode(r))
      /\ Len(code) = CodeTo(line, Len(line)) + (CodeTo(line, Len(line)) % 2)
  BY <1>1, <1>4, LineCodeIs DEF code
<1>6. \A i \in 1 .. Len(RunCode(r)) : code[CodeTo(line, k - 1) + i] = RunCode(r)[i]
  BY <1>1, <1>4, LineCodeIs DEF code
<1>7. RunCode(r) \in Seq(Nibble) /\ Len(RunCode(r)) \in 1 .. 4 /\ Len(code) \in Nat
  BY <1>1, RunCodeIs, LineCodeIs DEF code
<1>8. ControlStart(data) \in Nat
  <2>1. Nibbles(u) \in Seq(Nibble)
    <3>1. FieldCode(u, 0) \in Seq(Nibble) /\ FieldCode(u, 1) \in Seq(Nibble)
      BY FieldIs
    <3> QED BY <3>1 DEF Nibbles
  <2>2. Len(data) \in Nat
    BY <2>1 DEF data
  <2> QED BY <2>2 DEF ControlStart
<1>9. PICK P \in Nat, a \in Nat, b \in Nat, l \in 1 .. 4, L \in Nat, C \in Nat :
        /\ P = Pos(u, y) /\ a = CodeTo(line, k - 1) /\ b = CodeTo(line, k) /\ l = Len(RunCode(r))
        /\ L = Len(code) /\ C = ControlStart(data)
  BY <1>2, <1>5, <1>7, <1>8
<1>10. b = a + l /\ b <= L /\ P + L <= 2 * C /\ P % 2 = 0 /\ p = P + a
      /\ (y % 2 = 0 => P + L <= LineStarts(u)[2]) /\ Pos(u, y + 2) = P + L
  BY <1>0, <1>2, <1>5, <1>9 DEF line
<1>11. p \in Nat /\ p < 2 * C /\ p + l = P + b /\ p + l <= 2 * C
  BY <1>10, <1>8
<1>12. y % 2 = 0 => p < LineStarts(u)[2]
  <2> SUFFICES ASSUME y % 2 = 0 PROVE p < LineStarts(u)[2]
    OBVIOUS
  <2>2. LineStarts(u)[2] \in Nat
    <3>1. FieldCode(u, 0) \in Seq(Nibble)
      BY FieldIs
    <3> QED BY <3>1 DEF LineStarts
  <2>3. PICK S \in Nat : S = LineStarts(u)[2]
    BY <2>2
  <2>4. P + L <= S
    BY <1>10, <2>3
  <2> QED BY <1>10, <2>3, <2>4
<1>13. Reads(data, p, RunCode(r))
  <2> SUFFICES ASSUME NEW i \in 1 .. l PROVE NibbleAt(data, p + (i - 1)) = RunCode(r)[i]
    BY <1>9 DEF Reads
  <2>1. a + i \in 1 .. L /\ p + (i - 1) = P + ((a + i) - 1)
    <3>1. l \in Nat /\ b = a + l /\ b <= L /\ p = P + a
      BY <1>10
    <3>2. a + i \in 1 .. L
      BY <3>1, Within
    <3> QED BY <3>1, <3>2
  <2>2. NibbleAt(data, P + ((a + i) - 1)) = code[a + i]
    BY <1>3, <1>9, <2>1 DEF Reads
  <2> QED BY <1>6, <1>9, <2>1, <2>2
<1>14. CodeAt(data, p) = <<Len(RunCode(r)), 4 * r[1] + r[2]>>
  BY <1>1, <1>11, <1>13, CodeAtIs
<1>15. Advanced(data, p, l) = P + b
  <2>1. p \div 2 < C
    BY <1>8, <1>11, Halves
  <2>2. ~(p \div 2 >= C) /\ ~(p + l > 2 * C)
    BY <1>8, <1>11, <2>1
  <2> QED BY <1>9, <1>11, <2>2 DEF Advanced
<1>16. k = Len(line) => Aligned(P + b) = P + L
  <2> SUFFICES ASSUME k = Len(line) PROVE Aligned(P + b) = P + L
    OBVIOUS
  <2>1. L = b + (b % 2)
    BY <1>5, <1>9
  <2>2. (P + b) % 2 = b % 2
    BY <1>10
  <2> QED BY <2>1, <2>2 DEF Aligned
<1>17. r[1] \in Nat /\ r[2] \in 0 .. 3
  BY <1>1, RunIs
<1>18. C = ControlStart(data) /\ b = CodeTo(line, k) /\ l = Len(RunCode(r)) /\ P = Pos(u, y)
  BY <1>9
<1>19. P + b \in Nat
  OBVIOUS
<1>20. Pos(u, y + 2) = P + L
  BY <1>10
<1>21. RunRead(u, y, k, p, r)
  BY <1>8, <1>11, <1>12, <1>14, <1>15, <1>16, <1>17, <1>18, <1>19, <1>20 DEF line, data, RunRead
<1> QED BY <1>0, <1>21

\* The canvas of a unit, and the loop of the decoder on the way: it is in front of
\* run k of line y, and what is behind it is as it was drawn.
Grid(u) == (0 .. Height(u) - 1) \X (0 .. Width(u) - 1)

Reading(u, s, y, k) ==
    /\ s.y = y /\ s.odd = y % 2 /\ s.x = Columns(Lines(u)[y + 1], k - 1)
    /\ s.nibble \in [{1, 2} -> Nat]
    /\ s.nibble[(y % 2) + 1] = Pos(u, y) + CodeTo(Lines(u)[y + 1], k - 1)
    /\ s.nibble[2 - (y % 2)] = Pos(u, y + 1)
    /\ DOMAIN s.image = Grid(u)
    /\ \A c \in Grid(u) : (c[1] < y \/ (c[1] = y /\ c[2] < s.x)) => s.image[c] = Drawn(u)[c]

Finished(u, s) == s.y = Height(u) /\ s.image = Drawn(u)

\* The loop does not end in front of a run.
LEMMA GoesOn ==
    ASSUME script \in Scripts, NEW u \in 1 .. Len(script),
           NEW d, d.width = Width(u), d.height = Height(u), d.nibble[2] = LineStarts(u)[2],
           NEW s, NEW y \in 0 .. Height(u) - 1, NEW k \in 1 .. Len(Lines(u)[y + 1]),
           Reading(u, s, y, k)
    PROVE  Going(Nibbles(u), d, s)
<1> DEFINE C == ControlStart(Nibbles(u))
           p == Pos(u, y) + CodeTo(Lines(u)[y + 1], k - 1)
           q == Pos(u, y + 1)
<1>0. Height(u) \in Nat /\ y \in 0 .. Height(u) /\ y + 1 \in 0 .. Height(u) /\ y \in Nat
  BY LinesAre
<1>1. p \in Nat /\ p < 2 * C /\ C \in Nat /\ (y % 2 = 0 => p < LineStarts(u)[2])
  BY <1>0, RunReads DEF RunRead
<1>2. q \in Nat /\ q < 2 * C /\ ((y + 1) % 2 = 0 => q < LineStarts(u)[2])
  <2> DEFINE row == Lines(u)[(y + 1) + 1]
  <2>1. row \in Seq(Run) /\ Covers(row, Width(u)) /\ Width(u) \in Nat \ {0}
    <3>1. (y + 1) + 1 \in 1 .. Len(Lines(u))
      BY <1>0, LinesAre
    <3> QED BY <3>1, LinesAre
  <2>2. 1 \in 1 .. Len(row) /\ CodeTo(row, 1 - 1) = 0
    <3>1. Len(row) \in Nat \ {0}
      BY <2>1, RunsAre
    <3>2. CodeTo(row, 0) = 0
      BY <2>1, LineCodeIs
    <3> QED BY <3>1, <3>2
  <2>3. Pos(u, y + 1) \in Nat
    BY <1>0, PosIs
  <2>4. q = Pos(u, y + 1) + CodeTo(row, 1 - 1)
    BY <2>2, <2>3
  <2>5. RunRead(u, y + 1, 1, Pos(u, y + 1) + CodeTo(row, 1 - 1), row[1])
    BY <1>0, <2>2, RunReads
  <2> QED BY <2>4, <2>5 DEF RunRead
<1>3. s.nibble[(y % 2) + 1] = p /\ s.nibble[2 - (y % 2)] = q /\ s.y = y
  BY DEF Reading
<1> HIDE DEF p, q
<1>4. s.y < d.height
  BY <1>0, <1>3
<1>5. p \div 2 < C /\ q \div 2 < C
  BY <1>1, <1>2, Halves
<1>6. CASE y % 2 = 0
  <2>1. s.nibble[1] = p /\ s.nibble[2] = q
    BY <1>3, <1>6
  <2> QED BY <1>1, <1>4, <1>5, <1>6, <2>1 DEF Going
<1>7. CASE y % 2 = 1
  <2>1. s.nibble[1] = q /\ s.nibble[2] = p /\ (y + 1) % 2 = 0
    BY <1>0, <1>3, <1>7
  <2> QED BY <1>2, <1>4, <1>5, <2>1 DEF Going
<1> QED BY <1>0, <1>6, <1>7

\* What one turn makes of run k of line y
TurnOf(u, s, y, k, line, e, t) ==
    /\ k = Len(line) => /\ t.nibble = [s.nibble EXCEPT ![(y % 2) + 1] = Pos(u, y + 2)]
                        /\ t.odd = 1 - (y % 2) /\ t.x = 0 /\ t.y = y + 1
    /\ k < Len(line) => /\ t.nibble = [s.nibble EXCEPT ![(y % 2) + 1] = Pos(u, y) + CodeTo(line, k)]
                        /\ t.odd = y % 2 /\ t.x = Columns(line, k) /\ t.y = y
    /\ t.image = [c \in Grid(u) |->
                    IF c[1] = y /\ c[2] \in Columns(line, k - 1) .. e - 1
                    THEN line[k][2] ELSE s.image[c]]

LEMMA TurnIs ==
    ASSUME script \in Scripts, NEW u \in 1 .. Len(script),
           NEW d, d.width = Width(u),
           NEW s, NEW y \in 0 .. Height(u) - 1, NEW k \in 1 .. Len(Lines(u)[y + 1]),
           Reading(u, s, y, k)
    PROVE  TurnOf(u, s, y, k, Lines(u)[y + 1], EndOf(Lines(u)[y + 1], Width(u), k),
                  OneRun(Nibbles(u), d, s))
<1> PICK t, line, e : /\ t = OneRun(Nibbles(u), d, s)
                      /\ line = Lines(u)[y + 1] /\ e = EndOf(Lines(u)[y + 1], Width(u), k)
  OBVIOUS
<1> DEFINE data == Nibbles(u)
<1>0. Height(u) \in Nat /\ y \in 0 .. Height(u) /\ y \in Nat /\ Width(u) \in Nat \ {0}
  BY LinesAre
<1>1. line \in Seq(Run) /\ Covers(line, Width(u))
  <2>1. y + 1 \in 1 .. Len(Lines(u))
    BY <1>0, LinesAre
  <2> QED BY <2>1, LinesAre
<1>2. PICK p : p = Pos(u, y) + CodeTo(line, k - 1)
  OBVIOUS
<1>3. PICK r : r = line[k]
  OBVIOUS
<1>4. /\ p \in Nat
      /\ r[1] \in Nat /\ r[2] \in 0 .. 3
      /\ CodeAt(data, p) = <<Len(RunCode(r)), 4 * r[1] + r[2]>>
      /\ Advanced(data, p, Len(RunCode(r))) = Pos(u, y) + CodeTo(line, k)
      /\ Pos(u, y) + CodeTo(line, k) \in Nat
      /\ k = Len(line) => Aligned(Pos(u, y) + CodeTo(line, k)) = Pos(u, y + 2)
  <2>1. RunRead(u, y, k, p, r)
    BY <1>0, <1>2, <1>3, RunReads
  <2> QED BY <2>1 DEF RunRead, data
<1>5. /\ Len(line) \in Nat \ {0} /\ k \in 1 .. Len(line)
      /\ Columns(line, k - 1) \in Nat /\ e \in Nat /\ Columns(line, k - 1) < e
      /\ k < Len(line) => Columns(line, k) < Width(u)
      /\ RunLength(r[1], Width(u) - Columns(line, k - 1)) = e - Columns(line, k - 1)
  <2>1. k \in 1 .. Len(line) /\ e = EndOf(line, Width(u), k)
    OBVIOUS
  <2>2. Len(line) \in Nat \ {0}
    BY <1>0, <1>1, RunsAre
  <2>3. /\ Columns(line, k - 1) \in Nat /\ EndOf(line, Width(u), k) \in Nat
        /\ Columns(line, k - 1) < EndOf(line, Width(u), k)
        /\ k < Len(line) => Columns(line, k) < Width(u)
        /\ RunLength(line[k][1], Width(u) - Columns(line, k - 1))
             = EndOf(line, Width(u), k) - Columns(line, k - 1)
    <3>1. Width(u) \in Nat \ {0} /\ line \in Seq(Run) /\ Covers(line, Width(u))
      BY <1>0, <1>1
    <3> HIDE DEF data
    <3> QED BY <2>1, <3>1, RunAt
  <2> QED BY <1>3, <2>1, <2>2, <2>3
<1>6. /\ s.y = y /\ s.odd = y % 2 /\ s.x = Columns(line, k - 1)
      /\ s.nibble[(y % 2) + 1] = p /\ DOMAIN s.image = Grid(u)
  BY <1>2 DEF Reading
<1> HIDE DEF data
<1>7. PICK x \in Nat, w \in Nat, q \in Nat, v \in 0 .. 3, z \in Nat :
        x = Columns(line, k - 1) /\ w = Width(u) /\ q = r[1] /\ v = r[2] /\ z = e
  BY <1>0, <1>4, <1>5
<1>8. (4 * q + v) \div 4 = q /\ (4 * q + v) % 4 = v /\ x + (z - x) = z
  OBVIOUS
<1>9. OneRun(data, d, s) =
        Painted(s, z - x, z >= w, v, Pos(u, y) + CodeTo(line, k))
  <2>1. OneRun(data, d, s) = RunOf(data, d, s, p, <<Len(RunCode(r)), 4 * q + v>>)
    BY <1>4, <1>6, <1>7 DEF OneRun
  <2>2. RunLength(q, w - x) = z - x
    BY <1>5, <1>7
  <2>3. d.width = w /\ s.x = x
    BY <1>6, <1>7
  <2>4. Advanced(data, p, Len(RunCode(r))) = Pos(u, y) + CodeTo(line, k)
    BY <1>4
  <2> QED BY <2>1, <2>2, <2>3, <2>4, <1>8 DEF RunOf
<1>10. k = Len(line) => z = w
  BY <1>7 DEF EndOf
<1>11. k < Len(line) => z = Columns(line, k) /\ z < w
  BY <1>5, <1>7 DEF EndOf
<1>12. t.image = [c \in Grid(u) |->
                    IF c[1] = y /\ c[2] \in Columns(line, k - 1) .. e - 1
                    THEN line[k][2] ELSE s.image[c]]
  <2>1. t.image = [c \in DOMAIN s.image |->
                     IF c[1] = s.y /\ c[2] \in s.x .. s.x + (z - x) - 1 THEN v ELSE s.image[c]]
    BY <1>9 DEF Painted, data
  <2>2. s.x + (z - x) - 1 = z - 1
    BY <1>6, <1>7
  <2> QED BY <1>3, <1>6, <1>7, <2>1, <2>2
<1>13. ASSUME k = Len(line)
       PROVE  /\ t.nibble = [s.nibble EXCEPT ![(y % 2) + 1] = Pos(u, y + 2)]
              /\ t.odd = 1 - (y % 2) /\ t.x = 0 /\ t.y = y + 1
  <2>1. z >= w
    BY <1>10, <1>13
  <2>2. /\ t.nibble = [s.nibble EXCEPT ![s.odd + 1] = Aligned(Pos(u, y) + CodeTo(line, k))]
        /\ t.odd = 1 - s.odd /\ t.x = 0 /\ t.y = s.y + 1
    BY <1>9, <2>1 DEF Painted, data
  <2> QED BY <1>4, <1>6, <1>13, <2>2
<1>14. ASSUME k < Len(line)
       PROVE  /\ t.nibble = [s.nibble EXCEPT ![(y % 2) + 1] = Pos(u, y) + CodeTo(line, k)]
              /\ t.odd = y % 2 /\ t.x = Columns(line, k) /\ t.y = y
  <2>1. ~(z >= w)
    BY <1>11, <1>14
  <2>2. /\ t.nibble = [s.nibble EXCEPT ![s.odd + 1] = Pos(u, y) + CodeTo(line, k)]
        /\ t.odd = s.odd /\ t.x = s.x + (z - x) /\ t.y = s.y
    BY <1>9, <2>1 DEF Painted, data
  <2>3. s.x + (z - x) = Columns(line, k)
    BY <1>6, <1>7, <1>8, <1>11, <1>14
  <2> QED BY <1>6, <2>2, <2>3
<1> QED BY <1>12, <1>13, <1>14 DEF TurnOf

\* It brings the loop to the next run, or to the end of the picture.
LEMMA ReadingGoesOn ==
    ASSUME script \in Scripts, NEW u \in 1 .. Len(script),
           NEW d, d.width = Width(u),
           NEW s, NEW y \in 0 .. Height(u) - 1, NEW k \in 1 .. Len(Lines(u)[y + 1]),
           Reading(u, s, y, k),
           NEW t, t = OneRun(Nibbles(u), d, s)
    PROVE  /\ k < Len(Lines(u)[y + 1]) => Reading(u, t, y, k + 1) /\ s.x < t.x
           /\ k = Len(Lines(u)[y + 1]) /\ y + 1 < Height(u)
                => Reading(u, t, y + 1, 1) /\ 1 \in 1 .. Len(Lines(u)[(y + 1) + 1])
           /\ k = Len(Lines(u)[y + 1]) /\ y + 1 = Height(u) => Finished(u, t)
           /\ s.x \in 0 .. Width(u) - 1
<1>1. PICK line, e, w, h : line = Lines(u)[y + 1] /\ e = EndOf(line, w, k) /\ w = Width(u) /\ h = Height(u)
  OBVIOUS
<1>2. h \in Nat \ {0} /\ w \in Nat \ {0} /\ y \in 0 .. h - 1 /\ y \in Nat /\ y + 1 \in 0 .. h
  BY <1>1, LinesAre
<1>3. line \in Seq(Run) /\ Covers(line, w)
  <2>1. y + 1 \in 1 .. Len(Lines(u))
    BY <1>1, <1>2, LinesAre
  <2> QED BY <1>1, <2>1, LinesAre
<1>4. /\ k = Len(line) => /\ t.nibble = [s.nibble EXCEPT ![(y % 2) + 1] = Pos(u, y + 2)]
                          /\ t.odd = 1 - (y % 2) /\ t.x = 0 /\ t.y = y + 1
      /\ k < Len(line) => /\ t.nibble = [s.nibble EXCEPT ![(y % 2) + 1] = Pos(u, y) + CodeTo(line, k)]
                          /\ t.odd = y % 2 /\ t.x = Columns(line, k) /\ t.y = y
      /\ t.image = [c \in Grid(u) |->
                      IF c[1] = y /\ c[2] \in Columns(line, k - 1) .. e - 1
                      THEN line[k][2] ELSE s.image[c]]
  <2>1. TurnOf(u, s, y, k, line, e, t)
    BY <1>1, TurnIs
  <2> QED BY <2>1 DEF TurnOf
<1>5. /\ Len(line) \in Nat \ {0} /\ k \in 1 .. Len(line)
      /\ Columns(line, k - 1) \in Nat /\ e \in Nat /\ Columns(line, k - 1) < e
      /\ k < Len(line) => Columns(line, k) < w
  BY <1>1, <1>2, <1>3, RunsAre
<1>6. \A x \in Columns(line, k - 1) .. e - 1 : PixelAt(line, x) = line[k][2]
  <2>1. \A x \in Columns(line, k - 1) .. EndOf(line, w, k) - 1 : PixelAt(line, x) = line[k][2]
    BY <1>2, <1>3, <1>5, RunsAre
  <2> QED BY <1>1, <2>1
<1>7. /\ s.x = Columns(line, k - 1) /\ DOMAIN s.image = Grid(u)
      /\ s.nibble \in [{1, 2} -> Nat] /\ s.nibble[2 - (y % 2)] = Pos(u, y + 1)
      /\ \A c \in Grid(u) : (c[1] < y \/ (c[1] = y /\ c[2] < s.x)) => s.image[c] = Drawn(u)[c]
  BY <1>1 DEF Reading
<1>8. \A c \in Grid(u) : c[1] \in 0 .. h - 1 /\ c[2] \in 0 .. w - 1
                         /\ Drawn(u)[c] = PixelAt(Lines(u)[c[1] + 1], c[2])
  <2>1. ASSUME NEW c \in Grid(u) PROVE c[1] \in 0 .. h - 1 /\ c[2] \in 0 .. w - 1
    BY <1>1 DEF Grid
  <2>2. ASSUME NEW c \in Grid(u) PROVE Drawn(u)[c] = PixelAt(Lines(u)[c[1] + 1], c[2])
    BY DEF Grid, Drawn, Lines
  <2> QED BY <2>1, <2>2
\* What is drawn up to the end of the run.
<1>9. ASSUME NEW c \in Grid(u), c[1] < y \/ (c[1] = y /\ c[2] < e)
      PROVE  t.image[c] = Drawn(u)[c]
  <2>1. c[1] \in Nat /\ c[2] \in Nat /\ Drawn(u)[c] = PixelAt(Lines(u)[c[1] + 1], c[2])
    BY <1>2, <1>8
  <2>2. CASE c[1] = y /\ c[2] >= Columns(line, k - 1)
    <3>1. c[2] \in Columns(line, k - 1) .. e - 1
      BY <1>5, <1>9, <2>1, <2>2, <1>2
    <3>2. t.image[c] = line[k][2]
      BY <1>4, <2>2, <3>1
    <3>3. PixelAt(line, c[2]) = line[k][2]
      BY <1>6, <3>1
    <3> QED BY <1>1, <2>1, <2>2, <3>2, <3>3
  <2>3. CASE ~(c[1] = y /\ c[2] >= Columns(line, k - 1))
    <3>1. c[1] < y \/ (c[1] = y /\ c[2] < s.x)
      BY <1>2, <1>5, <1>7, <1>9, <2>1, <2>3
    <3>2. ~(c[1] = y /\ c[2] \in Columns(line, k - 1) .. e - 1)
      BY <1>5, <2>1, <2>3
    <3>3. t.image[c] = s.image[c]
      BY <1>4, <3>2
    <3> QED BY <1>7, <3>1, <3>3
  <2> QED BY <2>2, <2>3
<1>10. DOMAIN t.image = Grid(u)
  BY <1>4
<1>11. s.x \in 0 .. w - 1
  <2>1. e <= w
    <3>1. k < Len(line) => e = Columns(line, k)
      BY <1>1 DEF EndOf
    <3>2. ~(k < Len(line)) => e = w
      BY <1>1 DEF EndOf
    <3> QED BY <1>2, <1>5, <3>1, <3>2
  <2> QED BY <1>2, <1>5, <1>7, <2>1
<1>12. ASSUME k < Len(line) PROVE Reading(u, t, y, k + 1) /\ s.x < t.x
  <2>1. e = Columns(line, k) /\ (k + 1) - 1 = k
    BY <1>1, <1>5, <1>12 DEF EndOf
  <2>2. Pos(u, y) + CodeTo(line, k) \in Nat
    <3>1. RunRead(u, y, k, Pos(u, y) + CodeTo(line, k - 1), line[k])
      BY <1>1, <1>2, RunReads
    <3> QED BY <1>1, <3>1 DEF RunRead
  <2>3. t.nibble \in [{1, 2} -> Nat] /\ t.nibble[(y % 2) + 1] = Pos(u, y) + CodeTo(line, k)
        /\ t.nibble[2 - (y % 2)] = Pos(u, y + 1)
    <3>1. y % 2 = 0 \/ y % 2 = 1
      BY <1>2
    <3>2. CASE y % 2 = 0
      <4>1. t.nibble = [s.nibble EXCEPT ![1] = Pos(u, y) + CodeTo(line, k)] /\ s.nibble[2] = Pos(u, y + 1)
        BY <1>4, <1>7, <1>12, <3>2
      <4> QED BY <1>7, <2>2, <3>2, <4>1
    <3>3. CASE y % 2 = 1
      <4>1. t.nibble = [s.nibble EXCEPT ![2] = Pos(u, y) + CodeTo(line, k)] /\ s.nibble[1] = Pos(u, y + 1)
        BY <1>4, <1>7, <1>12, <3>3
      <4> QED BY <1>7, <2>2, <3>3, <4>1
    <3> QED BY <3>1, <3>2, <3>3
  <2>4. t.odd = y % 2 /\ t.x = Columns(line, k) /\ t.y = y
    BY <1>4, <1>12
  <2>5. \A c \in Grid(u) : (c[1] < y \/ (c[1] = y /\ c[2] < t.x)) => t.image[c] = Drawn(u)[c]
    BY <1>9, <2>1, <2>4
  <2>6. Reading(u, t, y, k + 1)
    BY <1>1, <1>10, <2>1, <2>3, <2>4, <2>5 DEF Reading
  <2> QED BY <1>5, <1>7, <2>1, <2>4, <2>6
<1>13. k = Len(line) => e = w
  BY <1>1, <1>5 DEF EndOf
<1>14. ASSUME k = Len(line), y + 1 < h
       PROVE Reading(u, t, y + 1, 1) /\ 1 \in 1 .. Len(Lines(u)[(y + 1) + 1])
  <2> DEFINE row == Lines(u)[(y + 1) + 1]
  <2>1. row \in Seq(Run) /\ Covers(row, w)
    <3>1. (y + 1) + 1 \in 1 .. Len(Lines(u))
      BY <1>1, <1>2, <1>14, LinesAre
    <3> QED BY <1>1, <3>1, LinesAre
  <2> HIDE DEF row
  <2>2. 1 \in 1 .. Len(row) /\ CodeTo(row, 1 - 1) = 0 /\ Columns(row, 1 - 1) = 0
    <3>1. Len(row) \in Nat \ {0}
      BY <1>2, <2>1, RunsAre
    <3>2. CodeTo(row, 0) = 0 /\ Columns(row, 0) = 0
      BY <2>1, LineCodeIs, ColumnsAre
    <3> QED BY <3>1, <3>2
  <2>3. Pos(u, y + 1) \in Nat /\ Pos(u, y + 2) \in Nat /\ y + 2 = (y + 1) + 1
    <3>1. y + 1 \in 0 .. Height(u) /\ y + 2 \in 0 .. Height(u)
      BY <1>1, <1>2, <1>14
    <3> QED BY <1>2, <3>1, PosIs
  <2>4. t.nibble \in [{1, 2} -> Nat] /\ t.nibble[((y + 1) % 2) + 1] = Pos(u, y + 1)
        /\ t.nibble[2 - ((y + 1) % 2)] = Pos(u, (y + 1) + 1) /\ t.odd = (y + 1) % 2
    <3>1. y % 2 = 0 \/ y % 2 = 1
      BY <1>2
    <3>2. CASE y % 2 = 0
      <4>1. t.nibble = [s.nibble EXCEPT ![1] = Pos(u, y + 2)] /\ s.nibble[2] = Pos(u, y + 1)
        BY <1>4, <1>7, <1>14, <3>2
      <4>2. (y + 1) % 2 = 1
        BY <1>2, <3>2
      <4>3. t.odd = 1
        BY <1>4, <1>14, <3>2
      <4> QED BY <1>7, <2>3, <4>1, <4>2, <4>3
    <3>3. CASE y % 2 = 1
      <4>1. t.nibble = [s.nibble EXCEPT ![2] = Pos(u, y + 2)] /\ s.nibble[1] = Pos(u, y + 1)
        BY <1>4, <1>7, <1>14, <3>3
      <4>2. (y + 1) % 2 = 0
        BY <1>2, <3>3
      <4>3. t.odd = 0
        BY <1>4, <1>14, <3>3
      <4> QED BY <1>7, <2>3, <4>1, <4>2, <4>3
    <3> QED BY <3>1, <3>2, <3>3
  <2>5. t.x = 0 /\ t.y = y + 1
    BY <1>4, <1>14
  <2>6. ASSUME NEW c \in Grid(u), c[1] < y + 1 \/ (c[1] = y + 1 /\ c[2] < t.x)
        PROVE  t.image[c] = Drawn(u)[c]
    <3>1. c[1] \in Nat /\ c[2] \in Nat /\ c[2] < w
      BY <1>2, <1>8
    <3>2. c[1] < y \/ (c[1] = y /\ c[2] < e)
      BY <1>2, <1>13, <1>14, <2>5, <2>6, <3>1
    <3> QED BY <1>9, <3>2
  <2>7. t.nibble[((y + 1) % 2) + 1] = Pos(u, y + 1) + CodeTo(row, 1 - 1)
    BY <2>2, <2>3, <2>4
  <2>8. Reading(u, t, y + 1, 1)
    BY <1>10, <2>2, <2>4, <2>5, <2>6, <2>7 DEF Reading, row
  <2> QED BY <2>2, <2>8 DEF row
<1>15. ASSUME k = Len(line), y + 1 = h PROVE Finished(u, t)
  <2>1. ASSUME NEW c \in Grid(u) PROVE t.image[c] = Drawn(u)[c]
    <3>1. c[1] \in 0 .. h - 1 /\ c[2] \in Nat /\ c[2] < w
      BY <1>2, <1>8
    <3>2. c[1] < y \/ (c[1] = y /\ c[2] < e)
      BY <1>2, <1>13, <1>15, <3>1
    <3> QED BY <1>9, <3>2
  <2>2. t.y = Height(u)
    BY <1>1, <1>4, <1>15
  <2>3. t.image = [c \in Grid(u) |-> t.image[c]]
    BY <1>4
  <2>4. Drawn(u) = [c \in Grid(u) |-> Drawn(u)[c]]
    BY DEF Drawn, Grid
  <2>5. t.image = Drawn(u)
    BY <2>1, <2>3, <2>4
  <2> QED BY <2>2, <2>5 DEF Finished
<1> QED BY <1>1, <1>11, <1>12, <1>14, <1>15

\* The turns of the loop, one after the other
Turns(data, d, n, f) == f[0] = First(d) /\ \A k \in 1 .. n : f[k] = Turn(data, d, f[k - 1])

LEMMA TurnsExist ==
    ASSUME NEW data, NEW d, NEW n \in Nat
    PROVE  \E f : f = [k \in 0 .. n |-> f[k]] /\ Turns(data, d, n, f)
<1> DEFINE M == {m \in Nat : \E f : f = [k \in 0 .. m |-> f[k]] /\ Turns(data, d, m, f)}
<1>1. 0 \in M
  <2> DEFINE f == [k \in 0 .. 0 |-> First(d)]
  <2>1. f = [k \in 0 .. 0 |-> f[k]] /\ f[0] = First(d)
    OBVIOUS
  <2> HIDE DEF f
  <2>2. Turns(data, d, 0, f)
    BY <2>1 DEF Turns
  <2> QED BY <2>1, <2>2
<1>2. ASSUME NEW m \in Nat, m \in M PROVE m + 1 \in M
  <2>1. PICK f : f = [k \in 0 .. m |-> f[k]] /\ Turns(data, d, m, f)
    BY <1>2
  <2> HIDE DEF M
  <2> DEFINE g == [k \in 0 .. m + 1 |-> IF k = m + 1 THEN Turn(data, d, f[m]) ELSE f[k]]
  <2>2. g = [k \in 0 .. m + 1 |-> g[k]]
    OBVIOUS
  <2>3. g[0] = First(d)
    BY <2>1 DEF Turns
  <2>4. ASSUME NEW k \in 1 .. m + 1 PROVE g[k] = Turn(data, d, g[k - 1])
    <3>1. k - 1 \in 0 .. m /\ k - 1 # m + 1
      OBVIOUS
    <3>2. g[k - 1] = f[k - 1]
      BY <3>1
    <3>3. CASE k = m + 1
      <4>1. g[k] = Turn(data, d, f[m]) /\ k - 1 = m
        BY <3>3
      <4> HIDE DEF g
      <4> QED BY <3>2, <4>1
    <3>4. CASE k # m + 1
      <4>1. k \in 1 .. m /\ g[k] = f[k]
        BY <3>4
      <4> HIDE DEF g
      <4> QED BY <2>1, <3>2, <4>1 DEF Turns
    <3> QED BY <3>3, <3>4
  <2> HIDE DEF g
  <2>5. Turns(data, d, m + 1, g)
    BY <2>3, <2>4 DEF Turns
  <2> QED BY <2>2, <2>5 DEF M
<1> HIDE DEF M
<1>3. n \in M
  BY <1>1, <1>2, SetInduction
<1> QED BY <1>3 DEF M

LEMMA DecodedIs ==
    ASSUME NEW data, NEW d, NEW n \in Nat, n = d.width * d.height
    PROVE  \E f : Turns(data, d, n, f) /\ Decoded(data, d) = f[n]
<1> DEFINE F(f) == [k \in 0 .. n |-> IF k = 0 THEN First(d) ELSE Turn(data, d, f[k - 1])]
           g == CHOOSE f : f = F(f)
<1>1. Decoded(data, d) = g[n]
  BY DEF Decoded
<1>2. PICK f : f = [k \in 0 .. n |-> f[k]] /\ Turns(data, d, n, f)
  BY TurnsExist
<1>3. f = F(f)
  <2>1. ASSUME NEW k \in 0 .. n PROVE f[k] = IF k = 0 THEN First(d) ELSE Turn(data, d, f[k - 1])
    <3>1. CASE k = 0
      BY <1>2, <3>1 DEF Turns
    <3>2. CASE k # 0
      <4>1. k \in 1 .. n
        BY <3>2
      <4> QED BY <1>2, <3>2, <4>1 DEF Turns
    <3> QED BY <3>1, <3>2
  <2>2. F(f) = [k \in 0 .. n |-> f[k]]
    BY <2>1
  <2> HIDE DEF F
  <2> QED BY <1>2, <2>2
<1>4. g = F(g)
  <2> HIDE DEF F
  <2> QED BY <1>3
<1> HIDE DEF g
<1>5. \A k \in 0 .. n : g[k] = IF k = 0 THEN First(d) ELSE Turn(data, d, g[k - 1])
  BY <1>4
<1>6. Turns(data, d, n, g)
  <2>1. 0 \in 0 .. n /\ \A k \in 1 .. n : k \in 0 .. n /\ k # 0
    OBVIOUS
  <2> QED BY <1>5, <2>1 DEF Turns
<1> QED BY <1>1, <1>6

\* No turn changes where the image has pixels.
LEMMA DecodedDomain ==
    ASSUME NEW data, NEW d, d.width \in Nat, d.height \in Nat
    PROVE  DOMAIN Decoded(data, d).image = (0 .. d.height - 1) \X (0 .. d.width - 1)
<1> DEFINE D == (0 .. d.height - 1) \X (0 .. d.width - 1)
<1>1. PICK n \in Nat : n = d.width * d.height
  <2>1. d.width * d.height \in Nat
    OBVIOUS
  <2> QED BY <2>1
<1>2. PICK f : Turns(data, d, n, f) /\ Decoded(data, d) = f[n]
  BY <1>1, DecodedIs
<1> DEFINE S == {m \in Nat : m <= n => DOMAIN f[m].image = D}
<1>3. 0 \in S
  <2>1. f[0] = First(d)
    BY <1>2 DEF Turns
  <2>2. First(d).image = Canvas(d)
    BY DEF First
  <2>3. DOMAIN Canvas(d) = D
    BY DEF Canvas
  <2> QED BY <2>1, <2>2, <2>3
<1>4. ASSUME NEW m \in Nat, m \in S PROVE m + 1 \in S
  <2> SUFFICES ASSUME m + 1 <= n PROVE DOMAIN f[m + 1].image = D
    OBVIOUS
  <2>1. DOMAIN f[m].image = D
    BY <1>4
  <2> HIDE DEF S, D
  <2>2. m + 1 \in 1 .. n /\ (m + 1) - 1 = m
    OBVIOUS
  <2>3. f[m + 1] = Turn(data, d, f[m])
    BY <1>2, <2>2 DEF Turns
  <2>4. CASE Going(data, d, f[m])
    <3>1. f[m + 1] = OneRun(data, d, f[m])
      BY <2>3, <2>4 DEF Turn
    <3>2. \A s, len, ends, pixel, moved : DOMAIN Painted(s, len, ends, pixel, moved).image = DOMAIN s.image
      BY DEF Painted
    <3>3. DOMAIN OneRun(data, d, f[m]).image = DOMAIN f[m].image
      BY <3>2 DEF OneRun, RunOf
    <3> QED BY <2>1, <3>1, <3>3
  <2>5. CASE ~Going(data, d, f[m])
    BY <2>1, <2>3, <2>5 DEF Turn
  <2> QED BY <2>4, <2>5
<1> HIDE DEF S
<1>5. n \in S
  BY <1>3, <1>4, SetInduction
<1> QED BY <1>2, <1>5 DEF S

LEMMA Times ==
    ASSUME NEW a \in Nat, NEW b \in Nat, NEW c \in Nat, a < b
    PROVE  a * c \in Nat /\ (a + 1) * c = a * c + c /\ a * c + c <= b * c /\ b * c = c * b
<1>1. PICK e \in Nat : b = (a + 1) + e
  <2>1. b - (a + 1) \in Nat /\ b = (a + 1) + (b - (a + 1))
    OBVIOUS
  <2> QED BY <2>1
<1>2. b * c = ((a + 1) * c) + (e * c)
  BY <1>1
<1>3. e * c \in Nat /\ a * c \in Nat
  OBVIOUS
<1> QED BY <1>2, <1>3

\* After n turns n pixels are set at least, or the picture is complete.
Progress(u, s, n) ==
    \/ Finished(u, s)
    \/ \E y \in 0 .. Height(u) - 1 : \E k \in 1 .. Len(Lines(u)[y + 1]) :
         Reading(u, s, y, k) /\ n <= y * Width(u) + s.x

LEMMA ProgressStep ==
    ASSUME script \in Scripts, NEW u \in 1 .. Len(script),
           NEW d, d.width = Width(u), d.height = Height(u), d.nibble = LineStarts(u),
           NEW s, NEW n \in Nat, Progress(u, s, n)
    PROVE  Progress(u, Turn(Nibbles(u), d, s), n + 1)
<1>0. Height(u) \in Nat \ {0} /\ Width(u) \in Nat \ {0}
  BY LinesAre
<1>1. CASE Finished(u, s)
  <2>1. ~(s.y < d.height)
    BY <1>0, <1>1 DEF Finished
  <2>2. Turn(Nibbles(u), d, s) = s
    BY <2>1 DEF Turn, Going
  <2> QED BY <1>1, <2>2 DEF Progress
<1>2. ASSUME NEW y \in 0 .. Height(u) - 1, NEW k \in 1 .. Len(Lines(u)[y + 1]),
             Reading(u, s, y, k), n <= y * Width(u) + s.x
      PROVE  Progress(u, Turn(Nibbles(u), d, s), n + 1)
  <2>1. PICK t : t = OneRun(Nibbles(u), d, s)
    OBVIOUS
  <2>2. Turn(Nibbles(u), d, s) = t
    <3>1. d.nibble[2] = LineStarts(u)[2]
      OBVIOUS
    <3>2. Going(Nibbles(u), d, s)
      BY <1>2, <3>1, GoesOn
    <3> QED BY <2>1, <3>2 DEF Turn
  <2>3. /\ k < Len(Lines(u)[y + 1]) => Reading(u, t, y, k + 1) /\ s.x < t.x
        /\ k = Len(Lines(u)[y + 1]) /\ y + 1 < Height(u)
             => Reading(u, t, y + 1, 1) /\ 1 \in 1 .. Len(Lines(u)[(y + 1) + 1])
        /\ k = Len(Lines(u)[y + 1]) /\ y + 1 = Height(u) => Finished(u, t)
        /\ s.x \in 0 .. Width(u) - 1
    BY <1>2, <2>1, ReadingGoesOn
  <2>4. y \in Nat /\ Len(Lines(u)[y + 1]) \in Nat
    <3>1. y \in Nat /\ y + 1 \in 1 .. Len(Lines(u))
      BY <1>0, LinesAre
    <3>2. Lines(u)[y + 1] \in Seq(Run)
      BY <3>1, LinesAre
    <3> QED BY <3>1, <3>2
  <2>5. PICK w \in Nat, a \in Nat : w = Width(u) /\ a = y * w /\ (y + 1) * w = a + w
    <3>1. y < y + 1 /\ y + 1 \in Nat
      BY <2>4
    <3>2. y * Width(u) \in Nat /\ (y + 1) * Width(u) = y * Width(u) + Width(u)
      BY <1>0, <2>4, <3>1, Times
    <3> QED BY <1>0, <3>2
  <2>10. PICK x \in Nat : x = s.x /\ x < w /\ n <= a + x
    <3>0. s.x \in 0 .. w - 1
      BY <2>3, <2>5
    <3>1. s.x \in Nat /\ s.x < w
      BY <3>0
    <3>2. n <= a + s.x
      BY <1>2, <2>5
    <3> QED BY <3>1, <3>2
  <2>6. CASE k < Len(Lines(u)[y + 1])
    <3>1. k + 1 \in 1 .. Len(Lines(u)[y + 1])
      BY <2>4, <2>6
    <3>2. t.x \in Nat
      <4>1. y + 1 \in 1 .. Len(Lines(u)) /\ k \in 0 .. Len(Lines(u)[y + 1]) /\ (k + 1) - 1 = k
        BY <1>0, <2>4, LinesAre
      <4>2. t.x = Columns(Lines(u)[y + 1], k)
        BY <2>3, <2>6, <4>1 DEF Reading
      <4>3. Lines(u)[y + 1] \in Seq(Run)
        BY <4>1, LinesAre
      <4> QED BY <4>1, <4>2, <4>3, ColumnsAre
    <3>3. n + 1 <= y * Width(u) + t.x
      <4>1. PICK z \in Nat : z = t.x /\ x < z
        BY <2>3, <2>6, <2>10, <3>2
      <4>2. n + 1 <= a + z
        BY <2>10, <4>1
      <4> QED BY <2>5, <4>1, <4>2
    <3>4. Reading(u, t, y, k + 1)
      BY <2>3, <2>6
    <3> QED BY <2>2, <3>1, <3>3, <3>4 DEF Progress
  <2>7. CASE k = Len(Lines(u)[y + 1]) /\ y + 1 < Height(u)
    <3>1. Reading(u, t, y + 1, 1) /\ 1 \in 1 .. Len(Lines(u)[(y + 1) + 1])
      BY <2>3, <2>7
    <3>2. y + 1 \in 0 .. Height(u) - 1
      BY <1>0, <2>4, <2>7
    <3>3. t.x = 0
      <4>1. (y + 1) + 1 \in 1 .. Len(Lines(u))
        BY <1>0, <3>2, LinesAre
      <4>2. Lines(u)[(y + 1) + 1] \in Seq(Run)
        BY <4>1, LinesAre
      <4>3. Columns(Lines(u)[(y + 1) + 1], 0) = 0 /\ 1 - 1 = 0
        BY <4>2, ColumnsAre
      <4> QED BY <3>1, <4>3 DEF Reading
    <3>4. n + 1 <= (y + 1) * Width(u) + t.x
      <4>1. n + 1 <= (a + w) + 0
        BY <2>10
      <4> QED BY <2>5, <3>3, <4>1
    <3> QED BY <2>2, <3>1, <3>2, <3>4 DEF Progress
  <2>8. CASE k = Len(Lines(u)[y + 1]) /\ y + 1 = Height(u)
    BY <2>2, <2>3, <2>8 DEF Progress
  <2>9. (k < Len(Lines(u)[y + 1]) \/ k = Len(Lines(u)[y + 1])) /\ (y + 1 < Height(u) \/ y + 1 = Height(u))
    BY <1>0, <2>4
  <2> QED BY <2>6, <2>7, <2>8, <2>9
<1> QED BY <1>1, <1>2 DEF Progress

\* The picture comes out as it was drawn.
LEMMA DecodedRight ==
    ASSUME script \in Scripts, NEW u \in 1 .. Len(script),
           NEW d, d.width = Width(u), d.height = Height(u), d.nibble = LineStarts(u)
    PROVE  Decoded(Nibbles(u), d).image = Drawn(u)
<1>0. Height(u) \in Nat \ {0} /\ Width(u) \in Nat \ {0}
  BY LinesAre
<1>1. PICK n \in Nat : n = d.width * d.height
  <2>1. d.width * d.height \in Nat
    BY <1>0
  <2> QED BY <2>1
<1>2. PICK f : Turns(Nibbles(u), d, n, f) /\ Decoded(Nibbles(u), d) = f[n]
  BY <1>1, DecodedIs
<1> DEFINE S == {m \in Nat : m <= n => Progress(u, f[m], m)}
<1>3. 0 \in S
  <2>1. f[0] = First(d)
    BY <1>2 DEF Turns
  <2>2. 0 \in 0 .. Height(u) - 1 /\ 0 + 1 = 1 /\ 1 \in 1 .. Len(Lines(u)) /\ 1 - 1 = 0
    BY <1>0, LinesAre
  <2> DEFINE line == Lines(u)[1]
  <2>3. line \in Seq(Run) /\ Covers(line, Width(u))
    BY <2>2, LinesAre
  <2> HIDE DEF line
  <2>4. 1 \in 1 .. Len(line) /\ CodeTo(line, 0) = 0 /\ Columns(line, 0) = 0
    <3>1. Len(line) \in Nat \ {0}
      BY <1>0, <2>3, RunsAre
    <3> QED BY <2>3, <3>1, LineCodeIs, ColumnsAre
  <2>5. Pos(u, 0) \in Nat /\ Pos(u, 1) \in Nat /\ Pos(u, 0) = LineStarts(u)[1] /\ Pos(u, 1) = LineStarts(u)[2]
    <3>1. 0 \in 0 .. Height(u) /\ 1 \in 0 .. Height(u)
      BY <1>0
    <3> QED BY <3>1, PosIs
  <2>6. LineStarts(u) \in [{1, 2} -> Nat]
    <3>1. LineStarts(u) = <<LineStarts(u)[1], LineStarts(u)[2]>>
      BY DEF LineStarts
    <3> QED BY <2>5, <3>1
  <2>7. 0 % 2 = 0 /\ (0 % 2) + 1 = 1 /\ 2 - (0 % 2) = 2
    OBVIOUS
  <2>8. /\ First(d).nibble = LineStarts(u) /\ First(d).odd = 0 /\ First(d).x = 0 /\ First(d).y = 0
        /\ First(d).image = Canvas(d)
    BY DEF First
  <2>9. DOMAIN Canvas(d) = Grid(u)
    BY DEF Canvas, Grid
  <2>10. \A c \in Grid(u) : ~(c[1] < 0 \/ (c[1] = 0 /\ c[2] < 0))
    BY DEF Grid
  <2>11. Reading(u, First(d), 0, 1)
    BY <2>2, <2>4, <2>5, <2>6, <2>7, <2>8, <2>9, <2>10 DEF Reading, line
  <2>12. 0 <= 0 * Width(u) + First(d).x
    BY <1>0, <2>8
  <2>13. 1 \in 1 .. Len(Lines(u)[0 + 1])
    BY <2>2, <2>4 DEF line
  <2>14. Progress(u, First(d), 0)
    BY <2>2, <2>11, <2>12, <2>13 DEF Progress
  <2> QED BY <2>1, <2>14
<1>4. ASSUME NEW m \in Nat, m \in S PROVE m + 1 \in S
  <2> SUFFICES ASSUME m + 1 <= n PROVE Progress(u, f[m + 1], m + 1)
    OBVIOUS
  <2>1. Progress(u, f[m], m)
    BY <1>4
  <2> HIDE DEF S
  <2>2. m + 1 \in 1 .. n /\ (m + 1) - 1 = m
    OBVIOUS
  <2>3. f[m + 1] = Turn(Nibbles(u), d, f[m])
    BY <1>2, <2>2 DEF Turns
  <2> QED BY <2>1, <2>3, ProgressStep
<1> HIDE DEF S
<1>5. n \in S
  BY <1>3, <1>4, SetInduction
<1>6. Progress(u, f[n], n)
  BY <1>5 DEF S
<1>7. ASSUME NEW y \in 0 .. Height(u) - 1, NEW k \in 1 .. Len(Lines(u)[y + 1]),
             Reading(u, f[n], y, k), n <= y * Width(u) + f[n].x
      PROVE  FALSE
  <2>1. f[n].x \in 0 .. Width(u) - 1
    BY <1>7, ReadingGoesOn
  <2>2. y * Width(u) \in Nat /\ y * Width(u) + Width(u) <= Height(u) * Width(u)
        /\ Height(u) * Width(u) = Width(u) * Height(u)
    <3>1. y \in Nat /\ y < Height(u) /\ Height(u) \in Nat /\ Width(u) \in Nat
      BY <1>0
    <3> QED BY <3>1, Times
  <2>3. PICK w \in Nat : w = Width(u)
    BY <1>0
  <2>4. PICK a \in Nat : a = y * Width(u)
    BY <2>2
  <2>5. PICK x \in Nat : x = f[n].x /\ x < w
    <3>1. f[n].x \in 0 .. w - 1
      BY <2>1, <2>3
    <3> QED BY <3>1
  <2>6. a + w <= n
    <3>1. n = Width(u) * Height(u)
      BY <1>1
    <3>2. n = Height(u) * Width(u)
      BY <2>2, <3>1
    <3> QED BY <2>2, <2>3, <2>4, <3>2
  <2>7. n <= a + x
    BY <1>7, <2>4, <2>5
  <2>8. x < w
    BY <2>5
  <2> QED BY <2>6, <2>7, <2>8
<1> QED BY <1>2, <1>6, <1>7 DEF Progress, Finished

-------------------------------------------------------------------------------
(***************************************************************************)
(* Titles                                                                  *)
(***************************************************************************)
IsSeq(s) == \E S : s \in Seq(S)

LEMMA Appended ==
    ASSUME NEW s, IsSeq(s), NEW e
    PROVE  /\ IsSeq(Append(s, e)) /\ Len(s) \in Nat
           /\ Len(Append(s, e)) = Len(s) + 1
           /\ \A i \in 1 .. Len(s) : Append(s, e)[i] = s[i]
           /\ Append(s, e)[Len(s) + 1] = e
           /\ Append(s, e) # <<>>
<1>1. PICK S : s \in Seq(S)
  BY DEF IsSeq
<1>2. s \in Seq(S \cup {e}) /\ e \in S \cup {e}
  BY <1>1
<1>3. /\ Append(s, e) \in Seq(S \cup {e}) /\ Len(s) \in Nat
      /\ Len(Append(s, e)) = Len(s) + 1
      /\ \A i \in 1 .. Len(s) : Append(s, e)[i] = s[i]
      /\ Append(s, e)[Len(s) + 1] = e
  BY <1>2, AppendProperties
<1>4. Append(s, e) # <<>>
  <2>1. Len(Append(s, e)) # 0
    BY <1>3
  <2> QED BY <1>3, <2>1, EmptySeq
<1> QED BY <1>3, <1>4 DEF IsSeq

LEMMA Joined ==
    ASSUME NEW s, IsSeq(s), NEW t, IsSeq(t)
    PROVE  /\ IsSeq(s \o t) /\ Len(s) \in Nat /\ Len(t) \in Nat
           /\ Len(s \o t) = Len(s) + Len(t)
           /\ \A i \in 1 .. Len(s) + Len(t) :
                (s \o t)[i] = IF i <= Len(s) THEN s[i] ELSE t[i - Len(s)]
<1>1. PICK S : s \in Seq(S)
  BY DEF IsSeq
<1>2. PICK T : t \in Seq(T)
  BY DEF IsSeq
<1>3. s \in Seq(S \cup T) /\ t \in Seq(S \cup T)
  BY <1>1, <1>2
<1> QED BY <1>3, ConcatProperties DEF IsSeq

LEMMA SeqDomain ==
    ASSUME NEW s, IsSeq(s)
    PROVE  DOMAIN s = 1 .. Len(s) /\ Len(s) \in Nat /\ (s = <<>> <=> Len(s) = 0)
           /\ s = [i \in 1 .. Len(s) |-> s[i]]
<1>1. PICK S : s \in Seq(S)
  BY DEF IsSeq
<1> QED BY <1>1, EmptySeq

\* The fields of a decoder and of a title
DecoderRec(d) ==
    d = [width |-> d.width, height |-> d.height, nibble |-> d.nibble, image |-> d.image,
         start_pts |-> d.start_pts, end_pts |-> d.end_pts, forced |-> d.forced,
         opened |-> d.opened, done |-> d.done]
TitleRec(t) ==
    t = [start |-> t.start, end |-> t.end, forced |-> t.forced, image |-> t.image,
         box |-> t.box, opened |-> t.opened, closed |-> t.closed, alone |-> t.alone,
         clean |-> t.clean]

LEMMA DecoderFields ==
    ASSUME NEW d, DecoderRec(d)
    PROVE  DOMAIN d = {"width", "height", "nibble", "image", "start_pts", "end_pts", "forced",
                       "opened", "done"}
  BY DEF DecoderRec

\* The box keeps everything.
BoxRight(t) ==
    /\ (t.box[1] .. t.box[2]) \X (t.box[3] .. t.box[4]) \subseteq DOMAIN t.image
    /\ \A c \in DOMAIN t.image :
         t.image[c] # t.image[<<0, 0>>] => c \in (t.box[1] .. t.box[2]) \X (t.box[3] .. t.box[4])

LEMMA BorderRight ==
    ASSUME NEW n \in Nat \ {0}, NEW S \in SUBSET (0 .. n - 1), S # {}, border \in Nat,
           NEW lo, lo = Lower(Least(S)), NEW hi, hi = Upper(Most(S), n)
    PROVE  lo .. hi \subseteq 0 .. n - 1 /\ S \subseteq lo .. hi /\ lo \in Nat /\ hi \in Nat
<1>0. n - 1 \in Nat /\ S \in SUBSET Nat
  OBVIOUS
<1>1. Least(S) \in S /\ \A c \in S : Least(S) <= c
  BY <1>0, LeastIs
<1>2. Most(S) \in S /\ \A c \in S : c <= Most(S)
  BY <1>0, MostIs
<1>3. PICK a \in 0 .. n - 1, b \in 0 .. n - 1 : a = Least(S) /\ b = Most(S)
  BY <1>1, <1>2
<1>4. lo = IF a > border THEN a - border ELSE 0
  BY <1>3 DEF Lower
<1>5. hi = IF b + border < n THEN b + border ELSE n - 1
  BY <1>3 DEF Upper
<1>6. lo \in Nat /\ lo <= a /\ hi \in Nat /\ b <= hi /\ hi <= n - 1
  BY <1>4, <1>5
<1>7. \A c \in S : c \in Nat /\ a <= c /\ c <= b
  BY <1>0, <1>1, <1>2, <1>3
<1>8. S \subseteq lo .. hi
  BY <1>6, <1>7
<1> QED BY <1>6, <1>8

LEMMA CropRight ==
    ASSUME border \in Nat \cup {-1}, NEW d, d.width \in Nat \ {0}, d.height \in Nat \ {0},
           DOMAIN d.image = (0 .. d.height - 1) \X (0 .. d.width - 1),
           NEW t, t.image = d.image, t.box = CropBox(d)
    PROVE  BoxRight(t)
<1> DEFINE h == d.height
           w == d.width
           rows == {c[1] : c \in Inked(d)}
           cols == {c[2] : c \in Inked(d)}
<1>1. Inked(d) \subseteq (0 .. h - 1) \X (0 .. w - 1)
  BY DEF Inked
<1>2. \A c \in DOMAIN t.image : t.image[c] # t.image[<<0, 0>>] <=> c \in Inked(d)
  BY DEF Inked
<1>3. CASE border < 0 \/ Inked(d) = {}
  <2>1. t.box = <<0, h - 1, 0, w - 1>>
    BY <1>3 DEF CropBox, WholeBox
  <2> QED BY <1>1, <1>2, <2>1 DEF BoxRight
<1>4. CASE border \in Nat /\ Inked(d) # {}
  <2>1. rows \in SUBSET (0 .. h - 1) /\ cols \in SUBSET (0 .. w - 1) /\ rows # {} /\ cols # {}
    BY <1>1, <1>4
  <2> HIDE DEF h, w
  <2>2. PICK r1, r2, c1, c2 : r1 = Lower(Least(rows)) /\ r2 = Upper(Most(rows), h)
                              /\ c1 = Lower(Least(cols)) /\ c2 = Upper(Most(cols), w)
    OBVIOUS
  <2>3. t.box = <<r1, r2, c1, c2>>
    BY <1>4, <2>2 DEF CropBox, h, w
  <2> DEFINE R == rows
             C == cols
  <2>4. h \in Nat \ {0} /\ w \in Nat \ {0}
    BY DEF h, w
  <2>5. r1 .. r2 \subseteq 0 .. h - 1 /\ rows \subseteq r1 .. r2
    <3> HIDE DEF rows
    <3> QED BY <1>4, <2>1, <2>2, <2>4, BorderRight
  <2>6. c1 .. c2 \subseteq 0 .. w - 1 /\ cols \subseteq c1 .. c2
    <3> HIDE DEF cols
    <3> QED BY <1>4, <2>1, <2>2, <2>4, BorderRight
  <2>7. \A c \in Inked(d) : c \in (r1 .. r2) \X (c1 .. c2)
    <3> TAKE c \in Inked(d)
    <3>1. c = <<c[1], c[2]>>
      BY <1>1
    <3>2. c[1] \in rows /\ c[2] \in cols
      OBVIOUS
    <3> QED BY <2>5, <2>6, <3>1, <3>2
  <2>8. (r1 .. r2) \X (c1 .. c2) \subseteq DOMAIN t.image
    BY <2>5, <2>6 DEF h, w
  <2> QED BY <1>2, <2>3, <2>7, <2>8 DEF BoxRight
<1>5. border < 0 \/ border \in Nat
  OBVIOUS
<1> QED BY <1>3, <1>4, <1>5

\* What is written for the unit in the buffer
GoodTitle(t) ==
    /\ TitleRec(t) /\ BoxRight(t)
    /\ t.alone => t.image = Drawn(t.closed)

Rested(u, d, e) ==
    /\ DecoderRec(e) /\ e.width = d.width /\ e.height = d.height
    /\ e.start_pts = d.start_pts /\ e.end_pts = d.end_pts /\ e.opened = d.opened
    /\ \E t : /\ e.done = Append(d.done, t) /\ GoodTitle(t)
              /\ t.start = d.start_pts /\ t.end = d.end_pts /\ t.opened = d.opened /\ t.closed = u

LEMMA HandleRestIs ==
    ASSUME script \in Scripts, border \in Borders, NEW u \in 1 .. Len(script),
           NEW d, DecoderRec(d), d.width = Width(u), d.height = Height(u),
           d.done = <<>> => d.nibble = LineStarts(u)
    PROVE  Rested(u, d, HandleRest(u, d))
<1> DEFINE s == Decoded(Nibbles(u), d)
<1>1. Width(u) \in Nat \ {0} /\ Height(u) \in Nat \ {0} /\ border \in Nat \cup {-1}
  BY LinesAre, SpudecAssumption
<1>2. DOMAIN s.image = (0 .. d.height - 1) \X (0 .. d.width - 1)
  <2>1. d.width \in Nat /\ d.height \in Nat
    BY <1>1
  <2> QED BY <2>1, DecodedDomain
<1>3. d.done = <<>> => s.image = Drawn(u)
  BY DecodedRight
<1> HIDE DEF s
<1>4. PICK e : e = [d EXCEPT !.nibble = s.nibble, !.image = s.image]
  OBVIOUS
<1>5. HandleRest(u, d) = Written(u, e)
  BY <1>4 DEF HandleRest, ProcessData, Kept, s
<1>6. /\ DecoderRec(e) /\ e.width = d.width /\ e.height = d.height
      /\ e.start_pts = d.start_pts /\ e.end_pts = d.end_pts /\ e.opened = d.opened
      /\ e.done = d.done /\ e.image = s.image
  BY <1>4, DecoderFields DEF DecoderRec
<1> DEFINE t == [start |-> e.start_pts, end |-> e.end_pts, forced |-> e.forced,
                 image |-> e.image, box |-> CropBox(e),
                 opened |-> e.opened, closed |-> u, alone |-> e.done = <<>>, clean |-> TRUE]
<1>7. PICK f : f = [e EXCEPT !.done = Append(@, t)]
  OBVIOUS
<1>8. HandleRest(u, d) = f
  BY <1>5, <1>7 DEF Written
<1>9. /\ TitleRec(t) /\ t.start = d.start_pts /\ t.end = d.end_pts /\ t.opened = d.opened
      /\ t.closed = u /\ t.image = s.image /\ t.image = e.image /\ t.box = CropBox(e)
      /\ t.alone = (d.done = <<>>)
  BY <1>6 DEF TitleRec
<1> HIDE DEF t
<1>10. BoxRight(t)
  <2>1. e.width \in Nat \ {0} /\ e.height \in Nat \ {0}
        /\ DOMAIN e.image = (0 .. e.height - 1) \X (0 .. e.width - 1)
    BY <1>1, <1>2, <1>6
  <2> QED BY <1>1, <1>9, <2>1, CropRight
<1>11. GoodTitle(t)
  BY <1>3, <1>9, <1>10 DEF GoodTitle
<1>12. /\ DecoderRec(f) /\ f.width = e.width /\ f.height = e.height
       /\ f.start_pts = e.start_pts /\ f.end_pts = e.end_pts /\ f.opened = e.opened
       /\ f.done = Append(e.done, t)
  BY <1>6, <1>7, DecoderFields DEF DecoderRec
<1> QED BY <1>6, <1>8, <1>9, <1>11, <1>12 DEF Rested

-------------------------------------------------------------------------------
(***************************************************************************)
(* Commands                                                                *)
(***************************************************************************)
Cs(u) == Commands(script[u].program)

\* The known commands of a block are commands of it.
LEMMA KnownIs ==
    ASSUME NEW cmds \in Seq(STRING)
    PROVE  Known(cmds) \in Seq(STRING) /\ Len(Known(cmds)) \in Nat
           /\ \A c \in 1 .. Len(Known(cmds)) : cmds[c] \in STRING
<1> DEFINE bad == {k \in DOMAIN cmds : cmds[k] = "unknown"}
<1>0. DOMAIN cmds = 1 .. Len(cmds) /\ Len(cmds) \in Nat
  OBVIOUS
<1>1. CASE bad = {}
  BY <1>0, <1>1 DEF Known
<1>2. CASE bad # {}
  <2>1. bad \in SUBSET Nat
    BY <1>0
  <2>2. Least(bad) \in bad
    BY <1>2, <2>1, LeastIs
  <2>3. PICK m \in 1 .. Len(cmds) : m = Least(bad)
    BY <1>0, <2>2
  <2>4. Known(cmds) = SubSeq(cmds, 1, m - 1)
    BY <1>2, <2>3 DEF Known
  <2>5. m - 1 \in Nat /\ m - 1 <= Len(cmds)
    BY <1>0
  <2>6. SubSeq(cmds, 1, m - 1) \in Seq(STRING) /\ Len(SubSeq(cmds, 1, m - 1)) = m - 1
    BY <2>5
  <2> QED BY <1>0, <2>4, <2>5, <2>6
<1> QED BY <1>1, <1>2

LEMMA SeqIs ==
    ASSUME NEW S, NEW s \in Seq(S)
    PROVE  /\ Len(s) \in Nat /\ DOMAIN s = 1 .. Len(s)
           /\ \A k \in 1 .. Len(s) : s[k] \in S
  OBVIOUS

LEMMA CommandsAre ==
    ASSUME script \in Scripts, NEW u \in 1 .. Len(script)
    PROVE  /\ Cs(u) \in Seq([cmd : STRING, date : Nat])
           /\ Len(Cs(u)) \in Nat /\ DOMAIN Cs(u) = 1 .. Len(Cs(u))
           /\ \A k \in 1 .. Len(Cs(u)) : Cs(u)[k].date \in Nat
           /\ \A k \in 1 .. Len(Cs(u)) : Cs(u)[k].cmd \in Shows \cup {"stop"} =>
                /\ \E j \in 1 .. k - 1 : Cs(u)[j].cmd = "area"
                /\ \E j \in 1 .. k - 1 : Cs(u)[j].cmd = "lines"
<1> DEFINE P == script[u].program
           S == [cmd : STRING, date : Nat]
           ss == [b \in 1 .. Len(P) |->
                    [c \in 1 .. Len(Known(P[b].cmds)) |->
                       [cmd |-> P[b].cmds[c], date |-> P[b].date]]]
<1>1. Programmed(script[u])
  BY UnitIs
<1>2. P \in Seq([date : Nat, cmds : Seq(STRING)])
  BY <1>1 DEF Programmed
<1>3. Len(P) \in Nat /\ \A b \in 1 .. Len(P) : P[b].date \in Nat /\ P[b].cmds \in Seq(STRING)
  <2> DEFINE R == [date : Nat, cmds : Seq(STRING)]
  <2>1. \A x \in R : x.date \in Nat /\ x.cmds \in Seq(STRING)
    OBVIOUS
  <2>2. P \in Seq(R)
    BY <1>2
  <2> HIDE DEF R, P
  <2> QED BY <2>1, <2>2, SeqIs
<1>4. Cs(u) = FlattenSeq(ss)
  BY DEF Cs, Commands
<1>5. ASSUME NEW b \in 1 .. Len(P) PROVE ss[b] \in Seq(S)
  <2>1. PICK m \in Nat : m = Len(Known(P[b].cmds))
    BY <1>3, KnownIs
  <2>2. \A c \in 1 .. m : P[b].cmds[c] \in STRING
    BY <1>3, <2>1, KnownIs
  <2>3. ss[b] = [c \in 1 .. m |-> [cmd |-> P[b].cmds[c], date |-> P[b].date]]
    BY <2>1
  <2>4. \A c \in 1 .. m : [cmd |-> P[b].cmds[c], date |-> P[b].date] \in S
    BY <1>3, <2>2
  <2> HIDE DEF ss, S, P
  <2> QED BY <2>3, <2>4
<1>6. ss \in Seq(Seq(S))
  <2>1. ss = [b \in 1 .. Len(P) |-> ss[b]]
    OBVIOUS
  <2> HIDE DEF ss, S, P
  <2> QED BY <1>3, <1>5, <2>1
<1>7. Cs(u) \in Seq(S)
  <2> HIDE DEF ss, S, P
  <2> QED BY <1>4, <1>6, FlattenAt
<1>8. Len(Cs(u)) \in Nat /\ DOMAIN Cs(u) = 1 .. Len(Cs(u))
      /\ \A k \in 1 .. Len(Cs(u)) : Cs(u)[k].date \in Nat
  <2>1. \A x \in S : x.date \in Nat
    OBVIOUS
  <2> HIDE DEF S
  <2> QED BY <1>7, <2>1, SeqIs
<1>9. \A k \in DOMAIN Cs(u) : Cs(u)[k].cmd \in Shows \cup {"stop"} =>
        \A c \in {"area", "lines"} : \E j \in 1 .. k - 1 : Cs(u)[j].cmd = c
  BY <1>1 DEF Programmed, Cs
<1> QED BY <1>7, <1>8, <1>9

\* The decoder f[k] after the first k of the n commands
Control(u, pts, n, f) ==
    /\ f[0] = [dec EXCEPT !.done = <<>>]
    /\ \A k \in 1 .. n : f[k] = Command(u, f[k - 1], Cs(u)[k].cmd, pts + Cs(u)[k].date)

LEMMA ControlExists ==
    ASSUME NEW u, NEW pts, NEW n \in Nat
    PROVE  \E f : f = [k \in 0 .. n |-> f[k]] /\ Control(u, pts, n, f)
<1> DEFINE M == {m \in Nat : \E f : f = [k \in 0 .. m |-> f[k]] /\ Control(u, pts, m, f)}
<1>1. 0 \in M
  <2> DEFINE f == [k \in 0 .. 0 |-> [dec EXCEPT !.done = <<>>]]
  <2>1. f = [k \in 0 .. 0 |-> f[k]] /\ f[0] = [dec EXCEPT !.done = <<>>]
    OBVIOUS
  <2> HIDE DEF f
  <2>2. Control(u, pts, 0, f)
    BY <2>1 DEF Control
  <2> QED BY <2>1, <2>2
<1>2. ASSUME NEW m \in Nat, m \in M PROVE m + 1 \in M
  <2>1. PICK f : f = [k \in 0 .. m |-> f[k]] /\ Control(u, pts, m, f)
    BY <1>2
  <2> HIDE DEF M
  <2>0. PICK e : e = Command(u, f[m], Cs(u)[m + 1].cmd, pts + Cs(u)[m + 1].date)
    OBVIOUS
  <2> DEFINE g == [k \in 0 .. m + 1 |-> IF k = m + 1 THEN e ELSE f[k]]
  <2>2. g = [k \in 0 .. m + 1 |-> g[k]]
    OBVIOUS
  <2>3. g[0] = [dec EXCEPT !.done = <<>>]
    BY <2>1 DEF Control
  <2>4. ASSUME NEW k \in 1 .. m + 1
        PROVE  g[k] = Command(u, g[k - 1], Cs(u)[k].cmd, pts + Cs(u)[k].date)
    <3>1. k - 1 \in 0 .. m /\ k - 1 # m + 1
      OBVIOUS
    <3>2. g[k - 1] = f[k - 1]
      BY <3>1
    <3>3. CASE k = m + 1
      <4>1. g[k] = e /\ k - 1 = m
        BY <3>3
      <4> HIDE DEF g
      <4> QED BY <2>0, <3>2, <3>3, <4>1
    <3>4. CASE k # m + 1
      <4>1. k \in 1 .. m /\ g[k] = f[k]
        BY <3>4
      <4> HIDE DEF g
      <4> QED BY <2>1, <3>2, <4>1 DEF Control
    <3> QED BY <3>3, <3>4
  <2> HIDE DEF g
  <2>5. Control(u, pts, m + 1, g)
    BY <2>3, <2>4 DEF Control
  <2> QED BY <2>2, <2>5 DEF M
<1> HIDE DEF M
<1>3. n \in M
  BY <1>1, <1>2, SetInduction
<1> QED BY <1>3 DEF M

LEMMA ControlIs ==
    ASSUME NEW u, NEW pts, NEW n \in Nat, n = Len(Cs(u))
    PROVE  \E f : Control(u, pts, n, f) /\ ProcessControl(u, pts) = f[n]
<1> DEFINE F(f) == [k \in 0 .. n |->
                      IF k = 0 THEN [dec EXCEPT !.done = <<>>]
                      ELSE Command(u, f[k - 1], Cs(u)[k].cmd, pts + Cs(u)[k].date)]
           g == CHOOSE f : f = F(f)
<1>1. ProcessControl(u, pts) = g[n]
  BY DEF ProcessControl, Cs
<1>2. PICK f : f = [k \in 0 .. n |-> f[k]] /\ Control(u, pts, n, f)
  BY ControlExists
<1>3. f = F(f)
  <2>1. ASSUME NEW k \in 0 .. n
        PROVE  f[k] = IF k = 0 THEN [dec EXCEPT !.done = <<>>]
                      ELSE Command(u, f[k - 1], Cs(u)[k].cmd, pts + Cs(u)[k].date)
    <3>1. CASE k = 0
      BY <1>2, <3>1 DEF Control
    <3>2. CASE k # 0
      <4>1. k \in 1 .. n
        BY <3>2
      <4> QED BY <1>2, <3>2, <4>1 DEF Control
    <3> QED BY <3>1, <3>2
  <2>2. F(f) = [k \in 0 .. n |-> f[k]]
    BY <2>1
  <2> HIDE DEF F
  <2> QED BY <1>2, <2>2
<1>4. g = F(g)
  <2> HIDE DEF F
  <2> QED BY <1>3
<1> HIDE DEF g
<1>5. \A k \in 0 .. n : g[k] = IF k = 0 THEN [dec EXCEPT !.done = <<>>]
                              ELSE Command(u, g[k - 1], Cs(u)[k].cmd, pts + Cs(u)[k].date)
  BY <1>4
<1>6. Control(u, pts, n, g)
  <2>1. 0 \in 0 .. n /\ \A k \in 1 .. n : k \in 0 .. n /\ k # 0
    OBVIOUS
  <2> QED BY <1>5, <2>1 DEF Control
<1> QED BY <1>1, <1>6

\* A title that ends now has been written.
Ended(u, d, now, r) ==
    \E t : /\ r.done = Append(d.done, t) /\ GoodTitle(t) /\ t.closed = u
           /\ t.start = d.start_pts /\ t.end = now /\ t.opened = d.opened

\* What a command makes of the decoder d
CommandDoes(u, d, cmd, now, r) ==
    /\ DecoderRec(r)
    /\ cmd \in Shows =>
         /\ r.width = d.width /\ r.height = d.height
         /\ r.start_pts = now /\ r.end_pts = Open /\ r.opened = u
         /\ d.end_pts = Open => Ended(u, d, now, r)
         /\ d.end_pts # Open => r.done = d.done /\ r.nibble = d.nibble
    /\ cmd = "stop" =>
         /\ r.width = d.width /\ r.height = d.height
         /\ r.start_pts = d.start_pts /\ r.end_pts = now /\ r.opened = d.opened
         /\ Ended(u, d, now, r)
    /\ cmd \notin Shows \cup {"stop"} =>
         /\ r.done = d.done /\ r.start_pts = d.start_pts /\ r.end_pts = d.end_pts
         /\ r.opened = d.opened
         /\ cmd = "area" => r.width = Width(u) /\ r.height = Height(u)
         /\ cmd # "area" => r.width = d.width /\ r.height = d.height
         /\ cmd = "lines" => r.nibble = LineStarts(u)
         /\ cmd # "lines" => r.nibble = d.nibble

\* The decoder is ready for the picture of the unit.
Ready(u, d) ==
    /\ d.width = Width(u) /\ d.height = Height(u)
    /\ d.done = <<>> => d.nibble = LineStarts(u)

LEMMA StopIs ==
    ASSUME script \in Scripts, border \in Borders, NEW u \in 1 .. Len(script),
           NEW d, DecoderRec(d), Ready(u, d), NEW now,
           NEW r, r = HandleRest(u, [d EXCEPT !.end_pts = now])
    PROVE  /\ DecoderRec(r) /\ r.width = d.width /\ r.height = d.height
           /\ r.start_pts = d.start_pts /\ r.end_pts = now /\ r.opened = d.opened
           /\ Ended(u, d, now, r)
<1>1. PICK e : e = [d EXCEPT !.end_pts = now]
  OBVIOUS
<1>2. /\ DecoderRec(e) /\ e.width = d.width /\ e.height = d.height /\ e.nibble = d.nibble
      /\ e.start_pts = d.start_pts /\ e.end_pts = now /\ e.opened = d.opened /\ e.done = d.done
  BY <1>1, DecoderFields DEF DecoderRec
<1>3. Rested(u, e, r)
  <2>1. e.width = Width(u) /\ e.height = Height(u) /\ (e.done = <<>> => e.nibble = LineStarts(u))
    BY <1>2 DEF Ready
  <2> QED BY <1>1, <1>2, <2>1, HandleRestIs
<1> QED BY <1>2, <1>3 DEF Rested, Ended

LEMMA CommandIs ==
    ASSUME script \in Scripts, border \in Borders, NEW u \in 1 .. Len(script),
           NEW d, DecoderRec(d), NEW cmd, cmd \in Shows \cup {"stop"} => Ready(u, d), NEW now
    PROVE  CommandDoes(u, d, cmd, now, Command(u, d, cmd, now))
<1> DEFINE r == Command(u, d, cmd, now)
<1>0. "start" # "stop" /\ "force" # "stop" /\ "area" # "lines" /\ "area" \notin Shows \cup {"stop"}
      /\ "lines" \notin Shows \cup {"stop"}
  BY DEF Shows
<1>1. CASE cmd \in Shows
  <2>0. cmd # "stop" /\ cmd # "area" /\ cmd # "lines"
    BY <1>1 DEF Shows
  <2>1. r = Started(u, d, cmd, now)
    BY <1>1, <2>0 DEF Command
  <2> DEFINE e == IF d.end_pts = Open THEN HandleRest(u, [d EXCEPT !.end_pts = now]) ELSE d
  <2>2. r = [e EXCEPT !.forced = (cmd = "force"), !.start_pts = now, !.end_pts = Open, !.opened = u]
    BY <2>1 DEF Started
  <2>3. /\ DecoderRec(e) /\ e.width = d.width /\ e.height = d.height
        /\ d.end_pts = Open => Ended(u, d, now, e)
        /\ d.end_pts # Open => e = d
    <3>1. CASE d.end_pts = Open
      <4>1. e = HandleRest(u, [d EXCEPT !.end_pts = now])
        BY <3>1
      <4> HIDE DEF e
      <4> QED BY <1>1, <3>1, <4>1, StopIs
    <3>2. CASE d.end_pts # Open
      BY <3>2
    <3> QED BY <3>1, <3>2
  <2> HIDE DEF e, r
  <2>4. /\ DecoderRec(r) /\ r.width = e.width /\ r.height = e.height /\ r.nibble = e.nibble
        /\ r.start_pts = now /\ r.end_pts = Open /\ r.opened = u /\ r.done = e.done
    BY <2>2, <2>3, DecoderFields DEF DecoderRec
  <2>5. Ended(u, d, now, e) => Ended(u, d, now, r)
    BY <2>4 DEF Ended
  <2>6. CommandDoes(u, d, cmd, now, r)
    BY <1>0, <1>1, <2>3, <2>4, <2>5 DEF CommandDoes, Shows
  <2> QED BY <2>6 DEF r
<1>2. CASE cmd = "stop"
  <2>1. r = HandleRest(u, [d EXCEPT !.end_pts = now])
    BY <1>0, <1>2 DEF Command, Shows
  <2> HIDE DEF r
  <2>2. /\ DecoderRec(r) /\ r.width = d.width /\ r.height = d.height
        /\ r.start_pts = d.start_pts /\ r.end_pts = now /\ r.opened = d.opened
        /\ Ended(u, d, now, r)
    BY <1>2, <2>1, StopIs
  <2>3. CommandDoes(u, d, cmd, now, r)
    BY <1>0, <1>2, <2>2 DEF CommandDoes, Shows
  <2> QED BY <2>3 DEF r
<1>3. CASE cmd = "area"
  <2>1. r = [d EXCEPT !.width = Width(u), !.height = Height(u)]
    BY <1>0, <1>3 DEF Command, Shows
  <2> HIDE DEF r
  <2>2. /\ DecoderRec(r) /\ r.width = Width(u) /\ r.height = Height(u) /\ r.nibble = d.nibble
        /\ r.start_pts = d.start_pts /\ r.end_pts = d.end_pts /\ r.opened = d.opened
        /\ r.done = d.done
    BY <2>1, DecoderFields DEF DecoderRec
  <2>3. CommandDoes(u, d, cmd, now, r)
    BY <1>0, <1>3, <2>2 DEF CommandDoes, Shows
  <2> QED BY <2>3 DEF r
<1>4. CASE cmd = "lines"
  <2>1. r = [d EXCEPT !.nibble = LineStarts(u)]
    BY <1>0, <1>4 DEF Command, Shows
  <2> HIDE DEF r
  <2>2. /\ DecoderRec(r) /\ r.width = d.width /\ r.height = d.height /\ r.nibble = LineStarts(u)
        /\ r.start_pts = d.start_pts /\ r.end_pts = d.end_pts /\ r.opened = d.opened
        /\ r.done = d.done
    BY <2>1, DecoderFields DEF DecoderRec
  <2>3. CommandDoes(u, d, cmd, now, r)
    BY <1>0, <1>4, <2>2 DEF CommandDoes, Shows
  <2> QED BY <2>3 DEF r
<1>5. CASE cmd \notin Shows /\ cmd # "stop" /\ cmd # "area" /\ cmd # "lines"
  <2>1. r = d
    BY <1>5 DEF Command, Shows
  <2> HIDE DEF r
  <2>2. CommandDoes(u, d, cmd, now, r)
    BY <1>5, <2>1 DEF CommandDoes
  <2> QED BY <2>2 DEF r
<1> QED BY <1>1, <1>2, <1>3, <1>4, <1>5

\* The decoder after k commands of the unit
Controlled(u, d, k) ==
    /\ DecoderRec(d) /\ IsSeq(d.done)
    /\ \A i \in 1 .. Len(d.done) : GoodTitle(d.done[i]) /\ d.done[i].closed = u
    /\ (\E j \in 1 .. k : Cs(u)[j].cmd = "area") => d.width = Width(u) /\ d.height = Height(u)
    /\ (\E j \in 1 .. k : Cs(u)[j].cmd = "lines") /\ d.done = <<>> => d.nibble = LineStarts(u)

LEMMA ControlledReady ==
    ASSUME script \in Scripts, NEW u \in 1 .. Len(script), NEW k \in 1 .. Len(Cs(u)),
           NEW d, Controlled(u, d, k - 1)
    PROVE  DecoderRec(d) /\ (Cs(u)[k].cmd \in Shows \cup {"stop"} => Ready(u, d))
  BY CommandsAre DEF Controlled, Ready

LEMMA EndedGood ==
    ASSUME NEW u, NEW d, NEW now, NEW r, Ended(u, d, now, r), IsSeq(d.done),
           \A i \in 1 .. Len(d.done) : GoodTitle(d.done[i]) /\ d.done[i].closed = u
    PROVE  /\ IsSeq(r.done) /\ r.done # <<>>
           /\ \A i \in 1 .. Len(r.done) : GoodTitle(r.done[i]) /\ r.done[i].closed = u
<1>1. PICK t : r.done = Append(d.done, t) /\ GoodTitle(t) /\ t.closed = u
  BY DEF Ended
<1>2. /\ IsSeq(r.done) /\ Len(d.done) \in Nat /\ Len(r.done) = Len(d.done) + 1
      /\ \A i \in 1 .. Len(d.done) : r.done[i] = d.done[i]
      /\ r.done[Len(d.done) + 1] = t /\ r.done # <<>>
  BY <1>1, Appended
<1>3. \A i \in 1 .. Len(d.done) + 1 : i \in 1 .. Len(d.done) \/ i = Len(d.done) + 1
  BY <1>2
<1> QED BY <1>1, <1>2, <1>3

LEMMA ControlledStep ==
    ASSUME script \in Scripts, border \in Borders, NEW u \in 1 .. Len(script),
           NEW k \in 1 .. Len(Cs(u)), NEW d, Controlled(u, d, k - 1), NEW now
    PROVE  Controlled(u, Command(u, d, Cs(u)[k].cmd, now), k)
<1> DEFINE cmd == Cs(u)[k].cmd
           r == Command(u, d, cmd, now)
<1>0. k \in Nat /\ \A j \in 1 .. k : j \in 1 .. k - 1 \/ j = k
  BY CommandsAre
<1>1. CommandDoes(u, d, cmd, now, r)
  <2>1. DecoderRec(d) /\ (cmd \in Shows \cup {"stop"} => Ready(u, d))
    BY ControlledReady
  <2> QED BY <2>1, CommandIs
<1> HIDE DEF r
<1>2. CASE cmd \in Shows \cup {"stop"}
  <2>1. Ready(u, d)
    BY <1>2, ControlledReady
  <2>2. r.width = Width(u) /\ r.height = Height(u)
    BY <1>1, <1>2, <2>1 DEF CommandDoes, Ready
  <2>3. \/ Ended(u, d, now, r)
        \/ r.done = d.done /\ r.nibble = d.nibble
    BY <1>1, <1>2 DEF CommandDoes
  <2>4. CASE Ended(u, d, now, r)
    <3>1. /\ IsSeq(r.done) /\ r.done # <<>>
          /\ \A i \in 1 .. Len(r.done) : GoodTitle(r.done[i]) /\ r.done[i].closed = u
      BY <2>4, EndedGood DEF Controlled
    <3>2. DecoderRec(r)
      BY <1>1 DEF CommandDoes
    <3>3. Controlled(u, r, k)
      BY <2>2, <3>1, <3>2 DEF Controlled
    <3> QED BY <3>3 DEF r
  <2>5. CASE r.done = d.done /\ r.nibble = d.nibble
    <3>1. DecoderRec(r)
      BY <1>1 DEF CommandDoes
    <3>2. r.done = <<>> => r.nibble = LineStarts(u)
      BY <2>1, <2>5 DEF Ready
    <3>3. Controlled(u, r, k)
      BY <2>2, <2>5, <3>1, <3>2 DEF Controlled
    <3> QED BY <3>3 DEF r
  <2> QED BY <2>3, <2>4, <2>5
<1>3. CASE cmd \notin Shows \cup {"stop"}
  <2>1. /\ DecoderRec(r) /\ r.done = d.done
        /\ cmd = "area" => r.width = Width(u) /\ r.height = Height(u)
        /\ cmd # "area" => r.width = d.width /\ r.height = d.height
        /\ cmd = "lines" => r.nibble = LineStarts(u)
        /\ cmd # "lines" => r.nibble = d.nibble
    BY <1>1, <1>3 DEF CommandDoes
  <2>2. (\E j \in 1 .. k : Cs(u)[j].cmd = "area") => r.width = Width(u) /\ r.height = Height(u)
    BY <1>0, <2>1 DEF Controlled
  <2>3. (\E j \in 1 .. k : Cs(u)[j].cmd = "lines") /\ r.done = <<>> => r.nibble = LineStarts(u)
    BY <1>0, <2>1 DEF Controlled
  <2>4. Controlled(u, r, k)
    BY <2>1, <2>2, <2>3 DEF Controlled
  <2> QED BY <2>4 DEF r
<1> QED BY <1>2, <1>3

\* All commands of a packet are carried out on a decoder that is in order.
LEMMA ControlledAll ==
    ASSUME script \in Scripts, border \in Borders, DecoderRec(dec),
           NEW u \in 1 .. Len(script), NEW pts, NEW n \in Nat, n = Len(Cs(u)),
           NEW f, Control(u, pts, n, f)
    PROVE  \A k \in 0 .. n : Controlled(u, f[k], k)
<1> DEFINE S == {m \in Nat : m <= n => Controlled(u, f[m], m)}
<1>1. 0 \in S
  <2>1. f[0] = [dec EXCEPT !.done = <<>>]
    BY DEF Control
  <2>2. DecoderRec(f[0]) /\ f[0].done = <<>>
    BY <2>1, DecoderFields DEF DecoderRec
  <2>3. IsSeq(<<>>) /\ Len(<<>>) = 0
    <3>1. <<>> \in Seq(Nat) /\ Len(<<>>) = 0
      BY EmptySeq
    <3> QED BY <3>1 DEF IsSeq
  <2>4. \A j \in 1 .. 0 : FALSE
    OBVIOUS
  <2>5. Controlled(u, f[0], 0)
    BY <2>2, <2>3, <2>4 DEF Controlled
  <2> QED BY <2>5
<1>2. ASSUME NEW m \in Nat, m \in S PROVE m + 1 \in S
  <2> SUFFICES ASSUME m + 1 <= n PROVE Controlled(u, f[m + 1], m + 1)
    OBVIOUS
  <2>1. m + 1 \in 1 .. n /\ (m + 1) - 1 = m
    OBVIOUS
  <2>2. Controlled(u, f[m], m)
    BY <1>2
  <2> HIDE DEF S
  <2>3. f[m + 1] = Command(u, f[m], Cs(u)[m + 1].cmd, pts + Cs(u)[m + 1].date)
    BY <2>1 DEF Control
  <2> QED BY <2>1, <2>2, <2>3, ControlledStep
<1> HIDE DEF S
<1>3. Nat \subseteq S
  BY <1>1, <1>2, SetInduction
<1> QED BY <1>3 DEF S

-------------------------------------------------------------------------------
(***************************************************************************)
(* Pictures                                                                *)
(***************************************************************************)
Shown(t) ==
    /\ BoxRight(t)
    /\ t.alone /\ t.opened = t.closed => t.image = Drawn(t.opened)

Fragments(b) == IsSeq(b) /\ \A i \in 1 .. Len(b) : b[i][1] \in 1 .. Len(script)

PictureInv ==
    /\ border \in Borders
    /\ DecoderRec(dec)
    /\ IsSeq(titles) /\ \A k \in 1 .. Len(titles) : Shown(titles[k])
    /\ Fragments(packet)

LEMMA Nothing == IsSeq(<<>>) /\ Len(<<>>) = 0
<1>1. <<>> \in Seq(Nat) /\ Len(<<>>) = 0
  BY EmptySeq
<1> QED BY <1>1 DEF IsSeq

LEMMA PictureInit == Init => PictureInv
<1> SUFFICES ASSUME Init PROVE PictureInv
  OBVIOUS
<1>1. border \in Borders /\ dec = Decoder /\ titles = <<>> /\ packet = <<>>
  BY DEF Init
<1>2. DecoderRec(dec)
  BY <1>1 DEF DecoderRec, Decoder
<1> QED BY <1>1, <1>2, Nothing DEF PictureInv, Fragments

\* What is said of the stream says the same when a step is done.
LEMMA StreamStays ==
    ASSUME UNCHANGED script
    PROVE  /\ \A u : Drawn(u)' = Drawn(u)
           /\ \A t : Shown(t)' = Shown(t)
           /\ \A b : Fragments(b)' = Fragments(b)
<1>1. \A u : Drawn(u)' = Drawn(u)
  BY DEF Drawn, Height, Width
<1>2. \A t : Shown(t)' = Shown(t)
  BY <1>1 DEF Shown, BoxRight
<1>3. \A b : Fragments(b)' = Fragments(b)
  BY DEF Fragments, IsSeq
<1> QED BY <1>1, <1>2, <1>3

\* The titles of a packet, as Emit puts them behind those before
Marked(s, c) == [k \in DOMAIN s |-> [s[k] EXCEPT !.clean = c]]

LEMMA MarkedIs ==
    ASSUME NEW s, IsSeq(s), NEW c, \A i \in 1 .. Len(s) : TitleRec(s[i])
    PROVE  /\ IsSeq(Marked(s, c)) /\ Len(Marked(s, c)) = Len(s) /\ Len(s) \in Nat
           /\ \A i \in 1 .. Len(s) :
                /\ Marked(s, c)[i].start = s[i].start /\ Marked(s, c)[i].end = s[i].end
                /\ Marked(s, c)[i].image = s[i].image /\ Marked(s, c)[i].box = s[i].box
                /\ Marked(s, c)[i].opened = s[i].opened /\ Marked(s, c)[i].closed = s[i].closed
                /\ Marked(s, c)[i].alone = s[i].alone
<1>1. DOMAIN s = 1 .. Len(s) /\ Len(s) \in Nat
  BY SeqDomain
<1> DEFINE m == Marked(s, c)
           T == {m[k] : k \in 1 .. Len(s)}
<1>2. m = [k \in 1 .. Len(s) |-> [s[k] EXCEPT !.clean = c]]
  BY <1>1 DEF Marked
<1>3. m = [k \in 1 .. Len(s) |-> m[k]] /\ \A k \in 1 .. Len(s) : m[k] \in T
  BY <1>2
<1>4. m \in Seq(T) /\ Len(m) = Len(s)
  <2> HIDE DEF m, T
  <2> QED BY <1>1, <1>3
<1>5. ASSUME NEW i \in 1 .. Len(s)
      PROVE  /\ m[i].start = s[i].start /\ m[i].end = s[i].end
             /\ m[i].image = s[i].image /\ m[i].box = s[i].box
             /\ m[i].opened = s[i].opened /\ m[i].closed = s[i].closed
             /\ m[i].alone = s[i].alone
  <2>1. PICK t : t = s[i]
    OBVIOUS
  <2>2. m[i] = [t EXCEPT !.clean = c]
    BY <1>2, <2>1
  <2>3. DOMAIN t = {"start", "end", "forced", "image", "box", "opened", "closed", "alone", "clean"}
    BY <2>1 DEF TitleRec
  <2> HIDE DEF m
  <2> QED BY <2>1, <2>2, <2>3
<1> HIDE DEF m, T
<1>6. IsSeq(m)
  BY <1>4 DEF IsSeq
<1> QED BY <1>1, <1>4, <1>5, <1>6 DEF m

LEMMA DecodeGood ==
    ASSUME script \in Scripts, PictureInv, NEW u \in 1 .. Len(script), NEW pts, Decode(u, pts)
    PROVE  /\ DecoderRec(dec')
           /\ IsSeq(titles') /\ \A k \in 1 .. Len(titles') : Shown(titles'[k])
<1> DEFINE n == Len(Cs(u))
           d == ProcessControl(u, pts)
<1>1. n \in Nat /\ border \in Borders /\ DecoderRec(dec)
  BY CommandsAre DEF PictureInv
<1>2. PICK f : Control(u, pts, n, f) /\ d = f[n]
  BY <1>1, ControlIs
<1>3. Controlled(u, d, n)
  <2> HIDE DEF d
  <2>1. n \in 0 .. n /\ \A k \in 0 .. n : Controlled(u, f[k], k)
    <3>1. \A k \in 0 .. n : Controlled(u, f[k], k)
      <4> HIDE DEF n
      <4>1. n = Len(Cs(u))
        BY DEF n
      <4> QED BY <1>1, <1>2, <4>1, ControlledAll
    <3>2. n \in 0 .. n
      BY <1>1
    <3> QED BY <3>1, <3>2
  <2> QED BY <1>2, <2>1
<1>4. dec' = [d EXCEPT !.done = <<>>] /\ titles' = titles \o Marked(d.done, clean')
  BY DEF Decode, Emit, Marked
<1> HIDE DEF d, n
<1>5. DecoderRec(d) /\ IsSeq(d.done) /\ \A i \in 1 .. Len(d.done) : GoodTitle(d.done[i]) /\ d.done[i].closed = u
  BY <1>3 DEF Controlled
<1>6. DecoderRec(dec')
  BY <1>4, <1>5, DecoderFields DEF DecoderRec
<1>7. PICK m : m = Marked(d.done, clean')
  OBVIOUS
<1>8. /\ IsSeq(m) /\ Len(m) = Len(d.done) /\ Len(m) \in Nat
      /\ \A i \in 1 .. Len(m) :
           /\ m[i].image = d.done[i].image /\ m[i].box = d.done[i].box
           /\ m[i].opened = d.done[i].opened /\ m[i].closed = d.done[i].closed
           /\ m[i].alone = d.done[i].alone
  <2>1. \A i \in 1 .. Len(d.done) : TitleRec(d.done[i])
    BY <1>5 DEF GoodTitle
  <2> QED BY <1>5, <1>7, <2>1, MarkedIs
<1>9. \A i \in 1 .. Len(m) : Shown(m[i])
  <2> TAKE i \in 1 .. Len(m)
  <2>1. BoxRight(d.done[i]) /\ (d.done[i].alone => d.done[i].image = Drawn(d.done[i].closed))
    BY <1>5, <1>8 DEF GoodTitle
  <2>2. m[i].image = d.done[i].image /\ m[i].box = d.done[i].box
        /\ m[i].opened = d.done[i].opened /\ m[i].closed = d.done[i].closed
        /\ m[i].alone = d.done[i].alone
    BY <1>8
  <2>3. BoxRight(m[i])
    BY <2>1, <2>2 DEF BoxRight
  <2>4. m[i].alone /\ m[i].opened = m[i].closed => m[i].image = Drawn(m[i].opened)
    BY <2>1, <2>2
  <2> QED BY <2>3, <2>4 DEF Shown
<1>10. IsSeq(titles) /\ \A k \in 1 .. Len(titles) : Shown(titles[k])
  BY DEF PictureInv
<1>11. /\ IsSeq(titles') /\ Len(titles) \in Nat /\ Len(titles') = Len(titles) + Len(m)
       /\ \A i \in 1 .. Len(titles) + Len(m) :
            titles'[i] = IF i <= Len(titles) THEN titles[i] ELSE m[i - Len(titles)]
  BY <1>4, <1>7, <1>8, <1>10, Joined
<1>12. ASSUME NEW i \in 1 .. Len(titles') PROVE Shown(titles'[i])
  <2>0. PICK a \in Nat, b \in Nat : a = Len(titles) /\ b = Len(m)
    BY <1>8, <1>11
  <2>1. i \in 1 .. a + b
    BY <1>11, <2>0
  <2>2. CASE i <= a
    <3>1. i \in 1 .. Len(titles) /\ titles'[i] = titles[i]
      BY <1>11, <2>0, <2>1, <2>2
    <3> QED BY <1>10, <3>1
  <2>3. CASE ~(i <= a)
    <3>1. i - a \in 1 .. b
      BY <2>1, <2>3
    <3>2. titles'[i] = m[i - a]
      BY <1>11, <2>0, <2>1, <2>3
    <3> QED BY <1>9, <2>0, <3>1, <3>2
  <2> QED BY <2>2, <2>3
<1> QED BY <1>6, <1>11, <1>12

\* What a packet holds is decoded as one of its units, or not at all.
LEMMA CollectedGood ==
    ASSUME script \in Scripts, PictureInv, NEW b, Fragments(b), b # <<>>, NEW size, NEW pts,
           Collected(b, size, pts)
    PROVE  /\ DecoderRec(dec')
           /\ IsSeq(titles') /\ \A k \in 1 .. Len(titles') : Shown(titles'[k])
           /\ Fragments(packet')
<1>1. /\ DecoderRec(dec) /\ IsSeq(titles) /\ \A k \in 1 .. Len(titles) : Shown(titles[k])
  BY DEF PictureInv
<1>2. CASE Offset(b) \in {size, size - 1}
  <2>1. packet' = <<>> /\ \E u \in Chained(b) :
            IF u = None THEN packet_size' = 0 /\ UNCHANGED <<dec, titles>>
            ELSE packet_size' = size /\ Decode(u, pts)
    BY <1>2 DEF Collected
  <2>2. PICK u \in Chained(b) :
            IF u = None THEN packet_size' = 0 /\ UNCHANGED <<dec, titles>>
            ELSE packet_size' = size /\ Decode(u, pts)
    BY <2>1
  <2>3. Fragments(<<>>)
    BY Nothing DEF Fragments
  <2>4. u = None \/ u \in 1 .. Len(script)
    <3>1. DOMAIN b = 1 .. Len(b) /\ 1 \in 1 .. Len(b)
      <4>1. DOMAIN b = 1 .. Len(b) /\ Len(b) \in Nat /\ Len(b) # 0
        BY SeqDomain DEF Fragments
      <4> QED BY <4>1
    <3>2. \A g \in ToSet(b) : g[1] \in 1 .. Len(script)
      BY <3>1 DEF Fragments, ToSet
    <3> QED BY <3>1, <3>2 DEF Chained, Fragments
  <2>5. CASE u = None
    BY <1>1, <2>1, <2>2, <2>3, <2>5
  <2>6. CASE u \in 1 .. Len(script) /\ u # None
    <3>1. Decode(u, pts)
      BY <2>2, <2>6
    <3> QED BY <2>1, <2>3, <2>6, <3>1, DecodeGood
  <2> QED BY <2>4, <2>5, <2>6
<1>3. CASE Offset(b) \notin {size, size - 1}
  <2>1. packet' = b /\ UNCHANGED <<dec, titles>>
    BY <1>3 DEF Collected
  <2> QED BY <1>1, <2>1
<1> QED BY <1>2, <1>3

LEMMA PictureStep == AssembleInv /\ PictureInv /\ [Next]_vars => PictureInv'
<1> SUFFICES ASSUME AssembleInv, PictureInv, [Next]_vars PROVE PictureInv'
  OBVIOUS
<1>0. script \in Scripts /\ UNCHANGED <<script, border>>
  <2>1. script \in Scripts
    BY DEF AssembleInv
  <2> QED BY <2>1 DEF Next, Lose, Ignore, Fragment, BadStream, End, Options, vars
<1>1. SUFFICES /\ DecoderRec(dec')
               /\ IsSeq(titles') /\ \A k \in 1 .. Len(titles') : Shown(titles'[k])
               /\ Fragments(packet')
  <2> USE <1>0
  <2>1. \A t : Shown(t)' = Shown(t)
    BY StreamStays
  <2>2. \A b : Fragments(b)' = Fragments(b)
    BY StreamStays
  <2>3. Fragments(packet)'
    BY <1>1, <2>2 DEF Fragments
  <2>4. \A k \in 1 .. Len(titles') : Shown(titles[k])'
    BY <1>1, <2>1 DEF Shown
  <2>5. border' \in Borders
    BY DEF PictureInv
  <2>6. IsSeq(titles)' /\ DecoderRec(dec)'
    BY <1>1 DEF IsSeq, DecoderRec
  <2> QED BY <2>3, <2>4, <2>5, <2>6 DEF PictureInv
<1>2. CASE UNCHANGED <<packet, dec, titles>>
  BY <1>2 DEF PictureInv
<1>3. CASE Fragment
  <2>1. ~AllRead /\ Assemble(at)
    BY <1>3 DEF Fragment
  <2>2. at[1] \in 1 .. Len(script)
    BY <2>1, NextIs
  <2> DEFINE pts == Unit(at).pts
  <2>3. ASSUME NEW b, Fragments(b), NEW size, Collected(Append(b, at), size, pts)
        PROVE  /\ DecoderRec(dec')
               /\ IsSeq(titles') /\ \A k \in 1 .. Len(titles') : Shown(titles'[k])
               /\ Fragments(packet')
    <3>1. /\ IsSeq(Append(b, at)) /\ Append(b, at) # <<>> /\ Len(b) \in Nat
          /\ Len(Append(b, at)) = Len(b) + 1
          /\ \A i \in 1 .. Len(b) : Append(b, at)[i] = b[i]
          /\ Append(b, at)[Len(b) + 1] = at
      BY <2>3, Appended DEF Fragments
    <3>2. \A i \in 1 .. Len(b) + 1 : i \in 1 .. Len(b) \/ i = Len(b) + 1
      BY <3>1
    <3>3. Fragments(Append(b, at))
      BY <2>2, <2>3, <3>1, <3>2 DEF Fragments
    <3> QED BY <1>0, <2>3, <3>1, <3>3, CollectedGood
  <2>4. CASE Before(pts) = <<>>
    <3>1. FirstFragment(at, pts)
      BY <2>1, <2>4 DEF Assemble
    <3>2. \/ UNCHANGED <<packet, packet_size, dec, titles>>
          \/ \E size : Collected(<<at>>, size, pts)
      BY <3>1 DEF FirstFragment
    <3>3. Fragments(<<>>)
      BY Nothing DEF Fragments
    <3>4. <<at>> = Append(<<>>, at)
      OBVIOUS
    <3> QED BY <1>2, <2>3, <3>2, <3>3, <3>4
  <2>5. CASE Before(pts) # <<>>
    <3>1. NextFragment(at, pts)
      BY <2>1, <2>5 DEF Assemble
    <3>2. \/ packet' = <<>> /\ UNCHANGED <<dec, titles>>
          \/ Collected(Append(packet, at), packet_size, pts)
      BY <3>1 DEF NextFragment
    <3>3. Fragments(<<>>)
      BY Nothing DEF Fragments
    <3>4. Fragments(packet)
      BY DEF PictureInv
    <3>5. CASE packet' = <<>> /\ UNCHANGED <<dec, titles>>
      BY <3>3, <3>5 DEF PictureInv
    <3>6. CASE Collected(Append(packet, at), packet_size, pts)
      BY <2>3, <3>4, <3>6
    <3> QED BY <3>2, <3>5, <3>6
  <2> QED BY <2>4, <2>5
<1>4. UNCHANGED <<packet, dec, titles>> \/ Fragment
  BY DEF Next, Lose, Ignore, BadStream, End, vars
<1> QED BY <1>2, <1>3, <1>4

\* Every title that is written is cropped to a box that holds all that differs from
\* the background, and one that a packet starts and stops has the picture its
\* author coded, pixel by pixel (spudec_process_data, spudec_crop_image).
THEOREM PicturesAreRight == Spec => []PictureRight
<1>1. PictureInv => PictureRight
  <2> SUFFICES ASSUME PictureInv PROVE PictureRight
    OBVIOUS
  <2>1. DOMAIN titles = 1 .. Len(titles)
    BY SeqDomain DEF PictureInv
  <2>2. \A k \in DOMAIN titles : BoxRight(titles[k])
    BY <2>1 DEF PictureInv, Shown
  <2>3. \A k \in DOMAIN titles :
          titles[k].alone /\ titles[k].opened = titles[k].closed
            => titles[k].image = Drawn(titles[k].opened)
    BY <2>1 DEF PictureInv, Shown
  <2>4. OwnPicture
    BY <2>3 DEF OwnPicture
  <2>5. NothingCutOff
    BY <2>2 DEF NothingCutOff, BoxRight
  <2> QED BY <2>4, <2>5 DEF PictureRight
<1>2. Spec => []PictureInv
  BY PictureInit, PictureStep, AssembleInvHolds, PTL DEF Spec
<1> QED BY <1>1, <1>2, PTL

-------------------------------------------------------------------------------
(***************************************************************************)
(* Titles, one after the other                                             *)
(***************************************************************************)
\* A time at which unit u starts a title
StartOf(u, time) ==
    \E j \in 1 .. Len(Cs(u)) : Cs(u)[j].cmd \in Shows /\ time = script[u].pts + Cs(u)[j].date

\* ts are the titles of the units S, one of each and in order.
InTurn(ts, S) ==
    /\ {ts[k].opened : k \in 1 .. Len(ts)} = S
    /\ \A k \in 1 .. Len(ts) : /\ StartOf(ts[k].opened, ts[k].start)
                               /\ ts[k].end >= ts[k].start
                               /\ \A j \in 1 .. k - 1 : ts[j].opened < ts[k].opened

\* The titles written are those of the units S but for the one that is open.
Told(ts, d, S) ==
    /\ InTurn(ts, S \ (IF d.end_pts = Open THEN {d.opened} ELSE {}))
    /\ d.end_pts = Open => /\ d.opened \in S /\ \A u \in S : u <= d.opened
                           /\ StartOf(d.opened, d.start_pts)

\* One more title is written: the one that was open.
LEMMA ToldOneMore ==
    ASSUME NEW S \in SUBSET Nat, NEW ts, IsSeq(ts), NEW d, Told(ts, d, S), d.end_pts = Open,
           NEW t, t.opened = d.opened, t.start = d.start_pts, t.end >= t.start
    PROVE  InTurn(Append(ts, t), S)
<1>1. PICK a : a = Append(ts, t)
  OBVIOUS
<1>2. PICK n \in Nat : n = Len(ts) /\ Len(a) = n + 1 /\ (\A i \in 1 .. n : a[i] = ts[i]) /\ a[n + 1] = t
  BY <1>1, Appended
<1>3. \A i \in 1 .. n + 1 : i \in 1 .. n \/ i = n + 1
  OBVIOUS
<1>4. /\ {ts[k].opened : k \in 1 .. n} = S \ {d.opened}
      /\ d.opened \in S /\ (\A u \in S : u <= d.opened) /\ StartOf(d.opened, d.start_pts)
      /\ \A k \in 1 .. n : /\ StartOf(ts[k].opened, ts[k].start) /\ ts[k].end >= ts[k].start
                           /\ \A j \in 1 .. k - 1 : ts[j].opened < ts[k].opened
  BY <1>2 DEF Told, InTurn
<1>5. {a[k].opened : k \in 1 .. n + 1} = S
  <2>1. \A k \in 1 .. n : a[k].opened \in S
    BY <1>2, <1>4
  <2>2. n + 1 \in 1 .. n + 1 /\ a[n + 1].opened = d.opened
    BY <1>2
  <2>3. ASSUME NEW u \in S PROVE \E k \in 1 .. n + 1 : a[k].opened = u
    <3>1. CASE u = d.opened
      BY <2>2, <3>1
    <3>2. CASE u # d.opened
      <4>1. PICK k \in 1 .. n : ts[k].opened = u
        BY <1>4, <3>2
      <4>2. k \in 1 .. n + 1 /\ a[k].opened = u
        BY <1>2, <4>1
      <4> QED BY <4>2
    <3> QED BY <3>1, <3>2
  <2>4. \A k \in 1 .. n + 1 : a[k].opened \in S
    BY <1>3, <1>4, <2>1, <2>2
  <2> QED BY <2>3, <2>4
<1>6. ASSUME NEW k \in 1 .. n + 1
      PROVE  /\ StartOf(a[k].opened, a[k].start) /\ a[k].end >= a[k].start
             /\ \A j \in 1 .. k - 1 : a[j].opened < a[k].opened
  <2>1. CASE k \in 1 .. n
    <3>1. \A j \in 1 .. k - 1 : j \in 1 .. n
      BY <2>1
    <3> QED BY <1>2, <1>4, <2>1, <3>1
  <2>2. CASE k = n + 1
    <3>1. a[k] = t /\ k - 1 = n
      BY <1>2, <2>2
    <3>2. \A j \in 1 .. n : a[j] = ts[j] /\ ts[j].opened \in S \ {d.opened}
      BY <1>2, <1>4
    <3>3. \A u \in S \ {d.opened} : u < d.opened
      <4>1. PICK o \in Nat : o = d.opened
        BY <1>4
      <4>2. \A u \in S : u \in Nat /\ u <= o
        BY <1>4, <4>1
      <4> QED BY <4>1, <4>2
    <3> QED BY <1>4, <3>1, <3>2, <3>3
  <2> QED BY <1>3, <2>1, <2>2
<1> QED BY <1>1, <1>2, <1>5, <1>6 DEF InTurn

Showing(u, k) == \E j \in 1 .. k : Cs(u)[j].cmd \in Shows
Stopping(u, k) == \E j \in 1 .. k : Cs(u)[j].cmd = "stop"

\* The title of unit u is the open one from its start to its stop.
Follows(u, d, k) ==
    Showing(u, k) /\ ~Stopping(u, k) =>
      /\ d.end_pts = Open /\ d.opened = u
      /\ \E j \in 1 .. k : Cs(u)[j].cmd \in Shows /\ d.start_pts = script[u].pts + Cs(u)[j].date

Began(S, u, k) == S \cup (IF Showing(u, k) THEN {u} ELSE {})

LEMMA JoinedAppend ==
    ASSUME NEW s, IsSeq(s), NEW t, IsSeq(t), NEW e
    PROVE  s \o Append(t, e) = Append(s \o t, e)
<1>1. PICK S : s \in Seq(S)
  BY DEF IsSeq
<1>2. PICK T : t \in Seq(T)
  BY DEF IsSeq
<1>3. PICK U : U = S \cup T \cup {e}
  OBVIOUS
<1>4. s \in Seq(U) /\ t \in Seq(U) /\ e \in U
  BY <1>1, <1>2, <1>3
<1> QED BY <1>4

\* Every command of an orderly unit keeps the count.
LEMMA ToldStep ==
    ASSUME script \in Scripts, border \in Borders, Orderly,
           NEW u \in 1 .. Len(script), NEW S \in SUBSET (1 .. u - 1),
           NEW k \in 1 .. Len(Cs(u)), NEW d, Controlled(u, d, k - 1),
           NEW ts, IsSeq(ts), Told(ts \o d.done, d, Began(S, u, k - 1)), Follows(u, d, k - 1),
           NEW r, r = Command(u, d, Cs(u)[k].cmd, script[u].pts + Cs(u)[k].date)
    PROVE  Told(ts \o r.done, r, Began(S, u, k)) /\ Follows(u, r, k)
<1> DEFINE cmd == Cs(u)[k].cmd
           now == script[u].pts + Cs(u)[k].date
           n == Len(Cs(u))
<1>1. CommandDoes(u, d, cmd, now, r)
  <2>1. DecoderRec(d) /\ (cmd \in Shows \cup {"stop"} => Ready(u, d))
    BY ControlledReady
  <2> QED BY <2>1, CommandIs
<1>2. /\ n \in Nat /\ DOMAIN Cs(u) = 1 .. n /\ \A j \in 1 .. n : Cs(u)[j].date \in Nat
      /\ u \in DOMAIN script /\ script[u].pts \in Nat
  <2>1. u \in DOMAIN script /\ script[u].pts \in Nat
    BY UnitIs DEF WellSent
  <2> QED BY <2>1, CommandsAre
<1>3. OneTitle(Cs(u))
  BY <1>2 DEF Orderly, Cs
<1>4. /\ k \in Nat /\ k \in 1 .. n /\ \A j \in 1 .. k - 1 : j \in 1 .. n
      /\ \A j \in 1 .. k : j \in 1 .. k - 1 \/ j = k
      /\ \A j \in 1 .. k - 1 : j \in 1 .. k
  BY <1>2
<1>5. now \in Nat
  BY <1>2, <1>4
<1>6. /\ cmd = "stop" => Showing(u, k - 1) /\ ~Stopping(u, k - 1)
      /\ cmd \in Shows => ~Showing(u, k - 1)
      /\ \A j \in 1 .. k - 1 : Cs(u)[j].date <= Cs(u)[k].date
  BY <1>2, <1>3, <1>4 DEF OneTitle, Showing, Stopping
<1>7. /\ Showing(u, k) <=> Showing(u, k - 1) \/ cmd \in Shows
      /\ Stopping(u, k) <=> Stopping(u, k - 1) \/ cmd = "stop"
  BY <1>4 DEF Showing, Stopping
<1>8. IsSeq(d.done) /\ IsSeq(ts \o d.done)
  BY Joined DEF Controlled
<1>9. Began(S, u, k - 1) \in SUBSET Nat /\ Began(S, u, k) \in SUBSET Nat
  <2>1. S \in SUBSET Nat /\ u \in Nat
    OBVIOUS
  <2> QED BY <2>1 DEF Began
<1>10. "stop" \notin Shows
  BY DEF Shows
<1> HIDE DEF cmd, now, n
<1>11. CASE cmd \in Shows
  <2>1. Began(S, u, k - 1) = S /\ Began(S, u, k) = S \cup {u}
    BY <1>6, <1>7, <1>11 DEF Began
  <2>2. StartOf(u, now)
    BY <1>4, <1>11 DEF StartOf, cmd, now, n
  <2>3. /\ r.start_pts = now /\ r.end_pts = Open /\ r.opened = u
        /\ d.end_pts = Open => Ended(u, d, now, r)
        /\ d.end_pts # Open => r.done = d.done
    BY <1>1, <1>11 DEF CommandDoes
  <2>4. Follows(u, r, k)
    <3>1. k \in 1 .. k
      BY <1>4
    <3> QED BY <1>11, <2>3, <3>1 DEF Follows, cmd, now
  <2>5. (S \cup {u}) \ {u} = S /\ u \in S \cup {u} /\ \A v \in S \cup {u} : v <= u
    OBVIOUS
  <2>6. CASE d.end_pts = Open
    <3>1. PICK t : /\ r.done = Append(d.done, t)
                   /\ t.start = d.start_pts /\ t.end = now /\ t.opened = d.opened
      BY <2>3, <2>6 DEF Ended
    <3>2. d.opened \in S /\ StartOf(d.opened, d.start_pts)
      BY <2>1, <2>6 DEF Told
    <3>3. t.end >= t.start
      <4>1. PICK o \in 1 .. u - 1 : o = d.opened
        BY <3>2
      <4>2. o \in DOMAIN script /\ o \in 1 .. Len(script) /\ script[o].pts \in Nat
        <5>1. Len(script) \in Nat
          BY SpudecAssumption
        <5>2. o \in 1 .. Len(script)
          BY <5>1
        <5> QED BY <5>2, UnitIs DEF WellSent
      <4>3. PICK j \in 1 .. Len(Cs(o)) : Cs(o)[j].cmd \in Shows /\ d.start_pts = script[o].pts + Cs(o)[j].date
        BY <3>2, <4>1 DEF StartOf
      <4>4. Cs(o)[j] \in Starts(script[o]) /\ Cs(o)[j].date \in Nat
        <5>1. j \in DOMAIN Cs(o) /\ Cs(o)[j].date \in Nat
          BY <4>2, CommandsAre
        <5> QED BY <4>3, <5>1 DEF Starts, ToSet, Cs
      <4>5. Cs(u)[k] \in Starts(script[u])
        <5>1. k \in DOMAIN Cs(u)
          BY <1>2, <1>4 DEF n
        <5> QED BY <1>11, <5>1 DEF Starts, ToSet, Cs, cmd
      <4>6. script[o].pts + Cs(o)[j].date <= script[u].pts + Cs(u)[k].date
        BY <1>2, <4>1, <4>4, <4>5 DEF Orderly
      <4>7. d.start_pts <= now /\ d.start_pts \in Nat
        BY <4>2, <4>3, <4>4, <4>6 DEF now
      <4> QED BY <1>5, <3>1, <4>7
    <3> DEFINE q == Append(ts \o d.done, t)
    <3>4. InTurn(q, S)
      <4>1. S \in SUBSET Nat
        OBVIOUS
      <4>2. Told(ts \o d.done, d, S)
        BY <2>1
      <4> QED BY <1>8, <2>6, <3>1, <3>3, <4>1, <4>2, ToldOneMore
    <3>5. ts \o r.done = q
      <4>1. ts \o Append(d.done, t) = Append(ts \o d.done, t)
        BY <1>8, JoinedAppend
      <4> QED BY <3>1, <4>1
    <3> HIDE DEF q
    <3>6. Told(q, r, S \cup {u})
      BY <2>2, <2>3, <2>5, <3>4 DEF Told
    <3> QED BY <2>1, <2>4, <3>5, <3>6
  <2>7. CASE d.end_pts # Open
    <3>1. r.done = d.done
      BY <2>3, <2>7
    <3>2. Told(ts \o d.done, d, S)
      BY <2>1
    <3>3. Told(ts \o d.done, r, S \cup {u})
      BY <2>2, <2>3, <2>5, <2>7, <3>2 DEF Told
    <3> QED BY <2>1, <2>4, <3>1, <3>3
  <2> QED BY <2>6, <2>7
<1>12. CASE cmd = "stop"
  <2>1. Began(S, u, k) = Began(S, u, k - 1)
    BY <1>6, <1>7, <1>12 DEF Began
  <2>2. PICK j \in 1 .. k - 1 : d.end_pts = Open /\ d.opened = u /\ Cs(u)[j].cmd \in Shows
                                /\ d.start_pts = script[u].pts + Cs(u)[j].date
    BY <1>6, <1>12 DEF Follows
  <2>3. r.end_pts = now /\ Ended(u, d, now, r)
    BY <1>1, <1>12 DEF CommandDoes
  <2>4. now # Open
    BY <1>5 DEF Open
  <2>5. PICK t : /\ r.done = Append(d.done, t)
                 /\ t.start = d.start_pts /\ t.end = now /\ t.opened = d.opened
    BY <2>3 DEF Ended
  <2>6. t.end >= t.start
    <3>1. Cs(u)[j].date <= Cs(u)[k].date /\ Cs(u)[j].date \in Nat /\ Cs(u)[k].date \in Nat
      BY <1>2, <1>4, <1>6
    <3> QED BY <1>2, <2>2, <2>5, <3>1 DEF now
  <2> DEFINE q == Append(ts \o d.done, t)
  <2>7. InTurn(q, Began(S, u, k - 1))
    BY <1>8, <1>9, <2>2, <2>5, <2>6, ToldOneMore
  <2>8. ts \o r.done = q
    <3>1. ts \o Append(d.done, t) = Append(ts \o d.done, t)
      BY <1>8, JoinedAppend
    <3> QED BY <2>5, <3>1
  <2> HIDE DEF q
  <2>9. Told(q, r, Began(S, u, k))
    BY <2>1, <2>3, <2>4, <2>7 DEF Told
  <2>10. Follows(u, r, k)
    BY <1>7, <1>12 DEF Follows
  <2> QED BY <2>8, <2>9, <2>10
<1>13. CASE cmd \notin Shows \cup {"stop"}
  <2>1. Began(S, u, k) = Began(S, u, k - 1)
    BY <1>7, <1>13 DEF Began
  <2>2. r.done = d.done /\ r.start_pts = d.start_pts /\ r.end_pts = d.end_pts /\ r.opened = d.opened
    BY <1>1, <1>13 DEF CommandDoes
  <2>3. Told(ts \o r.done, r, Began(S, u, k))
    BY <2>1, <2>2 DEF Told
  <2>4. Follows(u, r, k)
    BY <1>4, <1>7, <1>13, <2>2 DEF Follows
  <2> QED BY <2>3, <2>4
<1> QED BY <1>11, <1>12, <1>13

\* What Told says is told of the times and the units alone.
LEMMA ToldSame ==
    ASSUME NEW s, NEW t, NEW d, NEW e, NEW S, Len(t) \in Nat, Len(s) = Len(t),
           \A i \in 1 .. Len(t) : t[i].start = s[i].start /\ t[i].end = s[i].end
                                  /\ t[i].opened = s[i].opened,
           e.end_pts = d.end_pts, e.opened = d.opened, e.start_pts = d.start_pts,
           Told(s, d, S)
    PROVE  Told(t, e, S)
<1>1. PICK n \in Nat : n = Len(s) /\ n = Len(t)
  OBVIOUS
<1>2. {t[i].opened : i \in 1 .. n} = {s[i].opened : i \in 1 .. n}
  BY <1>1
<1>3. \A i \in 1 .. n : \A j \in 1 .. i - 1 : j \in 1 .. n
  OBVIOUS
<1> QED BY <1>1, <1>2, <1>3 DEF Told, InTurn

\* The units that start a title, of the first n - 1
Due(n) == {u \in DOMAIN script : Starts(script[u]) # {} /\ script[u].pts >= from /\ u < n}

LEMMA StartsIs ==
    ASSUME script \in Scripts, NEW u \in 1 .. Len(script)
    PROVE  Starts(script[u]) # {} <=> Showing(u, Len(Cs(u)))
<1>1. DOMAIN Cs(u) = 1 .. Len(Cs(u))
  BY CommandsAre
<1> QED BY <1>1 DEF Starts, Showing, ToSet, Cs

\* The packet of a unit is complete: its title joins those that are due.
LEMMA ToldUnit ==
    ASSUME script \in Scripts, border \in Borders, Orderly, DecoderRec(dec), IsSeq(titles),
           NEW u \in 1 .. Len(script), Told(titles, dec, Due(u)),
           from <= script[u].pts, from \in Nat, Decode(u, script[u].pts)
    PROVE  Told(titles', dec', Due(u + 1))
<1> DEFINE n == Len(Cs(u))
           d == ProcessControl(u, script[u].pts)
           S == Due(u)
<1>1. n \in Nat
  BY CommandsAre
<1>2. PICK f : Control(u, script[u].pts, n, f) /\ d = f[n]
  BY <1>1, ControlIs
<1>3. Due(u) \in SUBSET (1 .. u - 1) /\ u \in Nat /\ u \in DOMAIN script /\ script[u].pts \in Nat
  <2>1. DOMAIN script = 1 .. Len(script) /\ Len(script) \in Nat
    BY SpudecAssumption
  <2>2. script[u].pts \in Nat
    BY UnitIs DEF WellSent
  <2> QED BY <2>1, <2>2 DEF Due
<1>4. \A k \in 0 .. n : Controlled(u, f[k], k)
  <2>1. n = Len(Cs(u))
    OBVIOUS
  <2> HIDE DEF n, d
  <2> QED BY <1>1, <1>2, <2>1, ControlledAll
<1> DEFINE M == {k \in Nat : k <= n => Told(titles \o f[k].done, f[k], Began(S, u, k)) /\ Follows(u, f[k], k)}
<1>5. 0 \in M
  <2>1. f[0] = [dec EXCEPT !.done = <<>>]
    BY <1>2 DEF Control
  <2>2. f[0].done = <<>> /\ f[0].end_pts = dec.end_pts /\ f[0].opened = dec.opened
        /\ f[0].start_pts = dec.start_pts
    BY <2>1, DecoderFields
  <2>3. ~Showing(u, 0)
    BY DEF Showing
  <2>4. titles \o <<>> = titles
    <3>1. PICK T : titles \in Seq(T)
      BY DEF IsSeq
    <3> QED BY <3>1, ConcatEmptySeq
  <2>5. Began(S, u, 0) = S
    BY <2>3 DEF Began
  <2>6. Told(titles, f[0], S)
    BY <2>2 DEF Told
  <2> HIDE DEF S
  <2> QED BY <2>2, <2>3, <2>4, <2>5, <2>6 DEF Follows
<1>6. ASSUME NEW k \in Nat, k \in M PROVE k + 1 \in M
  <2> SUFFICES ASSUME k + 1 <= n
               PROVE  Told(titles \o f[k + 1].done, f[k + 1], Began(S, u, k + 1)) /\ Follows(u, f[k + 1], k + 1)
    OBVIOUS
  <2>1. k + 1 \in 1 .. Len(Cs(u)) /\ (k + 1) - 1 = k /\ k \in 0 .. n
    BY <1>1
  <2>2. Told(titles \o f[k].done, f[k], Began(S, u, k)) /\ Follows(u, f[k], k)
    BY <1>6, <2>1
  <2>3. f[k + 1] = Command(u, f[k], Cs(u)[k + 1].cmd, script[u].pts + Cs(u)[k + 1].date)
    BY <1>2, <2>1 DEF Control
  <2>4. S \in SUBSET (1 .. u - 1) /\ Controlled(u, f[k], k)
    BY <1>3, <1>4, <2>1
  <2> HIDE DEF M, S, n, d
  <2> QED BY <2>1, <2>2, <2>3, <2>4, ToldStep
<1> HIDE DEF M
<1>7. n \in M
  <2> HIDE DEF n
  <2> QED BY <1>1, <1>5, <1>6, SetInduction
<1>8. Told(titles \o d.done, d, Began(S, u, n))
  BY <1>1, <1>2, <1>7 DEF M
<1>9. Began(S, u, n) = Due(u + 1)
  <2>1. Showing(u, n) <=> u \in Due(u + 1)
    <3>1. script[u].pts >= from /\ u < u + 1
      BY <1>3
    <3>2. Starts(script[u]) # {} <=> Showing(u, n)
      BY StartsIs
    <3> HIDE DEF n
    <3> QED BY <1>3, <3>1, <3>2 DEF Due
  <2>2. \A v \in DOMAIN script : v \in Nat
    <3>1. DOMAIN script = 1 .. Len(script)
      BY SpudecAssumption
    <3> QED BY <3>1
  <2>3. ASSUME NEW v \in DOMAIN script, v # u PROVE v \in Due(u + 1) <=> v \in Due(u)
    <3>1. v < u + 1 <=> v < u
      BY <1>3, <2>2, <2>3
    <3> QED BY <3>1 DEF Due
  <2>4. u \notin Due(u) /\ Due(u) \subseteq DOMAIN script /\ Due(u + 1) \subseteq DOMAIN script
    BY <1>3 DEF Due
  <2> QED BY <2>1, <2>3, <2>4 DEF Began
<1>10. dec' = [d EXCEPT !.done = <<>>] /\ titles' = titles \o Marked(d.done, clean')
  BY DEF Decode, Emit, Marked
<1>11. Controlled(u, d, n)
  <2>1. n \in 0 .. n
    BY <1>1
  <2> HIDE DEF d, n
  <2> QED BY <1>2, <1>4, <2>1
<1> HIDE DEF d, n, S
<1>12. DecoderRec(d) /\ IsSeq(d.done) /\ \A i \in 1 .. Len(d.done) : TitleRec(d.done[i])
  BY <1>11 DEF Controlled, GoodTitle
<1>13. dec'.end_pts = d.end_pts /\ dec'.opened = d.opened /\ dec'.start_pts = d.start_pts
  BY <1>10, <1>12, DecoderFields
<1>14. PICK m : m = Marked(d.done, clean')
  OBVIOUS
<1>15. /\ IsSeq(m) /\ Len(m) = Len(d.done) /\ Len(m) \in Nat
       /\ \A i \in 1 .. Len(m) : m[i].start = d.done[i].start /\ m[i].end = d.done[i].end
                                 /\ m[i].opened = d.done[i].opened
  BY <1>12, <1>14, MarkedIs
<1>16. PICK a \in Nat, b \in Nat : a = Len(titles) /\ b = Len(m)
  BY <1>15, SeqDomain
<1>17. PICK s, t : s = titles \o d.done /\ t = titles \o m
  OBVIOUS
<1>18. Len(s) = a + b /\ \A i \in 1 .. a + b : s[i] = IF i <= a THEN titles[i] ELSE d.done[i - a]
  <2>1. PICK x : x = d.done
    OBVIOUS
  <2>2. IsSeq(x) /\ Len(x) = b
    BY <1>12, <1>15, <1>16, <2>1
  <2>3. Len(s) = a + b /\ \A i \in 1 .. a + b : s[i] = IF i <= a THEN titles[i] ELSE x[i - a]
    <3>1. s = titles \o x
      BY <1>17, <2>1
    <3> QED BY <1>16, <2>2, <3>1, Joined
  <2> QED BY <2>1, <2>3
<1>19. Len(t) = a + b /\ \A i \in 1 .. a + b : t[i] = IF i <= a THEN titles[i] ELSE m[i - a]
  BY <1>15, <1>16, <1>17, Joined
<1>20. ASSUME NEW i \in 1 .. a + b
       PROVE  t[i].start = s[i].start /\ t[i].end = s[i].end /\ t[i].opened = s[i].opened
  <2>1. CASE i <= a
    BY <1>18, <1>19, <2>1
  <2>2. CASE ~(i <= a)
    <3>1. i - a \in 1 .. b
      BY <2>2
    <3>2. s[i] = d.done[i - a] /\ t[i] = m[i - a]
      BY <1>18, <1>19, <2>2
    <3> QED BY <1>15, <1>16, <3>1, <3>2
  <2> QED BY <2>1, <2>2
<1>21. Len(t) \in Nat /\ Len(s) = Len(t)
  BY <1>18, <1>19
<1>22. Told(t, dec', Due(u + 1))
  <2>1. Told(s, d, Due(u + 1))
    BY <1>8, <1>9, <1>17
  <2>2. \A i \in 1 .. Len(t) : t[i].start = s[i].start /\ t[i].end = s[i].end
                               /\ t[i].opened = s[i].opened
    BY <1>19, <1>20
  <2>3. PICK e : e = dec'
    OBVIOUS
  <2>4. Told(t, e, Due(u + 1))
    BY <1>13, <1>21, <2>1, <2>2, <2>3, ToldSame
  <2> QED BY <2>3, <2>4
<1> QED BY <1>10, <1>14, <1>17, <1>22

TitlesInv ==
    /\ Orderly
    /\ lost \in Nat
    /\ lost = 0 => clean /\ Told(titles, dec, Due(at[1]))
    /\ run = "ended" /\ want = None => AllRead

LEMMA TitlesInit == Orderly /\ Init => TitlesInv
<1> SUFFICES ASSUME Orderly, Init PROVE TitlesInv
  OBVIOUS
<1>1. script \in Scripts /\ at = <<1, 1>> /\ dec = Decoder /\ titles = <<>> /\ run = "going"
      /\ lost = 0 /\ clean = TRUE
  BY DEF Init
<1>2. Due(at[1]) = {}
  <2>1. DOMAIN script = 1 .. Len(script)
    BY <1>1, SpudecAssumption
  <2> QED BY <1>1, <2>1 DEF Due
<1>3. dec.end_pts # Open /\ Len(titles) = 0
  BY <1>1, Nothing DEF Decoder, Open
<1>4. {titles[k].opened : k \in 1 .. Len(titles)} = {} /\ \A k \in 1 .. Len(titles) : FALSE
  BY <1>3
<1>5. Told(titles, dec, Due(at[1]))
  BY <1>2, <1>3, <1>4 DEF Told, InTurn
<1> QED BY <1>1, <1>5 DEF TitlesInv

LEMMA TitlesStep == AssembleInv /\ PictureInv /\ TitlesInv /\ [Next]_vars => TitlesInv'
<1> SUFFICES ASSUME AssembleInv, PictureInv, TitlesInv, [Next]_vars PROVE TitlesInv'
  OBVIOUS
<1>0. /\ script \in Scripts /\ from \in Nat /\ border \in Borders /\ DecoderRec(dec) /\ IsSeq(titles)
      /\ lost \in Nat /\ Orderly
  BY SpudecAssumption DEF AssembleInv, PictureInv, TitlesInv
<1>1. CASE Lose
  <2>1. lost' = lost + 1 /\ run' = "going"
    BY <1>1 DEF Lose
  <2>2. lost' \in Nat /\ lost' # 0 /\ run' # "ended"
    BY <1>0, <2>1
  <2>3. Orderly'
    BY <1>0 DEF Orderly
  <2> QED BY <2>2, <2>3 DEF TitlesInv
<1>2. CASE Ignore
  <2>1. ~AllRead /\ at' = After(at) /\ Unit(at).pts < from /\ run' = "going"
        /\ UNCHANGED <<script, from, dec, titles, lost, clean>>
    BY <1>2 DEF Ignore, Options
  <2>2. at[1] \in 1 .. Len(script) /\ at[2] \in 1 .. Lens(at[1]) /\ Unit(at) = script[at[1]]
        /\ Unit(at).pts \in Nat
    BY <2>1, NextIs
  <2>3. Lens(at[1]) \in Nat
    BY <1>0, <2>2, UnitIs DEF Lens
  <2>4. at'[1] = at[1] \/ at'[1] = at[1] + 1
    BY <2>1, <2>2, <2>3, AfterIs
  <2>5. Due(at[1] + 1) = Due(at[1])
    <3>1. \A v \in DOMAIN script : v \in Nat
      <4>1. DOMAIN script = 1 .. Len(script)
        BY <1>0, SpudecAssumption
      <4> QED BY <4>1
    <3>2. at[1] \notin Due(at[1] + 1)
      BY <1>0, <2>1, <2>2 DEF Due
    <3>3. \A v \in DOMAIN script : v # at[1] => (v < at[1] + 1 <=> v < at[1])
      BY <2>2, <3>1
    <3>4. at[1] \notin Due(at[1])
      BY <2>2 DEF Due
    <3> QED BY <3>2, <3>3, <3>4 DEF Due
  <2>6. Due(at'[1]) = Due(at[1])
    BY <2>4, <2>5
  <2>7. Due(at[1])' = Due(at'[1])
    BY <2>1 DEF Due
  <2>8. lost = 0 => Told(titles, dec, Due(at[1]))'
    BY <2>1, <2>6, <2>7 DEF TitlesInv, Told, InTurn, StartOf, Cs
  <2>9. Orderly' /\ run' # "ended"
    BY <1>0, <2>1 DEF Orderly
  <2> QED BY <2>1, <2>8, <2>9 DEF TitlesInv
<1>3. CASE Fragment
  <2>1. ~AllRead /\ at' = After(at) /\ run = "going" /\ Assemble(at) /\ Unit(at).pts >= from
        /\ UNCHANGED <<script, from, lost>>
    BY <1>3 DEF Fragment, Options
  <2>2. at[1] \in 1 .. Len(script) /\ at[2] \in 1 .. Lens(at[1]) /\ Unit(at) = script[at[1]]
        /\ Unit(at).pts \in Nat
    BY <2>1, NextIs
  <2>3. run' # "ended"
    BY <2>1 DEF Assemble, FirstFragment, NextFragment
  <2>4. Orderly'
    BY <1>0 DEF Orderly
  <2>5. ASSUME lost = 0 PROVE clean' /\ Told(titles, dec, Due(at[1]))'
    <3>1. clean'
      BY <2>1, <2>5 DEF Assemble, TitlesInv
    <3>2. \/ at[2] = Lens(at[1]) /\ Decode(at[1], script[at[1]].pts)
          \/ at[2] < Lens(at[1]) /\ UNCHANGED <<dec, titles>>
      BY <1>3, <3>1, CleanFragment
    <3>3. Told(titles, dec, Due(at[1]))
      BY <2>5 DEF TitlesInv
    <3>4. CASE at[2] = Lens(at[1]) /\ Decode(at[1], script[at[1]].pts)
      <4>1. at'[1] = at[1] + 1
        BY <2>1, <3>4, AfterIs
      <4>2. from <= script[at[1]].pts
        BY <1>0, <2>1, <2>2
      <4>3. Told(titles', dec', Due(at[1] + 1))
        BY <1>0, <2>2, <3>3, <3>4, <4>2, ToldUnit
      <4>4. Due(at[1])' = Due(at[1] + 1)
        BY <2>1, <4>1 DEF Due
      <4>5. Told(titles, dec, Due(at[1]))'
        BY <2>1, <4>3, <4>4 DEF Told, InTurn, StartOf, Cs
      <4> QED BY <3>1, <4>5
    <3>5. CASE at[2] < Lens(at[1]) /\ UNCHANGED <<dec, titles>>
      <4>1. at'[1] = at[1]
        BY <2>1, <3>5, AfterIs
      <4>2. Due(at[1])' = Due(at[1])
        BY <2>1, <4>1 DEF Due
      <4>3. Told(titles, dec, Due(at[1]))'
        BY <2>1, <3>3, <3>5, <4>2 DEF Told, InTurn, StartOf, Cs
      <4> QED BY <3>1, <4>3
    <3> QED BY <3>2, <3>4, <3>5
  <2> QED BY <1>0, <2>1, <2>3, <2>4, <2>5 DEF TitlesInv
<1>4. CASE BadStream \/ End \/ UNCHANGED vars
  <2>1. UNCHANGED <<script, from, want, at, dec, titles, lost, clean>>
    BY <1>4 DEF BadStream, End, vars, Options
  <2>2. run' = "ended" /\ want' = None => AllRead'
    <3>1. CASE BadStream
      BY <3>1 DEF BadStream
    <3>2. CASE End
      BY <2>1, <3>2 DEF End, Enough, AllRead
    <3>3. CASE UNCHANGED vars
      BY <2>1, <3>3 DEF TitlesInv, AllRead, vars
    <3> QED BY <1>4, <3>1, <3>2, <3>3
  <2>3. Due(at[1])' = Due(at[1])
    BY <2>1 DEF Due
  <2>4. lost = 0 => Told(titles, dec, Due(at[1]))'
    BY <2>1, <2>3 DEF TitlesInv, Told, InTurn, StartOf, Cs
  <2>5. Orderly'
    BY <1>0 DEF Orderly
  <2> QED BY <1>0, <2>1, <2>2, <2>4, <2>5 DEF TitlesInv
<1> QED BY <1>1, <1>2, <1>3, <1>4 DEF Next

\* Of a disc that is in order and read without losses every title is written once,
\* in order, from its own start to a time that is not before it
\* (spudec_process_control, spudec_handle_rest, the loop of subtitle2pgm).
THEOREM TitlesAreWritten == Orderly /\ Spec => []EveryTitle
<1>1. AssembleInv /\ PictureInv /\ TitlesInv => EveryTitle
  <2> SUFFICES ASSUME AssembleInv, PictureInv, TitlesInv, run = "ended", lost = 0, want = None
               PROVE  EveryTitle
    BY DEF EveryTitle
  <2> DEFINE Seen == {u \in DOMAIN script : Starts(script[u]) # {} /\ script[u].pts >= from}
  <2>1. Told(titles, dec, Due(at[1])) /\ AllRead
    BY DEF TitlesInv
  <2>2. DOMAIN script = 1 .. Len(script) /\ Len(script) \in Nat
    BY SpudecAssumption DEF AssembleInv
  <2>3. Due(at[1]) = Seen
    <3>1. \A u \in DOMAIN script : u < at[1]
      BY <2>1, <2>2 DEF AllRead, AssembleInv
    <3> QED BY <3>1 DEF Due
  <2>4. DOMAIN titles = 1 .. Len(titles)
    BY SeqDomain DEF PictureInv
  <2>5. Told(titles, dec, Seen)
    BY <2>1, <2>3
  <2> HIDE DEF Seen
  <2>6. ASSUME NEW k \in DOMAIN titles
        PROVE  \E c \in Starts(script[titles[k].opened]) :
                 titles[k].start = script[titles[k].opened].pts + c.date
    <3>1. StartOf(titles[k].opened, titles[k].start)
      BY <2>4, <2>5 DEF Told, InTurn
    <3>2. PICK u : u = titles[k].opened
      OBVIOUS
    <3>3. u \in 1 .. Len(script)
      <4>1. u \in {titles[i].opened : i \in 1 .. Len(titles)}
        BY <2>4, <3>2
      <4> QED BY <2>2, <2>5, <4>1 DEF Told, InTurn, Seen
    <3>4. PICK j \in 1 .. Len(Cs(u)) : Cs(u)[j].cmd \in Shows
                                       /\ titles[k].start = script[u].pts + Cs(u)[j].date
      BY <3>1, <3>2 DEF StartOf
    <3>5. j \in DOMAIN Cs(u)
      BY <3>3, CommandsAre DEF AssembleInv
    <3>6. Cs(u)[j] \in Starts(script[u])
      BY <3>4, <3>5 DEF Starts, ToSet, Cs
    <3> QED BY <3>2, <3>4, <3>6
  <2>7. /\ {titles[k].opened : k \in DOMAIN titles}
             = Seen \ (IF dec.end_pts = Open THEN {dec.opened} ELSE {})
        /\ dec.end_pts = Open => \A u \in Seen : u <= dec.opened
        /\ \A k \in DOMAIN titles : \A j \in 1 .. k - 1 : titles[j].opened < titles[k].opened
        /\ \A k \in DOMAIN titles : titles[k].end >= titles[k].start
    BY <2>4, <2>5 DEF Told, InTurn
  <2> QED BY <2>6, <2>7 DEF EveryTitle, Seen
<1>2. Orderly /\ Spec => []TitlesInv
  <2>1. Spec => []PictureInv
    BY PictureInit, PictureStep, AssembleInvHolds, PTL DEF Spec
  <2> QED BY <2>1, TitlesInit, TitlesStep, AssembleInvHolds, PTL DEF Spec
<1>3. Spec => []PictureInv
  BY PictureInit, PictureStep, AssembleInvHolds, PTL DEF Spec
<1> QED BY <1>1, <1>2, <1>3, AssembleInvHolds, PTL

-------------------------------------------------------------------------------
(***************************************************************************)
(* The files of VobSub                                                     *)
(***************************************************************************)
Sizes(file) == [k \in 1 .. Len(file) |-> file[k].size]
Sized(file) == IsSeq(file) /\ \A k \in 1 .. Len(file) : file[k].size \in Nat

LEMMA ThroughSum ==
    ASSUME NEW file, Sized(file), NEW n \in 0 .. Len(file), NEW s, Adds(Sizes(file), Len(file), s)
    PROVE  Through(file, n) = s[n]
<1> DEFINE F(f) == [k \in 0 .. n |-> IF k = 0 THEN 0 ELSE f[k - 1] + file[k].size]
           g == CHOOSE f : f = F(f)
           e == [k \in 0 .. n |-> s[k]]
<1>0. Len(file) \in Nat /\ n \in Nat /\ n \in 0 .. n /\ \A k \in 1 .. n : k \in 1 .. Len(file)
  BY SeqDomain DEF Sized
<1>1. Through(file, n) = g[n]
  BY DEF Through
<1>2. s[0] = 0 /\ \A k \in 1 .. n : s[k] = s[k - 1] + file[k].size
  BY <1>0 DEF Adds, Sizes
<1>3. e = F(e)
  <2>1. ASSUME NEW k \in 0 .. n PROVE e[k] = IF k = 0 THEN 0 ELSE e[k - 1] + file[k].size
    <3>1. CASE k = 0
      BY <1>2, <3>1
    <3>2. CASE k # 0
      <4>1. k \in 1 .. n /\ k - 1 \in 0 .. n
        BY <3>2
      <4> QED BY <1>2, <3>2, <4>1
    <3> QED BY <3>1, <3>2
  <2> QED BY <2>1
<1>4. g = F(g)
  <2> HIDE DEF F
  <2> QED BY <1>3
<1> HIDE DEF g
<1>5. \A k \in 0 .. n : g[k] = IF k = 0 THEN 0 ELSE g[k - 1] + file[k].size
  BY <1>4
<1> DEFINE S == {i \in Nat : i <= n => g[i] = s[i]}
<1>6. 0 \in S
  BY <1>0, <1>2, <1>5
<1>7. ASSUME NEW i \in Nat, i \in S PROVE i + 1 \in S
  <2> SUFFICES ASSUME i + 1 <= n PROVE g[i + 1] = s[i + 1]
    OBVIOUS
  <2>1. i + 1 \in 1 .. n /\ i + 1 \in 0 .. n /\ i + 1 # 0 /\ (i + 1) - 1 = i
    OBVIOUS
  <2>2. g[i + 1] = g[i] + file[i + 1].size
    BY <1>5, <2>1
  <2>3. s[i + 1] = s[i] + file[i + 1].size
    BY <1>2, <2>1
  <2> QED BY <1>7, <2>2, <2>3
<1> HIDE DEF S
<1>8. n \in S
  <2>1. Nat \subseteq S
    BY <1>6, <1>7, SetInduction
  <2> QED BY <1>0, <2>1
<1> QED BY <1>1, <1>8 DEF S

LEMMA ThroughIs ==
    ASSUME NEW file, Sized(file)
    PROVE  /\ Len(file) \in Nat /\ Through(file, 0) = 0
           /\ \A k \in 1 .. Len(file) : Through(file, k) = Through(file, k - 1) + file[k].size
           /\ \A k \in 0 .. Len(file) : Through(file, k) \in Nat
<1>1. Len(file) \in Nat /\ \A k \in 1 .. Len(file) : Sizes(file)[k] = file[k].size /\ file[k].size \in Nat
  BY SeqDomain DEF Sized, Sizes
<1>2. PICK s : Adds(Sizes(file), Len(file), s)
  BY <1>1, SumExists
<1>3. \A n \in 0 .. Len(file) : Through(file, n) = s[n]
  BY <1>2, ThroughSum
<1>4. /\ s \in [0 .. Len(file) -> Nat] /\ s[0] = 0
      /\ \A k \in 1 .. Len(file) : s[k] = s[k - 1] + Sizes(file)[k]
  BY <1>2 DEF Adds
<1>5. \A k \in 1 .. Len(file) : k - 1 \in 0 .. Len(file) /\ k \in 0 .. Len(file)
  BY <1>1
<1>6. 0 \in 0 .. Len(file)
  BY <1>1
<1> QED BY <1>1, <1>3, <1>4, <1>5, <1>6

\* What is written behind an element does not move it.
LEMMA ThroughGrown ==
    ASSUME NEW a, Sized(a), NEW b, Sized(b), Len(a) <= Len(b),
           \A i \in 1 .. Len(a) : b[i].size = a[i].size
    PROVE  \A k \in 0 .. Len(a) : Through(b, k) = Through(a, k)
<1>1. Len(a) \in Nat /\ Len(b) \in Nat
  BY SeqDomain DEF Sized
<1>2. \A k \in 1 .. Len(a) : Sizes(a)[k] = a[k].size /\ a[k].size \in Nat
  BY DEF Sized, Sizes
<1>3. \A k \in 1 .. Len(b) : Sizes(b)[k] = b[k].size /\ b[k].size \in Nat
  BY DEF Sized, Sizes
<1>4. PICK s : Adds(Sizes(a), Len(a), s)
  BY <1>1, <1>2, SumExists
<1>5. PICK t : Adds(Sizes(b), Len(b), t)
  BY <1>1, <1>3, SumExists
<1>6. \A i \in 1 .. Len(a) : Sizes(b)[i] = Sizes(a)[i]
  BY <1>1, <1>2, <1>3
<1>7. \A k \in 0 .. Len(a) : t[k] = s[k]
  BY <1>1, <1>4, <1>5, <1>6, SumUnique
<1>8. \A k \in 0 .. Len(a) : Through(a, k) = s[k]
  BY <1>4, ThroughSum
<1>9. \A k \in 0 .. Len(b) : Through(b, k) = t[k]
  BY <1>5, ThroughSum
<1>10. \A k \in 0 .. Len(a) : k \in 0 .. Len(b)
  BY <1>1
<1> QED BY <1>7, <1>8, <1>9, <1>10

LEMMA Single ==
    ASSUME NEW e
    PROVE  IsSeq(<<e>>) /\ Len(<<e>>) = 1 /\ <<e>>[1] = e
<1>1. <<e>> \in Seq({e}) /\ Len(<<e>>) = 1 /\ <<e>>[1] = e
  OBVIOUS
<1> QED BY <1>1 DEF IsSeq

LEMMA PairJoined ==
    ASSUME NEW s, IsSeq(s), Len(s) = 2, NEW u, IsSeq(u)
    PROVE  /\ IsSeq(s \o u) /\ Len(s \o u) = 2 + Len(u)
           /\ (s \o u)[1] = s[1] /\ (s \o u)[2] = s[2]
           /\ Len(u) = 1 => (s \o u)[3] = u[1]
<1>1. /\ IsSeq(s \o u) /\ Len(u) \in Nat /\ Len(s \o u) = 2 + Len(u)
      /\ \A i \in 1 .. 2 + Len(u) : (s \o u)[i] = IF i <= 2 THEN s[i] ELSE u[i - 2]
  <2>1. /\ IsSeq(s \o u) /\ Len(u) \in Nat /\ Len(s \o u) = Len(s) + Len(u)
        /\ \A i \in 1 .. Len(s) + Len(u) :
             (s \o u)[i] = IF i <= Len(s) THEN s[i] ELSE u[i - Len(s)]
    BY Joined
  <2> QED BY <2>1
<1>2. 1 \in 1 .. 2 + Len(u) /\ 2 \in 1 .. 2 + Len(u)
  BY <1>1
<1>3. ASSUME Len(u) = 1 PROVE (s \o u)[3] = u[1]
  <2>1. 3 \in 1 .. 2 + Len(u) /\ ~(3 <= 2) /\ 3 - 2 = 1
    BY <1>3
  <2> QED BY <1>1, <2>1
<1> QED BY <1>1, <1>2, <1>3

\* A block of the .sub file: a pack header of 14 bytes, the packet behind it, and
\* what fills the block.
BlockRight(b, stream, data, len, time) ==
    /\ Sized(b) /\ Len(b) \in {2, 3}
    /\ b[1].kind = "pack" /\ b[1].size = 14
    /\ b[2].kind = "packet" /\ b[2].aid = stream /\ b[2].data = data
    /\ b[2].pts = (IF StampLength(len, time) > 0 THEN time ELSE Unset)
    /\ Len(b) = 3 => b[3].kind # "packet"
    /\ 14 + b[2].size + (IF Len(b) = 3 THEN b[3].size ELSE 0) = Block

LEMMA BlockIs ==
    ASSUME NEW stream, NEW data, NEW len \in 1 .. Block - 24, NEW time \in Nat
    PROVE  BlockRight(BlockOf(stream, data, len, time), stream, data, len, time)
<1> DEFINE stamp == StampLength(len, time)
           fill == HeaderPadding(len, time)
           size == 10 + stamp + fill + len
           remain == Block - 14 - size
           head == <<[kind |-> "pack", size |-> 14],
                     [kind |-> "packet", size |-> size, aid |-> stream, data |-> data,
                      pts |-> IF stamp > 0 THEN time ELSE Unset]>>
<1>1. Block = 2048 /\ len \in Nat
  BY DEF Block
<1>2. stamp \in {0, 5} /\ fill \in 0 .. 6 /\ 10 + stamp + fill + len <= 2034
  BY <1>1 DEF StampLength, HeaderPadding, Room, PtsLength
<1>3. size \in Nat /\ remain \in Nat /\ 14 + size + remain = Block
  BY <1>1, <1>2
<1>4. BlockOf(stream, data, len, time) = head \o Padding(remain)
  BY DEF BlockOf
<1> HIDE DEF remain
<1>5. IsSeq(head) /\ Len(head) = 2
  <2>1. head \in Seq({head[1], head[2]})
    OBVIOUS
  <2> QED BY <2>1 DEF IsSeq
<1>6. \/ remain = 0 /\ Padding(remain) = <<>>
      \/ \E e : Padding(remain) = <<e>> /\ e.kind # "packet" /\ e.size = remain
  <2>1. CASE remain >= 6
    <3>1. Padding(remain) = <<[kind |-> "pad", size |-> remain]>>
      BY <2>1 DEF Padding
    <3> QED BY <3>1
  <2>2. CASE remain < 6 /\ remain > 0
    <3>1. Padding(remain) = <<[kind |-> "zeros", size |-> remain]>>
      BY <1>3, <2>2 DEF Padding
    <3> QED BY <3>1
  <2>3. CASE remain = 0
    BY <2>3 DEF Padding
  <2> QED BY <1>3, <2>1, <2>2, <2>3
<1>7. head[1] = [kind |-> "pack", size |-> 14]
      /\ head[2] = [kind |-> "packet", size |-> size, aid |-> stream, data |-> data,
                    pts |-> IF stamp > 0 THEN time ELSE Unset]
  OBVIOUS
<1> DEFINE b == head \o Padding(remain)
<1> HIDE DEF head, size
<1>9. /\ head[1].size = 14 /\ head[2].size = size /\ head[1].kind = "pack" /\ head[2].kind = "packet"
      /\ head[2].aid = stream /\ head[2].data = data
      /\ head[2].pts = (IF stamp > 0 THEN time ELSE Unset)
  BY <1>7
<1> HIDE DEF stamp
<1>10. CASE remain = 0 /\ Padding(remain) = <<>>
  <2>1. IsSeq(b) /\ Len(b) = 2 /\ b[1] = head[1] /\ b[2] = head[2]
    BY <1>5, <1>10, PairJoined, Nothing
  <2> HIDE DEF b
  <2>2. Sized(b)
    <3>1. ASSUME NEW k \in 1 .. Len(b) PROVE b[k].size \in Nat
      <4>1. k = 1 \/ k = 2
        BY <2>1
      <4> QED BY <1>3, <1>9, <2>1, <4>1
    <3> QED BY <2>1, <3>1 DEF Sized
  <2> QED BY <1>3, <1>4, <1>9, <1>10, <2>1, <2>2 DEF BlockRight, b, stamp
<1>11. CASE \E e : Padding(remain) = <<e>> /\ e.kind # "packet" /\ e.size = remain
  <2>1. PICK e : Padding(remain) = <<e>> /\ e.kind # "packet" /\ e.size = remain
    BY <1>11
  <2>2. IsSeq(b) /\ Len(b) = 3 /\ b[1] = head[1] /\ b[2] = head[2] /\ b[3] = e
    BY <1>5, <2>1, PairJoined, Single
  <2> HIDE DEF b
  <2>3. Sized(b)
    <3>1. ASSUME NEW k \in 1 .. Len(b) PROVE b[k].size \in Nat
      <4>1. k = 1 \/ k = 2 \/ k = 3
        BY <2>2
      <4> QED BY <1>3, <1>9, <2>1, <2>2, <4>1
    <3> QED BY <2>2, <3>1 DEF Sized
  <2> QED BY <1>3, <1>4, <1>9, <2>1, <2>2, <2>3 DEF BlockRight, b, stamp
<1> QED BY <1>6, <1>10, <1>11

\* Where block d of the .sub file starts
BlockAt(d) == (d - 1) * Block

LEMMA BlockAtIs ==
    ASSUME NEW d \in Nat, d # 0
    PROVE  /\ BlockAt(d) \in Nat /\ BlockAt(d) % Block = 0 /\ BlockAt(d) \div Block = d - 1
           /\ BlockAt(d + 1) = BlockAt(d) + Block
  BY DEF BlockAt, Block

LEMMA BlocksRise ==
    ASSUME NEW d \in Nat, d # 0, NEW e \in Nat, e # 0
    PROVE  /\ BlockAt(d) <= BlockAt(e) <=> d <= e
           /\ BlockAt(d) < BlockAt(e) <=> d < e
           /\ BlockAt(d) <= BlockAt(e) + 14 <=> d <= e
  BY DEF BlockAt, Block

-------------------------------------------------------------------------------
(***************************************************************************)
(* The index: of a sequence x of lines                                     *)
(***************************************************************************)
StampsOf(x) == {k \in DOMAIN x : x[k].kind = "timestamp"}
IsLastId(x, k, i) == i \in 1 .. k /\ x[i].kind = "id" /\ \A m \in i + 1 .. k : x[m].kind # "id"
LangOf(x, k) ==
    x[CHOOSE i \in 1 .. k : x[i].kind = "id" /\ \A m \in i + 1 .. k : x[m].kind # "id"].index

LEMMA LangIs ==
    ASSUME NEW x, NEW k \in Nat, NEW i, IsLastId(x, k, i)
    PROVE  LangOf(x, k) = x[i].index
<1> DEFINE P(n) == x[n].kind = "id" /\ \A m \in n + 1 .. k : x[m].kind # "id"
           c == CHOOSE n \in 1 .. k : P(n)
<1>1. i \in 1 .. k /\ P(i)
  BY DEF IsLastId
<1>2. c \in 1 .. k /\ P(c)
  <2> HIDE DEF P
  <2> QED BY <1>1
<1>3. ~(c < i) /\ ~(i < c)
  <2>1. ASSUME c < i PROVE FALSE
    <3>1. i \in c + 1 .. k
      BY <1>1, <1>2, <2>1
    <3> QED BY <1>1, <1>2, <3>1
  <2>2. ASSUME i < c PROVE FALSE
    <3>1. c \in i + 1 .. k
      BY <1>1, <1>2, <2>2
    <3> QED BY <1>1, <1>2, <3>1
  <2> QED BY <2>1, <2>2
<1>4. c = i
  <2> HIDE DEF c
  <2> QED BY <1>1, <1>2, <1>3
<1>5. LangOf(x, k) = x[c].index
  BY DEF LangOf
<1> HIDE DEF c
<1> QED BY <1>4, <1>5

\* The milliseconds of a time: a number that does not fall from one time to a
\* later one, and stands for a time at most a millisecond early.
LEMMA PartIs ==
    ASSUME NEW n \in Nat
    PROVE  Millis(n) \in Nat
<1>1. n \in RoundedDown => n - 1 \in Nat
  BY VobsubAssumption
<1> QED BY <1>1 DEF Millis, PerMs

LEMMA PartsRise ==
    ASSUME NEW m \in Nat, NEW n \in Nat, m <= n
    PROVE  Millis(m) <= Millis(n) /\ Millis(m) \in Nat /\ Millis(n) \in Nat
<1> DEFINE x == IF m \in RoundedDown THEN m - 1 ELSE m
           y == IF n \in RoundedDown THEN n - 1 ELSE n
<1>1. x \in Int /\ y \in Int /\ x <= y
  OBVIOUS
<1>2. x \div 90 <= y \div 90
  <2> HIDE DEF x, y
  <2> QED BY <1>1
<1> QED BY <1>2, PartIs DEF Millis, PerMs

LEMMA LastIdExists ==
    ASSUME NEW x, NEW k \in Nat, NEW n \in 1 .. k, x[n].kind = "id"
    PROVE  \E i : IsLastId(x, k, i) /\ n <= i
<1> DEFINE S == {i \in 1 .. k : x[i].kind = "id"}
           i == Most(S)
<1>1. S \in SUBSET (0 .. k) /\ S # {} /\ n \in S
  OBVIOUS
<1>2. i \in S /\ \A c \in S : c <= i
  BY <1>1, MostIs
<1> HIDE DEF i
<1>3. \A m \in i + 1 .. k : x[m].kind # "id"
  <2> SUFFICES ASSUME NEW m \in i + 1 .. k, x[m].kind = "id" PROVE FALSE
    OBVIOUS
  <2>1. m \in S /\ ~(m <= i)
    BY <1>2
  <2> QED BY <1>2, <2>1
<1>4. IsLastId(x, k, i)
  BY <1>2, <1>3 DEF IsLastId
<1> QED BY <1>1, <1>2, <1>4

\* What is written behind a line does not change its language.
LEMMA LangStays ==
    ASSUME NEW x, NEW y, NEW k \in Nat, \A i \in 1 .. k : y[i] = x[i],
           NEW n \in 1 .. k, x[n].kind = "id"
    PROVE  LangOf(y, k) = LangOf(x, k)
<1>1. PICK i : IsLastId(x, k, i)
  BY LastIdExists
<1>2. i \in 1 .. k /\ x[i].kind = "id" /\ \A m \in i + 1 .. k : m \in 1 .. k /\ x[m].kind # "id"
  BY <1>1 DEF IsLastId
<1>3. IsLastId(y, k, i)
  BY <1>2 DEF IsLastId
<1>4. y[i] = x[i]
  BY <1>2
<1> QED BY <1>1, <1>3, <1>4, LangIs

\* The line k of x points at the block of its time.
Points(x, w, k) ==
    \E d \in 1 .. Len(w) :
      x[k].filepos = BlockAt(d) /\ w[d].stream = LangOf(x, k) /\ Millis(w[d].pts) = x[k].ms

\* The index x goes with the blocks w.
IndexRight(x, w) ==
    /\ IsSeq(x)
    /\ \A k \in 1 .. Len(x) : x[k].kind \in {"langidx", "id", "timestamp"}
    /\ \A k \in StampsOf(x) : \E i \in 1 .. k : x[i].kind = "id"
    /\ \A k \in StampsOf(x) : Points(x, w, k)
    /\ \A k, m \in StampsOf(x) : k < m => x[k].filepos < x[m].filepos
    /\ \A d \in 1 .. Len(w) : \E k \in StampsOf(x) :
         LangOf(x, k) = w[d].stream /\ x[k].filepos <= BlockAt(d)

\* No time is given twice to a language.
TimesRise(x) ==
    \A k, m \in StampsOf(x) : (k < m /\ LangOf(x, k) = LangOf(x, m)) => x[k].ms < x[m].ms

\* y is x and lines behind it that are no time stamps.
Titled(x, y, index) ==
    /\ IsSeq(x) /\ IsSeq(y) /\ Len(x) < Len(y)
    /\ \A i \in 1 .. Len(x) : y[i] = x[i]
    /\ \A i \in Len(x) + 1 .. Len(y) : y[i].kind \in {"langidx", "id"} /\ y[i].index = index
    /\ y[Len(y)].kind = "id"

LEMMA TitledStamps ==
    ASSUME NEW x, NEW y, NEW index, Titled(x, y, index)
    PROVE  StampsOf(y) = StampsOf(x)
<1>1. DOMAIN x = 1 .. Len(x) /\ DOMAIN y = 1 .. Len(y) /\ Len(x) \in Nat /\ Len(y) \in Nat /\ Len(x) < Len(y)
  BY SeqDomain DEF Titled
<1>2. ASSUME NEW k \in StampsOf(y) PROVE k \in StampsOf(x)
  <2>1. k \in 1 .. Len(y) /\ y[k].kind = "timestamp"
    BY <1>1 DEF StampsOf
  <2>2. k \in 1 .. Len(x)
    <3> SUFFICES ASSUME k \notin 1 .. Len(x) PROVE FALSE
      OBVIOUS
    <3>1. k \in Len(x) + 1 .. Len(y)
      BY <1>1, <2>1
    <3> QED BY <2>1, <3>1 DEF Titled
  <2> QED BY <1>1, <2>1, <2>2 DEF Titled, StampsOf
<1>3. ASSUME NEW k \in StampsOf(x) PROVE k \in StampsOf(y)
  <2>1. k \in 1 .. Len(x) /\ x[k].kind = "timestamp" /\ k \in 1 .. Len(y)
    BY <1>1 DEF StampsOf
  <2> QED BY <1>1, <2>1 DEF Titled, StampsOf
<1> QED BY <1>2, <1>3

LEMMA IndexFacts ==
    ASSUME NEW x, NEW w, IndexRight(x, w)
    PROVE  /\ DOMAIN x = 1 .. Len(x) /\ Len(x) \in Nat
           /\ \A k \in StampsOf(x) : k \in 1 .. Len(x) /\ k \in Nat /\ x[k].kind = "timestamp"
           /\ \A k \in StampsOf(x) : \E i \in 1 .. k : x[i].kind = "id"
<1>1. DOMAIN x = 1 .. Len(x) /\ Len(x) \in Nat
  BY SeqDomain DEF IndexRight
<1> QED BY <1>1 DEF IndexRight, StampsOf

\* Lines that stand in both keep their languages.
LEMMA LangsKept ==
    ASSUME NEW x, NEW w, IndexRight(x, w), NEW y, \A i \in 1 .. Len(x) : y[i] = x[i]
    PROVE  \A k \in StampsOf(x) : LangOf(y, k) = LangOf(x, k) /\ y[k] = x[k]
<1> SUFFICES ASSUME NEW k \in StampsOf(x) PROVE LangOf(y, k) = LangOf(x, k) /\ y[k] = x[k]
  OBVIOUS
<1>1. k \in 1 .. Len(x) /\ k \in Nat /\ Len(x) \in Nat
  BY IndexFacts
<1>2. PICK n \in 1 .. k : x[n].kind = "id"
  BY IndexFacts
<1>3. \A i \in 1 .. k : y[i] = x[i]
  BY <1>1
<1> QED BY <1>1, <1>2, <1>3, LangStays

LEMMA IndexKept ==
    ASSUME NEW x, NEW w, IndexRight(x, w), NEW y, NEW index, Titled(x, y, index)
    PROVE  IndexRight(y, w) /\ (TimesRise(x) => TimesRise(y))
<1>1. StampsOf(y) = StampsOf(x)
  BY TitledStamps
<1>2. \A i \in 1 .. Len(x) : y[i] = x[i]
  BY DEF Titled
<1>3. \A k \in StampsOf(x) : LangOf(y, k) = LangOf(x, k) /\ y[k] = x[k]
  BY <1>2, LangsKept
<1>4. \A k \in 1 .. Len(y) : y[k].kind \in {"langidx", "id", "timestamp"}
  <2> TAKE k \in 1 .. Len(y)
  <2>1. Len(x) \in Nat /\ Len(y) \in Nat
    BY SeqDomain DEF Titled
  <2>2. k \in 1 .. Len(x) \/ k \in Len(x) + 1 .. Len(y)
    BY <2>1
  <2>3. \A i \in 1 .. Len(x) : x[i].kind \in {"langidx", "id", "timestamp"}
    BY DEF IndexRight
  <2>4. \A i \in Len(x) + 1 .. Len(y) : y[i].kind \in {"langidx", "id"}
    BY DEF Titled
  <2> QED BY <1>2, <2>2, <2>3, <2>4
<1>5. \A k \in StampsOf(y) : \E i \in 1 .. k : y[i].kind = "id"
  <2> TAKE k \in StampsOf(y)
  <2>1. k \in 1 .. Len(x) /\ k \in Nat /\ Len(x) \in Nat
    BY <1>1, IndexFacts
  <2>2. PICK i \in 1 .. k : x[i].kind = "id"
    BY <1>1, IndexFacts
  <2>3. i \in 1 .. Len(x)
    BY <2>1
  <2> QED BY <1>2, <2>2, <2>3
<1>6. \A k \in StampsOf(y) : Points(y, w, k)
  <2>1. \A k \in StampsOf(x) : Points(x, w, k)
    BY DEF IndexRight
  <2> QED BY <1>1, <1>3, <2>1 DEF Points
<1>7. \A k, m \in StampsOf(y) : k < m => y[k].filepos < y[m].filepos
  BY <1>1, <1>3 DEF IndexRight
<1>8. \A d \in 1 .. Len(w) : \E k \in StampsOf(y) :
         LangOf(y, k) = w[d].stream /\ y[k].filepos <= BlockAt(d)
  BY <1>1, <1>3 DEF IndexRight
<1>9. IsSeq(y)
  BY DEF Titled
<1>10. TimesRise(x) => TimesRise(y)
  BY <1>1, <1>3 DEF TimesRise
<1> QED BY <1>4, <1>5, <1>6, <1>7, <1>8, <1>9, <1>10 DEF IndexRight

LEMMA IndexSame ==
    ASSUME NEW x, NEW w, IndexRight(x, w), IsSeq(w), NEW b,
           \E k \in StampsOf(x) : LangOf(x, k) = b.stream
    PROVE  IndexRight(x, Append(w, b))
<1> DEFINE v == Append(w, b)
<1>1. /\ Len(v) = Len(w) + 1 /\ Len(w) \in Nat /\ v[Len(w) + 1] = b
      /\ \A i \in 1 .. Len(w) : v[i] = w[i]
  BY Appended
<1> HIDE DEF v
<1>2. \A k \in StampsOf(x) : Points(x, v, k)
  <2> TAKE k \in StampsOf(x)
  <2>1. PICK d \in 1 .. Len(w) :
          x[k].filepos = BlockAt(d) /\ w[d].stream = LangOf(x, k) /\ Millis(w[d].pts) = x[k].ms
    BY DEF IndexRight, Points
  <2>2. d \in 1 .. Len(v) /\ v[d] = w[d]
    BY <1>1
  <2> QED BY <2>1, <2>2 DEF Points
<1>3. \A d \in 1 .. Len(v) : \E k \in StampsOf(x) :
         LangOf(x, k) = v[d].stream /\ x[k].filepos <= BlockAt(d)
  <2> TAKE d \in 1 .. Len(v)
  <2>1. CASE d \in 1 .. Len(w)
    BY <1>1, <2>1 DEF IndexRight
  <2>2. CASE d = Len(w) + 1
    <3>1. PICK k \in StampsOf(x) : LangOf(x, k) = b.stream
      OBVIOUS
    <3>2. PICK n \in 1 .. Len(w) : x[k].filepos = BlockAt(n)
      BY DEF IndexRight, Points
    <3>3. BlockAt(n) <= BlockAt(d)
      BY <1>1, <2>2, BlocksRise
    <3> QED BY <1>1, <2>2, <3>1, <3>2, <3>3
  <2> QED BY <1>1, <2>1, <2>2
<1> QED BY <1>2, <1>3 DEF IndexRight, v

\* The line that is written with block b
LineFor(line, w, b) ==
    /\ line.kind = "timestamp" /\ line.ms = Millis(b.pts)
    /\ line.filepos = BlockAt(Len(w) + 1)

\* y is x and this line, in the language of block b.
Lined(x, y, line, b) ==
    /\ StampsOf(y) = StampsOf(x) \cup {Len(x) + 1}
    /\ LangOf(y, Len(x) + 1) = b.stream /\ y[Len(x) + 1] = line
    /\ \A k \in StampsOf(x) : LangOf(y, k) = LangOf(x, k) /\ y[k] = x[k]

LEMMA IndexGrown ==
    ASSUME NEW x, NEW w, IndexRight(x, w), IsSeq(w), NEW b, NEW i, IsLastId(x, Len(x), i),
           x[i].index = b.stream, NEW line, LineFor(line, w, b)
    PROVE  /\ IndexRight(Append(x, line), Append(w, b))
           /\ Lined(x, Append(x, line), line, b)
           /\ IsLastId(Append(x, line), Len(Append(x, line)), i) /\ Append(x, line)[i] = x[i]
<1> DEFINE v == Append(w, b)
           y == Append(x, line)
           l == Len(x) + 1
<1>0. /\ line.kind = "timestamp" /\ line.ms = Millis(b.pts)
      /\ line.filepos = BlockAt(Len(w) + 1)
  BY DEF LineFor
<1>1. /\ Len(v) = Len(w) + 1 /\ Len(w) \in Nat /\ v[Len(w) + 1] = b
      /\ \A n \in 1 .. Len(w) : v[n] = w[n]
  BY Appended
<1>2. /\ IsSeq(y) /\ Len(y) = l /\ Len(x) \in Nat /\ y[l] = line
      /\ \A n \in 1 .. Len(x) : y[n] = x[n]
  BY Appended DEF IndexRight
<1>3. DOMAIN x = 1 .. Len(x) /\ DOMAIN y = 1 .. l
  BY <1>0, <1>2, SeqDomain DEF IndexRight
<1> HIDE DEF v, y
<1>4. StampsOf(y) = StampsOf(x) \cup {l}
  <2>1. \A k \in 1 .. l : k \in 1 .. Len(x) \/ k = l
    BY <1>0, <1>2
  <2>2. \A k \in 1 .. Len(x) : k \in 1 .. l
    BY <1>0, <1>2
  <2>3. l \in 1 .. l
    BY <1>0, <1>2
  <2> QED BY <1>0, <1>2, <1>3, <2>1, <2>2, <2>3 DEF StampsOf
<1>5. \A k \in StampsOf(x) : LangOf(y, k) = LangOf(x, k) /\ y[k] = x[k]
  BY <1>0, <1>2, LangsKept
<1>6. i \in 1 .. Len(x) /\ x[i].kind = "id" /\ \A m \in i + 1 .. Len(x) : x[m].kind # "id"
  BY DEF IsLastId
<1>7. IsLastId(y, l, i) /\ y[i] = x[i]
  <2>1. \A m \in i + 1 .. l : (m \in i + 1 .. Len(x) /\ m \in 1 .. Len(x)) \/ m = l
    BY <1>0, <1>2, <1>6
  <2>2. y[l].kind # "id"
    BY <1>0, <1>2
  <2>3. i \in 1 .. l
    BY <1>0, <1>2, <1>6
  <2> QED BY <1>0, <1>2, <1>6, <2>1, <2>2, <2>3 DEF IsLastId
<1>8. LangOf(y, l) = b.stream
  <2>1. l \in Nat
    BY <1>0, <1>2
  <2> QED BY <1>7, <2>1, LangIs
<1>9. Points(y, v, l)
  <2>1. Len(w) + 1 \in 1 .. Len(v) /\ v[Len(w) + 1] = b
    BY <1>1
  <2> QED BY <1>0, <1>2, <1>8, <2>1 DEF Points
<1>10. ASSUME NEW k \in StampsOf(x)
       PROVE  Points(y, v, k) /\ y[k].filepos < y[l].filepos
  <2>1. PICK d \in 1 .. Len(w) :
          x[k].filepos = BlockAt(d) /\ w[d].stream = LangOf(x, k) /\ Millis(w[d].pts) = x[k].ms
    BY <1>10 DEF IndexRight, Points
  <2>2. d \in 1 .. Len(v) /\ v[d] = w[d]
    BY <1>1
  <2>3. BlockAt(d) < BlockAt(Len(w) + 1)
    BY <1>1, BlocksRise
  <2> QED BY <1>0, <1>2, <1>5, <1>10, <2>1, <2>2, <2>3 DEF Points
<1>11. \A k \in StampsOf(x) : k \in 1 .. Len(x)
  BY <1>3 DEF StampsOf
<1>12. \A k, m \in StampsOf(y) : k < m => y[k].filepos < y[m].filepos
  <2> SUFFICES ASSUME NEW k \in StampsOf(y), NEW m \in StampsOf(y), k < m
               PROVE  y[k].filepos < y[m].filepos
    OBVIOUS
  <2>1. k \in StampsOf(x)
    BY <1>0, <1>2, <1>4, <1>11
  <2>2. CASE m = l
    BY <1>10, <2>1, <2>2
  <2>3. CASE m \in StampsOf(x)
    BY <1>5, <2>1, <2>3 DEF IndexRight
  <2> QED BY <1>4, <2>2, <2>3
<1>13. \A d \in 1 .. Len(v) : \E k \in StampsOf(y) :
         LangOf(y, k) = v[d].stream /\ y[k].filepos <= BlockAt(d)
  <2> TAKE d \in 1 .. Len(v)
  <2>1. CASE d \in 1 .. Len(w)
    <3>1. PICK k \in StampsOf(x) : LangOf(x, k) = w[d].stream /\ x[k].filepos <= BlockAt(d)
      BY <2>1 DEF IndexRight
    <3> QED BY <1>1, <1>4, <1>5, <2>1, <3>1
  <2>2. CASE d = Len(w) + 1
    <3>1. BlockAt(d) <= BlockAt(d)
      BY <1>1, <2>2, BlocksRise
    <3> QED BY <1>0, <1>1, <1>2, <1>4, <1>8, <2>2, <3>1
  <2> QED BY <1>1, <2>1, <2>2
<1>14. \A k \in StampsOf(y) : \E n \in 1 .. k : y[n].kind = "id"
  <2> TAKE k \in StampsOf(y)
  <2>1. CASE k = l
    BY <1>0, <1>2, <1>6, <1>7, <2>1 DEF IsLastId
  <2>2. CASE k \in StampsOf(x)
    <3>1. PICK n \in 1 .. k : x[n].kind = "id"
      BY <2>2 DEF IndexRight
    <3>2. n \in 1 .. Len(x)
      BY <1>0, <1>2, <1>11, <2>2
    <3> QED BY <1>0, <1>2, <3>1, <3>2
  <2> QED BY <1>4, <2>1, <2>2
<1>15. \A k \in 1 .. Len(y) : y[k].kind \in {"langidx", "id", "timestamp"}
  <2> TAKE k \in 1 .. Len(y)
  <2>1. k \in 1 .. Len(x) \/ k = l
    BY <1>0, <1>2
  <2>2. \A n \in 1 .. Len(x) : x[n].kind \in {"langidx", "id", "timestamp"}
    BY DEF IndexRight
  <2> QED BY <1>0, <1>2, <2>1, <2>2
<1>16. \A k \in StampsOf(y) : Points(y, v, k)
  BY <1>4, <1>9, <1>10
<1>17. IndexRight(y, v)
  BY <1>0, <1>2, <1>12, <1>13, <1>14, <1>15, <1>16 DEF IndexRight
<1>18. Lined(x, y, line, b)
  BY <1>0, <1>2, <1>4, <1>5, <1>8 DEF Lined
<1> QED BY <1>0, <1>2, <1>7, <1>17, <1>18 DEF v, y

-------------------------------------------------------------------------------
(***************************************************************************)
(* The .sub file s with the blocks w                                       *)
(***************************************************************************)
PacketsOf(s) == {e \in DOMAIN s : s[e].kind = "packet"}

\* A packet without a time stamp has the time of the packet in front of it.
Dated(p, w) ==
    w[p.data].stamped =>
      \/ p.pts = w[p.data].pts
      \/ p.pts = Unset /\ p.data > 1 /\ w[p.data - 1].pts = w[p.data].pts

InItsBlock(s, w, e) ==
    /\ s[e].data \in 1 .. Len(w) /\ s[e].aid = w[s[e].data].stream
    /\ Through(s, e - 1) = BlockAt(s[e].data) + 14
    /\ Dated(s[e], w)

FileRight(s, w) ==
    /\ Sized(s) /\ IsSeq(w) /\ SizeOf(s) = BlockAt(Len(w) + 1)
    /\ \A e \in PacketsOf(s) : InItsBlock(s, w, e)
    /\ \A e, f \in PacketsOf(s) : e < f => s[e].data < s[f].data
    /\ \A d \in 1 .. Len(w) : \E e \in PacketsOf(s) : s[e].data = d

LEMMA FileEmpty == FileRight(<<>>, <<>>)
<1>1. IsSeq(<<>>) /\ Len(<<>>) = 0
  BY Nothing
<1>2. Sized(<<>>)
  BY <1>1 DEF Sized
<1>3. SizeOf(<<>>) = 0 /\ BlockAt(0 + 1) = 0
  BY <1>1, <1>2, ThroughIs DEF SizeOf, BlockAt, Block
<1>4. PacketsOf(<<>>) = {}
  BY DEF PacketsOf
<1> QED BY <1>1, <1>2, <1>3, <1>4 DEF FileRight

LEMMA FileGrown ==
    ASSUME NEW s, NEW w, FileRight(s, w), NEW b, NEW len, NEW time \in Nat, b.pts = time,
           NEW c, BlockRight(c, b.stream, Len(w) + 1, len, time),
           b.stamped => StampLength(len, time) > 0 \/ (Len(w) > 0 /\ w[Len(w)].pts = time)
    PROVE  FileRight(s \o c, Append(w, b))
<1> DEFINE v == Append(w, b)
           y == s \o c
<1>1. /\ IsSeq(v) /\ Len(v) = Len(w) + 1 /\ Len(w) \in Nat /\ v[Len(w) + 1] = b
      /\ \A n \in 1 .. Len(w) : v[n] = w[n]
  BY Appended DEF FileRight
<1>2. PICK l \in Nat, m \in {2, 3} : l = Len(s) /\ m = Len(c)
  <2>1. Len(s) \in Nat /\ Len(c) \in {2, 3}
    BY SeqDomain DEF FileRight, Sized, BlockRight
  <2> QED BY <2>1
<1>3. /\ IsSeq(y) /\ Len(y) = l + m
      /\ \A i \in 1 .. l + m : y[i] = IF i <= l THEN s[i] ELSE c[i - l]
  BY <1>2, Joined DEF FileRight, BlockRight, Sized
<1> HIDE DEF v, y
<1>4. \A i \in 1 .. l : y[i] = s[i]
  BY <1>2, <1>3
<1>5. y[l + 1] = c[1] /\ y[l + 2] = c[2] /\ (m = 3 => y[l + 3] = c[3])
  <2>1. l + 1 \in 1 .. l + m /\ l + 2 \in 1 .. l + m /\ (m = 3 => l + 3 \in 1 .. l + m)
    BY <1>2
  <2>2. ~(l + 1 <= l) /\ ~(l + 2 <= l) /\ ~(l + 3 <= l)
        /\ (l + 1) - l = 1 /\ (l + 2) - l = 2 /\ (l + 3) - l = 3
    BY <1>2
  <2> QED BY <1>3, <2>1, <2>2
<1>6. \A i \in 1 .. l + m : i \in 1 .. l \/ i = l + 1 \/ i = l + 2 \/ (m = 3 /\ i = l + 3)
  <2>1. CASE m = 2
    BY <2>1
  <2>2. CASE m = 3
    BY <2>2
  <2> QED BY <2>1, <2>2
<1>7. /\ Sized(c) /\ c[1].kind = "pack" /\ c[1].size = 14
      /\ c[2].kind = "packet" /\ c[2].aid = b.stream /\ c[2].data = Len(w) + 1
      /\ c[2].pts = (IF StampLength(len, time) > 0 THEN time ELSE Unset)
      /\ m = 3 => c[3].kind # "packet"
      /\ 14 + c[2].size + (IF m = 3 THEN c[3].size ELSE 0) = Block
  BY <1>2 DEF BlockRight
<1>8. Sized(y)
  <2>1. ASSUME NEW i \in 1 .. l + m PROVE y[i].size \in Nat
    <3>1. \A k \in 1 .. l : s[k].size \in Nat
      BY <1>2 DEF FileRight, Sized
    <3>2. \A k \in 1 .. m : c[k].size \in Nat
      BY <1>2, <1>7 DEF Sized
    <3>3. 1 \in 1 .. m /\ 2 \in 1 .. m /\ (m = 3 => 3 \in 1 .. m)
      BY <1>2
    <3> QED BY <1>4, <1>5, <1>6, <3>1, <3>2, <3>3
  <2> QED BY <1>3, <2>1 DEF Sized
<1>9. \A k \in 0 .. l : Through(y, k) = Through(s, k)
  <2>1. Sized(s)
    BY DEF FileRight
  <2>2. Len(s) <= Len(y) /\ \A i \in 1 .. Len(s) : y[i].size = s[i].size
    BY <1>2, <1>3, <1>4
  <2> QED BY <1>2, <1>8, <2>1, <2>2, ThroughGrown
<1>10. Through(y, l) = BlockAt(Len(w) + 1) /\ BlockAt(Len(w) + 1) \in Nat
       /\ BlockAt(Len(v) + 1) = BlockAt(Len(w) + 1) + Block
  <2>1. l \in 0 .. l
    BY <1>2
  <2>2. Through(s, l) = BlockAt(Len(w) + 1)
    BY <1>2 DEF FileRight, SizeOf
  <2>3. Len(w) + 1 \in Nat /\ Len(w) + 1 # 0
    BY <1>1
  <2> QED BY <1>1, <1>9, <2>1, <2>2, <2>3, BlockAtIs
<1>11. Through(y, l + 1) = BlockAt(Len(w) + 1) + 14
       /\ SizeOf(y) = BlockAt(Len(v) + 1)
  <2>1. \A k \in 1 .. l + m : Through(y, k) = Through(y, k - 1) + y[k].size
    BY <1>3, <1>8, ThroughIs
  <2>2. \A k \in 1 .. l + m : y[k].size \in Nat
    BY <1>3, <1>8 DEF Sized
  <2>3. l + 1 \in 1 .. l + m /\ (l + 1) - 1 = l /\ l + 2 \in 1 .. l + m /\ (l + 2) - 1 = l + 1
        /\ (m = 3 => l + 3 \in 1 .. l + m /\ (l + 3) - 1 = l + 2)
    BY <1>2
  <2>4. Through(y, l + 1) = BlockAt(Len(w) + 1) + 14
    BY <1>5, <1>7, <1>10, <2>1, <2>3
  <2>5. Through(y, l + 2) = (BlockAt(Len(w) + 1) + 14) + c[2].size /\ c[2].size \in Nat
    BY <1>5, <2>1, <2>2, <2>3, <2>4
  <2>6. CASE m = 2
    <3>1. 14 + c[2].size = Block
      BY <1>7, <2>5, <2>6
    <3>2. Through(y, l + 2) = BlockAt(Len(w) + 1) + Block
      BY <1>10, <2>5, <3>1 DEF Block
    <3> QED BY <1>3, <1>10, <2>4, <2>6, <3>2 DEF SizeOf
  <2>7. CASE m = 3
    <3>1. Through(y, l + 3) = Through(y, l + 2) + c[3].size /\ c[3].size \in Nat
      BY <1>5, <2>1, <2>2, <2>3, <2>7
    <3>2. 14 + c[2].size + c[3].size = Block
      BY <1>7, <2>7
    <3>3. Through(y, l + 3) = BlockAt(Len(w) + 1) + Block
      <4>1. PICK p \in Nat, z \in Nat, n \in Nat :
              p = BlockAt(Len(w) + 1) /\ z = c[2].size /\ n = c[3].size
        BY <1>10, <2>5, <3>1
      <4>2. Through(y, l + 3) = ((p + 14) + z) + n /\ (14 + z) + n = Block
        BY <2>5, <3>1, <3>2, <4>1
      <4>3. ((p + 14) + z) + n = p + ((14 + z) + n)
        OBVIOUS
      <4> QED BY <4>1, <4>2, <4>3
    <3> QED BY <1>3, <1>10, <2>4, <2>7, <3>3 DEF SizeOf
  <2> QED BY <1>2, <2>6, <2>7
<1>12. DOMAIN s = 1 .. l /\ DOMAIN y = 1 .. l + m
  BY <1>2, <1>3, SeqDomain DEF FileRight, Sized
<1>13. PacketsOf(y) = PacketsOf(s) \cup {l + 2}
  <2>1. \A e \in 1 .. l : e \in 1 .. l + m
    BY <1>2
  <2>2. l + 2 \in 1 .. l + m
    BY <1>2
  <2>3. l + 2 \in PacketsOf(y)
    BY <1>5, <1>7, <1>12, <2>2 DEF PacketsOf
  <2>4. ASSUME NEW e \in PacketsOf(s) PROVE e \in PacketsOf(y)
    BY <1>4, <1>12, <2>1 DEF PacketsOf
  <2>5. ASSUME NEW e \in PacketsOf(y), e # l + 2 PROVE e \in PacketsOf(s)
    <3>1. e \in 1 .. l + m /\ y[e].kind = "packet"
      BY <1>12 DEF PacketsOf
    <3>2. e # l + 1 /\ ~(m = 3 /\ e = l + 3)
      BY <1>5, <1>7, <3>1
    <3>3. e \in 1 .. l
      BY <1>6, <2>5, <3>1, <3>2
    <3> QED BY <1>4, <1>12, <3>1, <3>3 DEF PacketsOf
  <2> QED BY <2>3, <2>4, <2>5
<1>14. InItsBlock(y, v, l + 2)
  <2>1. /\ y[l + 2].data = Len(w) + 1 /\ v[Len(w) + 1] = b /\ Len(w) + 1 \in 1 .. Len(v)
        /\ y[l + 2].aid = b.stream /\ (l + 2) - 1 = l + 1
    BY <1>1, <1>2, <1>5, <1>7
  <2>2. Dated(y[l + 2], v)
    <3>1. CASE StampLength(len, time) > 0
      BY <1>5, <1>7, <2>1, <3>1 DEF Dated
    <3>2. CASE ~(StampLength(len, time) > 0)
      <4>1. y[l + 2].pts = Unset
        BY <1>5, <1>7, <3>2
      <4>2. SUFFICES ASSUME b.stamped PROVE Len(w) + 1 > 1 /\ v[(Len(w) + 1) - 1].pts = b.pts
        BY <2>1, <4>1 DEF Dated
      <4>3. Len(w) > 0 /\ w[Len(w)].pts = time
        BY <3>2, <4>2
      <4>4. (Len(w) + 1) - 1 = Len(w) /\ Len(w) \in 1 .. Len(w) /\ Len(w) + 1 > 1
        BY <1>1, <4>3
      <4> QED BY <1>1, <4>3, <4>4
    <3> QED BY <3>1, <3>2
  <2> QED BY <1>11, <2>1, <2>2 DEF InItsBlock
<1>15. ASSUME NEW e \in PacketsOf(s)
       PROVE  InItsBlock(y, v, e) /\ y[e] = s[e] /\ s[e].data < Len(w) + 1 /\ e \in 1 .. l
  <2>1. e \in 1 .. l /\ y[e] = s[e] /\ e - 1 \in 0 .. l
    BY <1>2, <1>4, <1>12 DEF PacketsOf
  <2>2. InItsBlock(s, w, e)
    BY DEF FileRight
  <2>3. s[e].data \in 1 .. Len(w) /\ s[e].data \in 1 .. Len(v) /\ v[s[e].data] = w[s[e].data]
        /\ s[e].data < Len(w) + 1
    BY <1>1, <2>2 DEF InItsBlock
  <2>4. Dated(s[e], v)
    <3>1. s[e].data > 1 => s[e].data - 1 \in 1 .. Len(w)
      BY <1>1, <2>3
    <3>2. s[e].data > 1 => v[s[e].data - 1] = w[s[e].data - 1]
      BY <1>1, <3>1
    <3> QED BY <2>2, <2>3, <3>2 DEF InItsBlock, Dated
  <2>5. Through(y, e - 1) = Through(s, e - 1)
    BY <1>9, <2>1
  <2> QED BY <2>1, <2>2, <2>3, <2>4, <2>5 DEF InItsBlock
<1>16. \A e \in PacketsOf(y) : InItsBlock(y, v, e)
  BY <1>13, <1>14, <1>15
<1>17. \A e, f \in PacketsOf(y) : e < f => y[e].data < y[f].data
  <2> SUFFICES ASSUME NEW e \in PacketsOf(y), NEW f \in PacketsOf(y), e < f
               PROVE  y[e].data < y[f].data
    OBVIOUS
  <2>1. \A g \in PacketsOf(s) : g \in 1 .. l
    BY <1>15
  <2>2. e \in PacketsOf(s)
    BY <1>2, <1>13, <2>1
  <2>3. CASE f = l + 2
    BY <1>5, <1>7, <1>15, <2>2, <2>3
  <2>4. CASE f \in PacketsOf(s)
    <3>1. s[e].data < s[f].data
      BY <2>2, <2>4 DEF FileRight
    <3> QED BY <1>15, <2>2, <2>4, <3>1
  <2> QED BY <1>13, <2>3, <2>4
<1>18. \A d \in 1 .. Len(v) : \E e \in PacketsOf(y) : y[e].data = d
  <2> TAKE d \in 1 .. Len(v)
  <2>1. CASE d = Len(w) + 1
    BY <1>5, <1>7, <1>13, <2>1
  <2>2. CASE d \in 1 .. Len(w)
    <3>1. PICK e \in PacketsOf(s) : s[e].data = d
      BY <2>2 DEF FileRight
    <3> QED BY <1>13, <1>15, <3>1
  <2> QED BY <1>1, <2>1, <2>2
<1> QED BY <1>1, <1>8, <1>11, <1>16, <1>17, <1>18 DEF FileRight, v, y

-------------------------------------------------------------------------------
(***************************************************************************)
(* The writer                                                              *)
(***************************************************************************)
WrittenRight(w) == \A d \in 1 .. Len(w) : w[d].pts \in Nat /\ w[d].stream \in Streams

\* What holds of index x, blocks w and statics st while language index is written
Writing(index, x, w, st) ==
    /\ \E i : IsLastId(x, Len(x), i) /\ x[i].index = index
    /\ st.last_pts \in Nat \cup {Unset}
    /\ st.last_pts = Unset => st.last_ms = Unset /\ st.last_code = Unset
    /\ st.last_pts # Unset =>
         /\ st.last_ms = Millis(st.last_pts) /\ st.last_code = st.last_pts
         /\ Len(w) > 0 /\ w[Len(w)].pts = st.last_pts
         /\ \E k \in StampsOf(x) : LangOf(x, k) = index

WriterInv ==
    /\ jobs \in Jobs /\ job \in Nat \ {0} /\ job <= Len(jobs) + 1 /\ next \in Nat
    /\ next > 0 => job <= Len(jobs)
    /\ reader.phase # "closed" => job > Len(jobs)
    /\ WrittenRight(written)
    /\ FileRight(sub, written)
    /\ IndexRight(idx, written)
    /\ next > 0 => Writing(jobs[job].index, idx, written, statics)

LEMMA JobIs ==
    ASSUME NEW js \in Jobs
    PROVE  /\ Len(js) \in Nat
           /\ \A k \in 1 .. Len(js) :
                /\ js[k].index \in Streams /\ js[k].append \in BOOLEAN /\ js[k].named \in BOOLEAN
                /\ js[k].first \in Nat /\ js[k].last \in Nat /\ js[k].start \in Nat
                /\ Len(js[k].input) \in Nat /\ DOMAIN js[k].input = 1 .. Len(js[k].input)
                /\ \A n \in 1 .. Len(js[k].input) :
                     js[k].input[n].len \in 1 .. Block - 24 /\ js[k].input[n].pts \in Nat
<1>1. Len(js) \in Nat /\ DOMAIN js = 1 .. Len(js) /\ \A k \in DOMAIN js : WellFormed(js[k])
  BY VobsubAssumption
<1>2. ASSUME NEW k \in 1 .. Len(js)
      PROVE  /\ js[k].index \in Streams /\ js[k].append \in BOOLEAN /\ js[k].named \in BOOLEAN
             /\ js[k].first \in Nat /\ js[k].last \in Nat /\ js[k].start \in Nat
             /\ Len(js[k].input) \in Nat /\ DOMAIN js[k].input = 1 .. Len(js[k].input)
             /\ \A n \in 1 .. Len(js[k].input) :
                  js[k].input[n].len \in 1 .. Block - 24 /\ js[k].input[n].pts \in Nat
  <2>1. WellFormed(js[k])
    BY <1>1
  <2>2. js[k].input \in Seq([len : 1 .. Block - 24, pts : Nat])
    BY <2>1 DEF WellFormed
  <2>3. /\ Len(js[k].input) \in Nat /\ DOMAIN js[k].input = 1 .. Len(js[k].input)
        /\ \A n \in 1 .. Len(js[k].input) : js[k].input[n] \in [len : 1 .. Block - 24, pts : Nat]
    BY <2>2, SeqIs
  <2> QED BY <2>1, <2>3 DEF WellFormed
<1> QED BY <1>1, <1>2

\* The index is opened: the old lines, if they are kept, and an id.
LEMMA OutIndexIs ==
    ASSUME NEW j, NEW old, IsSeq(old)
    PROVE  Titled(old, OutIndex(j, old), j.index)
<1> DEFINE x == IF old = <<>> THEN Header(j) ELSE old
           y == OutIndex(j, old)
<1>1. /\ IsSeq(Title(j)) /\ Len(Title(j)) = 1
      /\ Title(j)[1].kind = "id" /\ Title(j)[1].index = j.index
  <2>1. PICK e : e = [kind |-> "id", index |-> j.index, named |-> j.named]
    OBVIOUS
  <2>2. Title(j) = <<e>> /\ e.kind = "id" /\ e.index = j.index
    BY <2>1 DEF Title
  <2> QED BY <2>2, Single
<1>2. /\ IsSeq(Header(j)) /\ Len(Header(j)) = 1
      /\ Header(j)[1].kind = "langidx" /\ Header(j)[1].index = j.index
  <2>1. PICK e : e = [kind |-> "langidx", index |-> j.index]
    OBVIOUS
  <2>2. Header(j) = <<e>> /\ e.kind = "langidx" /\ e.index = j.index
    BY <2>1 DEF Header
  <2> QED BY <2>2, Single
<1>3. IsSeq(x)
  BY <1>2
<1>4. y = x \o Title(j)
  BY DEF OutIndex
<1>5. PICK l \in Nat : l = Len(x)
  BY <1>3, SeqDomain
<1> HIDE DEF x
<1>6. /\ IsSeq(y) /\ Len(y) = l + 1
      /\ \A i \in 1 .. l + 1 : y[i] = IF i <= l THEN x[i] ELSE Title(j)[i - l]
  <2> DEFINE u == Title(j)
  <2>1. IsSeq(u) /\ Len(u) = 1
    BY <1>1
  <2> HIDE DEF u
  <2>2. /\ IsSeq(x \o u) /\ Len(x \o u) = Len(x) + Len(u)
        /\ \A i \in 1 .. Len(x) + Len(u) : (x \o u)[i] = IF i <= Len(x) THEN x[i] ELSE u[i - Len(x)]
    BY <1>3, <2>1, Joined
  <2>3. y = x \o u
    BY <1>4 DEF u
  <2> QED BY <1>5, <2>1, <2>2, <2>3 DEF u
<1> HIDE DEF y
<1>7. (\A i \in 1 .. l : y[i] = x[i]) /\ y[l + 1] = Title(j)[1]
  <2>1. l + 1 \in 1 .. l + 1 /\ ~(l + 1 <= l) /\ (l + 1) - l = 1
    OBVIOUS
  <2>2. \A i \in 1 .. l : i \in 1 .. l + 1 /\ i <= l
    OBVIOUS
  <2> QED BY <1>6, <2>1, <2>2
<1>8. CASE old = <<>>
  <2>1. Len(old) = 0 /\ l = 1 /\ x = Header(j)
    BY <1>2, <1>5, <1>8, Nothing DEF x
  <2>2. y[1] = Header(j)[1] /\ y[2] = Title(j)[1] /\ Len(y) = 2
    BY <1>6, <1>7, <2>1
  <2>3. \A i \in 0 + 1 .. 2 : i = 1 \/ i = 2
    OBVIOUS
  <2>4. \A i \in 0 + 1 .. 2 : y[i].kind \in {"langidx", "id"} /\ y[i].index = j.index
    BY <1>1, <1>2, <2>2, <2>3
  <2> QED BY <1>1, <1>6, <2>1, <2>2, <2>4 DEF Titled, y
<1>9. CASE old # <<>>
  <2>1. Len(old) = l /\ x = old
    BY <1>5, <1>9 DEF x
  <2>2. \A i \in l + 1 .. l + 1 : i = l + 1
    OBVIOUS
  <2>3. \A i \in l + 1 .. l + 1 : y[i].kind \in {"langidx", "id"} /\ y[i].index = j.index
    BY <1>1, <1>7, <2>2
  <2> QED BY <1>1, <1>6, <1>7, <2>1, <2>3 DEF Titled, y
<1> QED BY <1>8, <1>9

LEMMA IndexEmpty == IndexRight(<<>>, <<>>) /\ TimesRise(<<>>)
<1>1. IsSeq(<<>>) /\ Len(<<>>) = 0
  BY Nothing
<1>2. StampsOf(<<>>) = {}
  BY DEF StampsOf
<1> QED BY <1>1, <1>2 DEF IndexRight, TimesRise

LEMMA OutputIs ==
    ASSUME WriterInv, next > 0, NEW f, f.len \in 1 .. Block - 24, NEW time \in Nat,
           Output(jobs[job], f, time)
    PROVE  /\ WrittenRight(written') /\ FileRight(sub', written') /\ IndexRight(idx', written')
           /\ Writing(jobs[job].index, idx', written', statics')
<1> DEFINE j == jobs[job]
           b == [stream |-> j.index, pts |-> time, stamped |-> StampLength(f.len, time) = PtsLength(time)]
           line == [kind |-> "timestamp", ms |-> Millis(time), filepos |-> SizeOf(sub)]
           c == BlockOf(j.index, Len(written) + 1, f.len, time)
<1>1. /\ jobs \in Jobs /\ job \in 1 .. Len(jobs) /\ WrittenRight(written)
      /\ FileRight(sub, written) /\ IndexRight(idx, written)
      /\ Writing(j.index, idx, written, statics)
  <2>1. jobs \in Jobs /\ job \in Nat \ {0} /\ job <= Len(jobs)
    BY DEF WriterInv
  <2>2. Len(jobs) \in Nat
    BY <2>1, JobIs
  <2> QED BY <2>1, <2>2 DEF WriterInv
<1>2. j.index \in Streams
  BY <1>1, JobIs
<1>3. /\ sub' = sub \o c
      /\ written' = Append(written, b)
      /\ idx' = (IF NewLine(time) THEN Append(idx, line) ELSE idx)
      /\ statics' = [last_pts |-> time, last_code |-> time,
                     last_ms |-> IF NewLine(time) THEN Millis(time) ELSE statics.last_ms]
  BY DEF Output
<1>4. /\ statics'.last_pts = time /\ statics'.last_code = time
      /\ statics'.last_ms = (IF NewLine(time) THEN Millis(time) ELSE statics.last_ms)
  BY <1>3
<1>5. b.stream = j.index /\ b.pts = time /\ (b.stamped <=> StampLength(f.len, time) = PtsLength(time))
  OBVIOUS
<1>6. line.kind = "timestamp" /\ line.ms = Millis(time) /\ line.filepos = BlockAt(Len(written) + 1)
  BY <1>1 DEF FileRight
<1>7. BlockRight(c, j.index, Len(written) + 1, f.len, time)
  BY BlockIs
<1> HIDE DEF b, line, c
<1>8. /\ IsSeq(written') /\ Len(written') = Len(written) + 1 /\ Len(written) \in Nat
      /\ written'[Len(written) + 1] = b
      /\ \A n \in 1 .. Len(written) : written'[n] = written[n]
  BY <1>1, <1>3, Appended DEF FileRight
<1>9. WrittenRight(written')
  <2> SUFFICES ASSUME NEW d \in 1 .. Len(written) + 1
               PROVE  written'[d].pts \in Nat /\ written'[d].stream \in Streams
    BY <1>8 DEF WrittenRight
  <2>1. d \in 1 .. Len(written) \/ d = Len(written) + 1
    BY <1>8
  <2> QED BY <1>1, <1>2, <1>5, <1>8, <2>1 DEF WrittenRight
<1>10. time # Unset
  BY DEF Unset
<1>11. b.stamped => StampLength(f.len, time) > 0
                    \/ (Len(written) > 0 /\ written[Len(written)].pts = time)
  <2> SUFFICES ASSUME b.stamped, ~(StampLength(f.len, time) > 0)
               PROVE  Len(written) > 0 /\ written[Len(written)].pts = time
    OBVIOUS
  <2>1. PtsLength(time) \in {0, 5} /\ StampLength(f.len, time) = PtsLength(time)
    BY <1>5 DEF PtsLength
  <2>2. statics.last_code = time
    BY <2>1 DEF PtsLength
  <2> QED BY <1>1, <1>10, <2>2 DEF Writing
<1>12. FileRight(sub', written')
  BY <1>1, <1>3, <1>5, <1>7, <1>11, FileGrown
<1>13. PICK i : IsLastId(idx, Len(idx), i) /\ idx[i].index = j.index
  BY <1>1 DEF Writing
<1>14. CASE NewLine(time)
  <2>1. idx' = Append(idx, line)
    BY <1>3, <1>14
  <2>2. /\ IndexRight(idx', written') /\ Lined(idx, idx', line, b)
        /\ IsLastId(idx', Len(idx'), i) /\ idx'[i] = idx[i]
    <3>1. idx[i].index = b.stream /\ LineFor(line, written, b) /\ IsSeq(written)
      BY <1>1, <1>5, <1>6, <1>13 DEF FileRight, LineFor
    <3>2. IndexRight(idx, written) /\ IsLastId(idx, Len(idx), i)
      BY <1>1, <1>13
    <3>3. IndexRight(Append(idx, line), Append(written, b))
      BY <3>1, <3>2, IndexGrown
    <3>4. Lined(idx, Append(idx, line), line, b)
      BY <3>1, <3>2, IndexGrown
    <3>5. IsLastId(Append(idx, line), Len(Append(idx, line)), i)
      BY <3>1, <3>2, IndexGrown
    <3>6. Append(idx, line)[i] = idx[i]
      <4>1. i \in 1 .. Len(idx) /\ IsSeq(idx)
        BY <3>2 DEF IsLastId, IndexRight
      <4> QED BY <4>1, Appended
    <3> QED BY <1>3, <2>1, <3>3, <3>4, <3>5, <3>6
  <2>3. IsLastId(idx', Len(idx'), i) /\ idx'[i].index = j.index
    BY <1>13, <2>1, <2>2
  <2>4. \E k \in StampsOf(idx') : LangOf(idx', k) = j.index
    BY <1>5, <2>1, <2>2 DEF Lined
  <2>5. Writing(j.index, idx', written', statics')
    BY <1>4, <1>5, <1>8, <1>10, <1>14, <2>3, <2>4 DEF Writing
  <2> QED BY <1>3, <1>9, <1>12, <2>1, <2>2, <2>5
<1>15. CASE ~NewLine(time)
  <2>1. idx' = idx
    BY <1>3, <1>15
  <2>2. statics.last_pts # Unset /\ statics.last_ms = Millis(time)
    <3>1. statics.last_pts = time \/ statics.last_ms = Millis(time)
      BY <1>15 DEF NewLine
    <3>2. Millis(time) \in Nat /\ Millis(time) # Unset
      BY PartIs DEF Unset
    <3> QED BY <1>1, <1>10, <3>1, <3>2 DEF Writing
  <2>3. \E k \in StampsOf(idx) : LangOf(idx, k) = j.index
    BY <1>1, <2>2 DEF Writing
  <2>4. IndexRight(idx, Append(written, b))
    BY <1>1, <1>5, <2>3, IndexSame DEF FileRight
  <2>5. Writing(j.index, idx', written', statics')
    BY <1>4, <1>5, <1>8, <1>10, <1>13, <1>15, <2>1, <2>2, <2>3 DEF Writing
  <2> QED BY <1>3, <1>9, <1>12, <2>1, <2>4, <2>5
<1> QED BY <1>14, <1>15

\* What one step of the loop of subtitle2vobsub does
LEMMA ConvertIs ==
    ASSUME WriterInv, Convert
    PROVE  LET j == jobs[job]
           IN  /\ next \in 1 .. Len(j.input) /\ next' = next + 1 /\ job \in 1 .. Len(jobs)
               /\ next \in Nat /\ next > 0
               /\ UNCHANGED <<jobs, job, reader>>
               /\ \/ UNCHANGED <<sub, idx, statics, written>>
                  \/ \E f, time : /\ f = j.input[next] /\ time = f.pts - j.first + j.start
                                  /\ f.len \in 1 .. Block - 24 /\ time \in Nat
                                  /\ Output(j, f, time)
<1> DEFINE j == jobs[job]
           f == j.input[next]
           time == f.pts - j.first + j.start
<1>1. /\ next \in 1 .. Len(j.input) /\ next' = next + 1 /\ job <= Len(jobs)
      /\ UNCHANGED <<jobs, job, reader>>
      /\ IF j.first <= f.pts /\ f.pts <= j.last THEN Output(j, f, time)
                                                ELSE UNCHANGED <<sub, idx, statics, written>>
  BY DEF Convert
<1>2. jobs \in Jobs /\ job \in 1 .. Len(jobs)
  <2>1. jobs \in Jobs /\ job \in Nat \ {0}
    BY DEF WriterInv
  <2> QED BY <1>1, <2>1, JobIs
<1>3. /\ j.first \in Nat /\ j.start \in Nat /\ Len(j.input) \in Nat
      /\ f.len \in 1 .. Block - 24 /\ f.pts \in Nat
  BY <1>1, <1>2, JobIs
<1>4. next \in Nat /\ next > 0
  BY <1>1, <1>3
<1>5. CASE j.first <= f.pts /\ f.pts <= j.last
  <2>1. time \in Nat
    BY <1>3, <1>5
  <2> QED BY <1>1, <1>2, <1>3, <1>4, <1>5, <2>1
<1>6. CASE ~(j.first <= f.pts /\ f.pts <= j.last)
  BY <1>1, <1>2, <1>4, <1>6
<1> QED BY <1>5, <1>6

\* What the reader leaves alone
LEMMA ReaderOnly ==
    ASSUME WriterInv, OpenIn \/ ParseLine \/ EndIndex \/ ReadElement \/ EndStream \/ GetNext
    PROVE  job > Len(jobs) /\ UNCHANGED <<jobs, job, next, sub, idx, statics, written>>
  BY DEF WriterInv, OpenIn, ParseLine, EndIndex, ReadElement, EndStream, GetNext

LEMMA WriterInit == VobsubInit => WriterInv
<1> SUFFICES ASSUME VobsubInit PROVE WriterInv
  OBVIOUS
<1>1. /\ jobs \in Jobs /\ job = 1 /\ next = 0 /\ sub = <<>> /\ idx = <<>> /\ written = <<>>
      /\ reader.phase = "closed"
  BY DEF VobsubInit, Closed
<1>2. Len(jobs) \in Nat
  BY <1>1, JobIs
<1>3. WrittenRight(written)
  BY <1>1, Nothing DEF WrittenRight
<1> QED BY <1>1, <1>2, <1>3, FileEmpty, IndexEmpty DEF WriterInv

LEMMA OpenOutIs ==
    ASSUME WriterInv, OpenOut
    PROVE  LET j == jobs[job]
           IN  /\ job \in 1 .. Len(jobs) /\ next = 0 /\ next' = 1 /\ UNCHANGED <<jobs, job, reader>>
               /\ statics' = Fresh
               /\ \E x : /\ Titled(x, idx', j.index) /\ IndexRight(x, written')
                         /\ FileRight(sub', written') /\ WrittenRight(written')
                         /\ (x = idx /\ j.append) \/ x = <<>>
<1> DEFINE j == jobs[job]
           x == Old(j, idx)
<1>1. /\ job <= Len(jobs) /\ next = 0 /\ next' = 1 /\ UNCHANGED <<jobs, job, reader>> /\ statics' = Fresh
      /\ sub' = Old(j, sub) /\ idx' = OutIndex(j, x) /\ written' = Old(j, written)
  BY DEF OpenOut
<1>2. jobs \in Jobs /\ job \in 1 .. Len(jobs)
  <2>1. jobs \in Jobs /\ job \in Nat \ {0}
    BY DEF WriterInv
  <2> QED BY <1>1, <2>1, JobIs
<1>3. /\ IndexRight(x, written') /\ FileRight(sub', written') /\ WrittenRight(written')
      /\ (x = idx /\ j.append) \/ x = <<>>
  <2>1. CASE j.append
    BY <1>1, <2>1 DEF WriterInv, Old
  <2>2. CASE ~j.append
    <3>1. x = <<>> /\ sub' = <<>> /\ written' = <<>>
      BY <1>1, <2>2 DEF Old
    <3> HIDE DEF x
    <3>2. WrittenRight(<<>>)
      BY Nothing DEF WrittenRight
    <3> QED BY <3>1, <3>2, FileEmpty, IndexEmpty
  <2> QED BY <2>1, <2>2
<1> HIDE DEF x
<1>4. Titled(x, idx', j.index)
  BY <1>1, <1>3, OutIndexIs DEF IndexRight
<1> QED BY <1>1, <1>2, <1>3, <1>4

LEMMA WriterStep == WriterInv /\ [VobsubNext]_vobsubvars => WriterInv'
<1> SUFFICES ASSUME WriterInv, [VobsubNext]_vobsubvars PROVE WriterInv'
  OBVIOUS
<1>1. jobs \in Jobs /\ job \in Nat \ {0} /\ job <= Len(jobs) + 1 /\ next \in Nat /\ Len(jobs) \in Nat
  BY JobIs DEF WriterInv
<1>2. CASE OpenOut
  <2> DEFINE j == jobs[job]
  <2>1. /\ job \in 1 .. Len(jobs) /\ next' = 1 /\ UNCHANGED <<jobs, job, reader>> /\ statics' = Fresh
    BY <1>2, OpenOutIs
  <2>2. PICK x : /\ Titled(x, idx', j.index) /\ IndexRight(x, written')
                 /\ FileRight(sub', written') /\ WrittenRight(written')
    BY <1>2, OpenOutIs
  <2>3. IndexRight(idx', written')
    BY <2>2, IndexKept
  <2>4. Writing(j.index, idx', written', statics')
    <3>1. Len(idx') \in Nat /\ Len(x) \in Nat /\ Len(x) < Len(idx') /\ idx'[Len(idx')].kind = "id"
      BY <2>2, SeqDomain DEF Titled
    <3>2. Len(idx') \in 1 .. Len(idx') /\ Len(idx') \in Len(x) + 1 .. Len(idx')
          /\ \A m \in Len(idx') + 1 .. Len(idx') : FALSE
      BY <3>1
    <3>3. IsLastId(idx', Len(idx'), Len(idx'))
      BY <3>1, <3>2 DEF IsLastId
    <3>4. idx'[Len(idx')].index = j.index
      BY <2>2, <3>2 DEF Titled
    <3> QED BY <2>1, <3>3, <3>4 DEF Writing, Fresh
  <2> QED BY <1>1, <2>1, <2>2, <2>3, <2>4 DEF WriterInv
<1>3. CASE Convert
  <2>1. /\ next' = next + 1 /\ job \in 1 .. Len(jobs) /\ next > 0 /\ UNCHANGED <<jobs, job, reader>>
        /\ \/ UNCHANGED <<sub, idx, statics, written>>
           \/ \E f, time : f.len \in 1 .. Block - 24 /\ time \in Nat /\ Output(jobs[job], f, time)
    BY <1>3, ConvertIs
  <2>2. CASE UNCHANGED <<sub, idx, statics, written>>
    BY <1>1, <2>1, <2>2 DEF WriterInv
  <2>3. CASE \E f, time : f.len \in 1 .. Block - 24 /\ time \in Nat /\ Output(jobs[job], f, time)
    <3>1. /\ WrittenRight(written') /\ FileRight(sub', written') /\ IndexRight(idx', written')
          /\ Writing(jobs[job].index, idx', written', statics')
      BY <2>1, <2>3, OutputIs
    <3> QED BY <1>1, <2>1, <3>1 DEF WriterInv
  <2> QED BY <2>1, <2>2, <2>3
<1>4. CASE CloseOut
  <2>1. /\ job <= Len(jobs) /\ job' = job + 1 /\ next' = 0
        /\ UNCHANGED <<jobs, sub, idx, statics, reader, written>>
    BY <1>4 DEF CloseOut
  <2> QED BY <1>1, <2>1 DEF WriterInv
<1>5. CASE OpenIn \/ ParseLine \/ EndIndex \/ ReadElement \/ EndStream \/ GetNext
  <2>1. job > Len(jobs) /\ UNCHANGED <<jobs, job, next, sub, idx, statics, written>>
    BY <1>5, ReaderOnly
  <2> QED BY <1>1, <2>1 DEF WriterInv
<1>6. CASE UNCHANGED vobsubvars
  BY <1>6 DEF WriterInv, vobsubvars
<1> QED BY <1>2, <1>3, <1>4, <1>5, <1>6 DEF VobsubNext

LEMMA WriterInvHolds == VobsubSpec => []WriterInv
<1>1. VobsubInit => WriterInv
  BY WriterInit
<1>2. WriterInv /\ [VobsubNext]_vobsubvars => WriterInv'
  BY WriterStep
<1> QED BY <1>1, <1>2, PTL DEF VobsubSpec

-------------------------------------------------------------------------------
(***************************************************************************)
(* The times of the index, of streams in order with a language each        *)
(***************************************************************************)
Opened == IF next = 0 THEN job - 1 ELSE job

\* The ids of x are those of the first n jobs, as far as their files are kept.
IdsFrom(x, n) ==
    \A i \in 1 .. Len(x) : x[i].kind = "id" =>
      \E m \in 1 .. n : x[i].index = jobs[m].index /\ \A o \in m + 1 .. n : jobs[o].append

TimesInv ==
    /\ TimesRise(idx)
    /\ IdsFrom(idx, Opened)
    /\ next > 0 => \A k \in StampsOf(idx) : LangOf(idx, k) = jobs[job].index =>
                     statics.last_pts # Unset /\ idx[k].ms <= statics.last_ms
    /\ next > 0 /\ statics.last_pts # Unset =>
         \E n \in 1 .. Len(jobs[job].input) :
           n < next /\ statics.last_pts = jobs[job].input[n].pts - jobs[job].first + jobs[job].start

LEMMA TimesInit == VobsubInit => TimesInv
<1> SUFFICES ASSUME VobsubInit PROVE TimesInv
  OBVIOUS
<1>1. next = 0 /\ idx = <<>>
  BY DEF VobsubInit
<1>2. IdsFrom(idx, Opened)
  BY <1>1, Nothing DEF IdsFrom
<1> QED BY <1>1, <1>2, IndexEmpty DEF TimesInv

LEMMA OpenOutTimes ==
    ASSUME OneEach, WriterInv, TimesInv, OpenOut
    PROVE  TimesInv'
<1> DEFINE j == jobs[job]
<1>1. /\ job \in 1 .. Len(jobs) /\ next = 0 /\ next' = 1 /\ UNCHANGED <<jobs, job, reader>>
      /\ statics' = Fresh
  BY OpenOutIs
<1>2. PICK x : /\ Titled(x, idx', j.index) /\ IndexRight(x, written')
               /\ (x = idx /\ j.append) \/ x = <<>>
  BY OpenOutIs
<1>3. jobs \in Jobs /\ Len(jobs) \in Nat
  BY JobIs DEF WriterInv
<1>4. Opened = job - 1 /\ Opened' = job
  BY <1>1 DEF Opened
<1>5. TimesRise(idx')
  BY <1>2, IndexEmpty, IndexKept DEF TimesInv
<1>6. /\ Len(x) \in Nat /\ Len(idx') \in Nat /\ \A i \in 1 .. Len(x) : idx'[i] = x[i]
      /\ \A i \in Len(x) + 1 .. Len(idx') : idx'[i].index = j.index
  BY <1>2, SeqDomain DEF Titled
\* An id that was there is that of another job, whose files have been kept.
<1>7. ASSUME NEW i \in 1 .. Len(x), x[i].kind = "id"
      PROVE  \E m \in 1 .. job - 1 : x[i].index = jobs[m].index /\ \A o \in m + 1 .. job : jobs[o].append
  <2>1. x = idx /\ j.append
    BY <1>2, <1>7, Nothing
  <2>2. PICK m \in 1 .. job - 1 : x[i].index = jobs[m].index /\ \A o \in m + 1 .. job - 1 : jobs[o].append
    BY <1>4, <1>7, <2>1 DEF TimesInv, IdsFrom
  <2>3. \A o \in m + 1 .. job : o \in m + 1 .. job - 1 \/ o = job
    BY <1>1, <1>3
  <2> QED BY <2>1, <2>2, <2>3
<1>8. IdsFrom(idx', job)
  <2> SUFFICES ASSUME NEW i \in 1 .. Len(idx'), idx'[i].kind = "id"
               PROVE  \E m \in 1 .. job : idx'[i].index = jobs[m].index /\ \A o \in m + 1 .. job : jobs[o].append
    BY DEF IdsFrom
  <2>1. CASE i \in 1 .. Len(x)
    <3>1. PICK m \in 1 .. job - 1 : x[i].index = jobs[m].index /\ \A o \in m + 1 .. job : jobs[o].append
      BY <1>6, <1>7, <2>1
    <3>2. m \in 1 .. job
      BY <1>1, <1>3
    <3> QED BY <1>6, <2>1, <3>1, <3>2
  <2>2. CASE i \notin 1 .. Len(x)
    <3>1. i \in Len(x) + 1 .. Len(idx')
      BY <1>6, <2>2
    <3>2. job \in 1 .. job /\ \A o \in job + 1 .. job : FALSE
      BY <1>1, <1>3
    <3> QED BY <1>6, <3>1, <3>2
  <2> QED BY <2>1, <2>2
<1>9. IdsFrom(idx, Opened)'
  BY <1>1, <1>4, <1>8 DEF IdsFrom
<1>10. ASSUME NEW k \in StampsOf(idx') PROVE LangOf(idx', k) # j.index
  <2>1. k \in StampsOf(x)
    BY <1>2, TitledStamps
  <2>2. LangOf(idx', k) = LangOf(x, k)
    BY <1>2, <1>6, <2>1, LangsKept
  <2>3. k \in 1 .. Len(x) /\ k \in Nat /\ \E i \in 1 .. k : x[i].kind = "id"
    BY <1>2, <2>1, IndexFacts
  <2>4. PICK i : IsLastId(x, k, i)
    BY <2>3, LastIdExists
  <2>5. LangOf(x, k) = x[i].index /\ i \in 1 .. Len(x) /\ x[i].kind = "id"
    <3>1. i \in 1 .. k /\ x[i].kind = "id"
      BY <2>4 DEF IsLastId
    <3> QED BY <1>6, <2>3, <2>4, <3>1, LangIs
  <2>6. PICK m \in 1 .. job - 1 : x[i].index = jobs[m].index /\ \A o \in m + 1 .. job : jobs[o].append
    BY <1>7, <2>5
  <2>7. DOMAIN jobs = 1 .. Len(jobs)
    BY <1>3, VobsubAssumption
  <2>8. jobs[m].index = j.index => \E o \in m + 1 .. job : ~jobs[o].append
    BY <1>1, <1>3, <2>7 DEF OneEach
  <2> QED BY <2>2, <2>5, <2>6, <2>8
<1>11. statics'.last_pts = Unset
  BY <1>1 DEF Fresh
<1> QED BY <1>1, <1>5, <1>9, <1>10, <1>11 DEF TimesInv

\* The line that is written for a time
LEMMA LineWritten ==
    ASSUME WriterInv, next > 0, NEW f, NEW time, Output(jobs[job], f, time), NewLine(time)
    PROVE  \E line, b : /\ idx' = Append(idx, line) /\ IsSeq(idx)
                        /\ Lined(idx, idx', line, b)
                        /\ line.ms = Millis(time) /\ line.kind = "timestamp" /\ b.stream = jobs[job].index
<1> DEFINE j == jobs[job]
           b == [stream |-> j.index, pts |-> time, stamped |-> StampLength(f.len, time) = PtsLength(time)]
           line == [kind |-> "timestamp", ms |-> Millis(time), filepos |-> SizeOf(sub)]
<1>1. /\ FileRight(sub, written) /\ IndexRight(idx, written) /\ Writing(j.index, idx, written, statics)
      /\ IsSeq(idx) /\ IsSeq(written)
  BY DEF WriterInv, FileRight, IndexRight
<1>2. idx' = Append(idx, line)
  BY DEF Output
<1>3. b.stream = j.index /\ b.pts = time
  OBVIOUS
<1>4. line.kind = "timestamp" /\ line.ms = Millis(time) /\ line.filepos = BlockAt(Len(written) + 1)
  BY <1>1 DEF FileRight
<1> HIDE DEF b, line
<1>5. PICK i : IsLastId(idx, Len(idx), i) /\ idx[i].index = j.index
  BY <1>1 DEF Writing
<1>6. idx[i].index = b.stream /\ LineFor(line, written, b)
  BY <1>3, <1>4, <1>5 DEF LineFor
<1>7. Lined(idx, Append(idx, line), line, b)
  BY <1>1, <1>5, <1>6, IndexGrown
<1> QED BY <1>1, <1>2, <1>3, <1>4, <1>7

\* An id is no time stamp, and stays when a time stamp is written behind it.
LEMMA IdsGrown ==
    ASSUME NEW x, IsSeq(x), NEW line, line.kind = "timestamp", NEW n, IdsFrom(x, n)
    PROVE  IdsFrom(Append(x, line), n)
<1> DEFINE y == Append(x, line)
<1>1. /\ Len(y) = Len(x) + 1 /\ Len(x) \in Nat /\ y[Len(x) + 1] = line
      /\ \A i \in 1 .. Len(x) : y[i] = x[i]
  BY Appended
<1> HIDE DEF y
<1>2. ASSUME NEW i \in 1 .. Len(y), y[i].kind = "id"
      PROVE  i \in 1 .. Len(x) /\ x[i] = y[i]
  <2>1. i \in 1 .. Len(x) \/ i = Len(x) + 1
    BY <1>1
  <2> QED BY <1>1, <1>2, <2>1
<1>3. IdsFrom(y, n)
  BY <1>2 DEF IdsFrom
<1> QED BY <1>3 DEF y

\* A time is not before the last one that was written.
LEMMA TimeRises ==
    ASSUME NEW a \in Nat, NEW b \in Nat, a <= b, NEW c \in Nat, NEW d \in Nat
    PROVE  a - c + d <= b - c + d
  OBVIOUS

LEMMA ConvertTimes ==
    ASSUME OneEach, WriterInv, TimesInv, Convert
    PROVE  TimesInv'
<1> DEFINE j == jobs[job]
<1>1. /\ next \in 1 .. Len(j.input) /\ next' = next + 1 /\ job \in 1 .. Len(jobs)
      /\ next \in Nat /\ next > 0 /\ UNCHANGED <<jobs, job, reader>>
      /\ \/ UNCHANGED <<sub, idx, statics, written>>
         \/ \E f, time : /\ f = j.input[next] /\ time = f.pts - j.first + j.start
                         /\ f.len \in 1 .. Block - 24 /\ time \in Nat
                         /\ Output(j, f, time)
  BY ConvertIs
<1>2. jobs \in Jobs /\ Len(jobs) \in Nat /\ DOMAIN jobs = 1 .. Len(jobs)
  BY VobsubAssumption DEF WriterInv
<1>3. /\ j.first \in Nat /\ j.start \in Nat /\ Len(j.input) \in Nat /\ DOMAIN j.input = 1 .. Len(j.input)
      /\ \A n \in 1 .. Len(j.input) : j.input[n].pts \in Nat
  BY <1>1, <1>2, JobIs
<1>4. Opened = job /\ Opened' = job
  BY <1>1 DEF Opened
<1>5. CASE UNCHANGED <<sub, idx, statics, written>>
  <2>1. TimesRise(idx') /\ IdsFrom(idx, Opened)'
    BY <1>1, <1>4, <1>5 DEF TimesInv, IdsFrom
  <2>2. \A k \in StampsOf(idx') : LangOf(idx', k) = j.index =>
                     statics'.last_pts # Unset /\ idx'[k].ms <= statics'.last_ms
    BY <1>1, <1>5 DEF TimesInv
  <2>3. statics'.last_pts # Unset =>
          \E n \in 1 .. Len(j.input) :
             n < next + 1 /\ statics'.last_pts = j.input[n].pts - j.first + j.start
    <3> SUFFICES ASSUME statics'.last_pts # Unset
                 PROVE  \E n \in 1 .. Len(j.input) :
                          n < next + 1 /\ statics'.last_pts = j.input[n].pts - j.first + j.start
      OBVIOUS
    <3>1. PICK n \in 1 .. Len(j.input) :
             n < next /\ statics.last_pts = j.input[n].pts - j.first + j.start
      BY <1>1, <1>5 DEF TimesInv
    <3>2. n < next + 1
      BY <1>1, <1>3, <3>1
    <3> QED BY <1>5, <3>1, <3>2
  <2> QED BY <1>1, <2>1, <2>2, <2>3 DEF TimesInv
<1>6. CASE \E f, time : /\ f = j.input[next] /\ time = f.pts - j.first + j.start
                        /\ f.len \in 1 .. Block - 24 /\ time \in Nat
                        /\ Output(j, f, time)
  <2>1. PICK f, time : /\ f = j.input[next] /\ time = f.pts - j.first + j.start
                       /\ f.len \in 1 .. Block - 24 /\ time \in Nat
                       /\ Output(j, f, time)
    BY <1>6
  <2>2. /\ statics'.last_pts = time
        /\ statics'.last_ms = (IF NewLine(time) THEN Millis(time) ELSE statics.last_ms)
    <3>1. statics' = [last_pts |-> time, last_code |-> time,
                      last_ms |-> IF NewLine(time) THEN Millis(time) ELSE statics.last_ms]
      BY <2>1 DEF Output
    <3> QED BY <3>1
  <2>3. time # Unset
    BY <2>1 DEF Unset
  <2>4. Writing(j.index, idx, written, statics)
    BY <1>1 DEF WriterInv
  \* The last time written, if any, is not after this one.
  <2>5. statics.last_pts # Unset =>
          /\ statics.last_ms = Millis(statics.last_pts) /\ statics.last_ms \in Nat
          /\ statics.last_ms <= Millis(time) /\ Millis(time) \in Nat
    <3> SUFFICES ASSUME statics.last_pts # Unset
                 PROVE  /\ statics.last_ms = Millis(statics.last_pts) /\ statics.last_ms \in Nat
                        /\ statics.last_ms <= Millis(time) /\ Millis(time) \in Nat
      OBVIOUS
    <3>1. PICK n \in 1 .. Len(j.input) :
             n < next /\ statics.last_pts = j.input[n].pts - j.first + j.start
      BY <1>1 DEF TimesInv
    <3>2. n <= next
      BY <1>3, <1>1, <3>1
    <3>3. j.input[n].pts <= j.input[next].pts
      BY <1>1, <1>2, <1>3, <3>1, <3>2 DEF OneEach, Rising
    <3>4. statics.last_pts <= time
      <4>1. /\ j.input[n].pts \in Nat /\ j.input[next].pts \in Nat
            /\ j.first \in Nat /\ j.start \in Nat
        BY <1>1, <1>3
      <4>2. j.input[n].pts - j.first + j.start <= j.input[next].pts - j.first + j.start
        BY <3>3, <4>1, TimeRises
      <4>3. time = j.input[next].pts - j.first + j.start
        BY <2>1
      <4> QED BY <3>1, <4>2, <4>3
    <3>5. statics.last_pts \in Nat /\ statics.last_ms = Millis(statics.last_pts)
      BY <2>4 DEF Writing
    <3> QED BY <2>1, <3>4, <3>5, PartsRise
  <2>6. statics'.last_pts # Unset =>
          \E n \in 1 .. Len(j.input) :
             n < next + 1 /\ statics'.last_pts = j.input[n].pts - j.first + j.start
    BY <1>1, <2>1, <2>2
  <2>7. CASE ~NewLine(time)
    <3>1. idx' = idx
      BY <2>1, <2>7 DEF Output
    <3>2. \A k \in StampsOf(idx') : LangOf(idx', k) = j.index =>
                       statics'.last_pts # Unset /\ idx'[k].ms <= statics'.last_ms
      BY <1>1, <2>2, <2>3, <2>7, <3>1 DEF TimesInv
    <3>3. TimesRise(idx') /\ IdsFrom(idx, Opened)'
      BY <1>1, <1>4, <3>1 DEF TimesInv, IdsFrom
    <3> QED BY <1>1, <2>6, <3>2, <3>3 DEF TimesInv
  <2>8. CASE NewLine(time)
    <3>1. PICK line, b : /\ idx' = Append(idx, line) /\ IsSeq(idx)
                         /\ Lined(idx, idx', line, b)
                         /\ line.ms = Millis(time) /\ line.kind = "timestamp" /\ b.stream = j.index
      BY <1>1, <2>1, <2>8, LineWritten
    <3>2. statics.last_ms # Millis(time)
      BY <2>8 DEF NewLine
    <3>3. Len(idx) \in Nat /\ \A k \in StampsOf(idx) : k \in 1 .. Len(idx)
      BY IndexFacts DEF WriterInv
    <3> DEFINE l == Len(idx) + 1
    <3>4. /\ StampsOf(idx') = StampsOf(idx) \cup {l} /\ LangOf(idx', l) = j.index
          /\ idx'[l].ms = Millis(time)
          /\ \A k \in StampsOf(idx) : LangOf(idx', k) = LangOf(idx, k) /\ idx'[k] = idx[k]
      BY <3>1 DEF Lined
    <3>5. Millis(time) \in Nat
      BY <2>1, PartsRise
    <3>6. ASSUME NEW k \in StampsOf(idx), LangOf(idx, k) = j.index
          PROVE  idx[k].ms < Millis(time)
      <4>1. statics.last_pts # Unset /\ idx[k].ms <= statics.last_ms
        BY <1>1, <3>6 DEF TimesInv
      <4>2. idx[k].ms \in Nat
        <5>1. PICK d \in 1 .. Len(written) : Millis(written[d].pts) = idx[k].ms
          BY <3>6 DEF WriterInv, IndexRight, Points
        <5>2. written[d].pts \in Nat
          BY DEF WriterInv, WrittenRight
        <5> QED BY <5>1, <5>2, PartIs
      <4> QED BY <2>5, <3>2, <4>1, <4>2
    <3>7. TimesRise(idx')
      <4> SUFFICES ASSUME NEW k \in StampsOf(idx'), NEW m \in StampsOf(idx'), k < m,
                          LangOf(idx', k) = LangOf(idx', m)
                   PROVE  idx'[k].ms < idx'[m].ms
        BY DEF TimesRise
      <4>1. k \in StampsOf(idx)
        BY <3>3, <3>4
      <4>2. CASE m = l
        BY <3>4, <3>6, <4>1, <4>2
      <4>3. CASE m \in StampsOf(idx)
        BY <3>4, <4>1, <4>3 DEF TimesInv, TimesRise
      <4> QED BY <3>4, <4>2, <4>3
    <3>8. \A k \in StampsOf(idx') : LangOf(idx', k) = j.index =>
                       statics'.last_pts # Unset /\ idx'[k].ms <= statics'.last_ms
      <4> SUFFICES ASSUME NEW k \in StampsOf(idx'), LangOf(idx', k) = j.index
                   PROVE  idx'[k].ms <= Millis(time)
        BY <2>2, <2>3, <2>8
      <4>1. CASE k = l
        BY <3>4, <3>5, <4>1
      <4>2. CASE k \in StampsOf(idx)
        <5>1. idx[k].ms < Millis(time) /\ idx'[k] = idx[k]
          BY <3>4, <3>6, <4>2
        <5>2. idx[k].ms \in Nat
          <6>1. PICK d \in 1 .. Len(written) : Millis(written[d].pts) = idx[k].ms
            BY <4>2 DEF WriterInv, IndexRight, Points
          <6>2. written[d].pts \in Nat
            BY DEF WriterInv, WrittenRight
          <6> QED BY <6>1, <6>2, PartIs
        <5> QED BY <3>5, <5>1, <5>2
      <4> QED BY <3>4, <4>1, <4>2
    <3>9. IdsFrom(idx, Opened)'
      <4>1. IdsFrom(idx', job)
        BY <1>4, <3>1, IdsGrown DEF TimesInv
      <4> QED BY <1>1, <1>4, <4>1 DEF IdsFrom
    <3> QED BY <1>1, <2>6, <3>7, <3>8, <3>9 DEF TimesInv
  <2> QED BY <2>7, <2>8
<1> QED BY <1>1, <1>5, <1>6

LEMMA TimesStep == OneEach /\ WriterInv /\ TimesInv /\ [VobsubNext]_vobsubvars => TimesInv'
<1> SUFFICES ASSUME OneEach, WriterInv, TimesInv, [VobsubNext]_vobsubvars PROVE TimesInv'
  OBVIOUS
<1>1. CASE OpenOut
  BY <1>1, OpenOutTimes
<1>2. CASE Convert
  BY <1>2, ConvertTimes
<1>3. CASE CloseOut
  <2>1. /\ job <= Len(jobs) /\ next > Len(jobs[job].input) /\ job' = job + 1 /\ next' = 0
        /\ UNCHANGED <<jobs, sub, idx, statics, reader, written>>
    BY <1>3 DEF CloseOut
  <2>2. job \in 1 .. Len(jobs) /\ job \in Nat /\ next \in Nat /\ Len(jobs[job].input) \in Nat
    <3>1. jobs \in Jobs /\ job \in Nat \ {0} /\ next \in Nat
      BY DEF WriterInv
    <3>2. job \in 1 .. Len(jobs)
      BY <2>1, <3>1, JobIs
    <3> QED BY <3>1, <3>2, JobIs
  <2>3. next > 0
    BY <2>1, <2>2
  <2>4. Opened = job /\ Opened' = job
    BY <2>1, <2>2, <2>3 DEF Opened
  <2>5. IdsFrom(idx, Opened)'
    BY <2>1, <2>4 DEF TimesInv, IdsFrom
  <2> QED BY <2>1, <2>5 DEF TimesInv
<1>4. CASE OpenIn \/ ParseLine \/ EndIndex \/ ReadElement \/ EndStream \/ GetNext
  <2>1. UNCHANGED <<jobs, job, next, sub, idx, statics, written>>
    BY <1>4, ReaderOnly
  <2> QED BY <2>1 DEF TimesInv, Opened, IdsFrom
<1>5. CASE UNCHANGED vobsubvars
  BY <1>5 DEF TimesInv, Opened, IdsFrom, vobsubvars
<1> QED BY <1>1, <1>2, <1>3, <1>4, <1>5 DEF VobsubNext

LEMMA LinesPointFrom ==
    ASSUME WriterInv, TimesInv
    PROVE  LinesPoint
<1>1. IndexRight(idx, written) /\ TimesRise(idx) /\ WrittenRight(written) /\ Len(written) \in Nat
  BY SeqDomain DEF WriterInv, TimesInv, FileRight
<1>2. Stamps = StampsOf(idx) /\ \A k : Lang(k) = LangOf(idx, k)
  BY DEF Stamps, StampsOf, Lang, LangOf
<1> SUFFICES ASSUME NEW k \in StampsOf(idx)
             PROVE  /\ idx[k].filepos % Block = 0 /\ idx[k].filepos \div Block < Len(written)
                    /\ Held(k).stream = LangOf(idx, k) /\ Millis(Held(k).pts) = idx[k].ms
                    /\ \A m \in StampsOf(idx) \ {k} : LangOf(idx, m) = LangOf(idx, k) => idx[m].ms # idx[k].ms
  BY <1>2 DEF LinesPoint
<1>3. PICK d \in 1 .. Len(written) :
          /\ idx[k].filepos = BlockAt(d) /\ written[d].stream = LangOf(idx, k)
          /\ Millis(written[d].pts) = idx[k].ms
  BY <1>1 DEF IndexRight, Points
<1>4. d \in Nat /\ d # 0 /\ d <= Len(written)
  BY <1>1
<1>5. idx[k].filepos % Block = 0 /\ idx[k].filepos \div Block = d - 1
  BY <1>3, <1>4, BlockAtIs
<1>6. d - 1 < Len(written) /\ (d - 1) + 1 = d
  BY <1>1, <1>4
<1>7. Held(k) = written[d]
  BY <1>5, <1>6 DEF Held
<1>8. ASSUME NEW m \in StampsOf(idx) \ {k}, LangOf(idx, m) = LangOf(idx, k), idx[m].ms = idx[k].ms
      PROVE  FALSE
  <2>1. k \in Nat /\ m \in Nat
    BY <1>1, IndexFacts
  <2>2. k < m \/ m < k
    BY <2>1
  <2>3. Millis(written[d].pts) \in Nat
    BY <1>1, PartsRise DEF WrittenRight
  <2> QED BY <1>1, <1>3, <1>8, <2>2, <2>3 DEF TimesRise
<1> QED BY <1>3, <1>5, <1>6, <1>7, <1>8

\* Every line of the index gives the start of a block of its language and its time,
\* and no time is given twice to a language, however many runs there were (vobsub_out_output).
THEOREM LinesAlwaysPoint == OneEach /\ VobsubSpec => []LinesPoint
<1> SUFFICES ASSUME OneEach PROVE VobsubSpec => []LinesPoint
  OBVIOUS
<1>1. VobsubInit => WriterInv /\ TimesInv
  BY WriterInit, TimesInit
<1>2. WriterInv /\ TimesInv /\ [VobsubNext]_vobsubvars => WriterInv' /\ TimesInv'
  BY WriterStep, TimesStep
<1>3. WriterInv /\ TimesInv => LinesPoint
  BY LinesPointFrom
<1> QED BY <1>1, <1>2, <1>3, PTL DEF VobsubSpec

-------------------------------------------------------------------------------
(***************************************************************************)
(* The queues of the reader                                                *)
(***************************************************************************)
OwnIn(w, s) == {d \in 1 .. Len(w) : w[d].stream = s}

QueueIs(q) ==
    /\ DOMAIN q = {"packets", "current"} /\ IsSeq(q.packets)
    /\ \A k \in 1 .. Len(q.packets) : DOMAIN q.packets[k] = {"pts100", "filepos", "data"}

\* Behind the first c, the packets stand in the order of the file.
Ascending(ps, c) == \A j, k \in c + 1 .. Len(ps) : j < k => ps[j].filepos < ps[k].filepos

\* The first l lines of the index x, as far as they are time stamps of language s
LinesOf(x, s, l) == {m \in StampsOf(x) : m <= l /\ LangOf(x, m) = s}
FromLine(p, line) == p.data = NoData /\ p.filepos = line.filepos /\ p.pts100 = line.ms * PerMs

\* While the index is read: the queue of language s holds its first l lines.
Listing(q, x, s, l) ==
    /\ QueueIs(q) /\ q.current = 1
    /\ \A k \in 1 .. Len(q.packets) : \E m \in LinesOf(x, s, l) : FromLine(q.packets[k], x[m])
    /\ \A m \in LinesOf(x, s, l) : \E k \in 1 .. Len(q.packets) : q.packets[k].filepos = x[m].filepos
    /\ Ascending(q.packets, 0)

\* A packet of a line whose block, of language s, is behind block n
Awaits(p, w, s, n) ==
    /\ p.data = NoData
    /\ \E d \in OwnIn(w, s) : d > n /\ p.filepos = BlockAt(d) /\ p.pts100 = Millis(w[d].pts) * PerMs

\* While the .sub file is read, up to block n: the first c packets of the
\* queue have what was read of language s, the others wait.
Filling(q, w, s, n, c) ==
    /\ QueueIs(q) /\ c \in 0 .. Len(q.packets) /\ q.current = (IF c = 0 THEN 1 ELSE c)
    /\ \A k \in 1 .. c : q.packets[k].data \in OwnIn(w, s) /\ q.packets[k].data <= n
    /\ \A j, k \in 1 .. c : j < k => q.packets[j].data < q.packets[k].data
    /\ \A d \in OwnIn(w, s) : d <= n => \E k \in 1 .. c : q.packets[k].data = d
    /\ \A k \in c + 1 .. Len(q.packets) : Awaits(q.packets[k], w, s, n)
    /\ Ascending(q.packets, c)
    /\ (c = 0 /\ Len(q.packets) > 0) => \A d \in OwnIn(w, s) : q.packets[1].filepos <= BlockAt(d)

\* A packet with data has its time, at most a millisecond early.
Late == {i \in Int : -PerMs <= i /\ i <= 0}
Near(p, w) == p.data # NoData => \E i \in Late : p.pts100 = w[p.data].pts + i
Timed(q, w) == \A k \in 1 .. Len(q.packets) : Near(q.packets[k], w)

AllStamped(w) == \A d \in 1 .. Len(w) : w[d].stamped

\* The elements in front of element e end with block n.
ReadTo(s, e, n) == \A i \in PacketsOf(s) : i < e <=> s[i].data <= n

\* The first l packets of a queue have been handed out.
HandedOut(got, ps, l) == IsSeq(got) /\ Len(got) = l /\ \A k \in 1 .. l : got[k] = ps[k]

\* While the index is read
ReadsLines(r, x) ==
    /\ r.line \in 1 .. Len(x) + 1 /\ r.element = 1 /\ r.diff = 0 /\ r.got = <<>>
    /\ \A i : IsLastId(x, r.line - 1, i) => r.stream = x[i].index
    /\ \A s \in Streams : Listing(r.queue[s], x, s, r.line - 1)

\* With the .sub file read up to block n
HasBlocks(r, f, w, n) ==
    /\ r.element \in 1 .. Len(f) + 1 /\ ReadTo(f, r.element, n)
    /\ \A s \in Streams : \E c \in Nat : Filling(r.queue[s], w, s, n, c)
    /\ AllStamped(w) =>
         /\ r.diff \in Late
         /\ n > 0 => r.pts = w[n].pts
         /\ \A s \in Streams : Timed(r.queue[s], w)

\* While the packets of a language are handed out
HandsOut(r) ==
    /\ r.stream \in Streams /\ r.line \in 1 .. Len(r.queue[r.stream].packets) + 1
    /\ HandedOut(r.got, r.queue[r.stream].packets, r.line - 1)

ReaderIs(r) ==
    /\ DOMAIN r = {"phase", "line", "element", "stream", "pts", "diff", "queue", "got"}
    /\ DOMAIN r.queue = Streams
    /\ r.phase \in {"closed", "index", "stream", "read", "done"}

ReaderRight(r, x, f, w) ==
    /\ ReaderIs(r)
    /\ r.phase \in {"closed", "index"} => ReadsLines(r, x)
    /\ r.phase = "closed" => r = Closed
    /\ r.phase \in {"stream", "read", "done"} => \E n \in 0 .. Len(w) : HasBlocks(r, f, w, n)
    /\ r.phase = "stream" => r.got = <<>>
    /\ r.phase \in {"read", "done"} => HandsOut(r)
    /\ r.phase = "done" => r.line > Len(r.queue[r.stream].packets)

ReaderInv == ReaderRight(reader, idx, sub, written)

-------------------------------------------------------------------------------
(***************************************************************************)
(* Sequences that change in one place                                      *)
(***************************************************************************)
LEMMA Changed ==
    ASSUME NEW s, IsSeq(s), NEW i \in 1 .. Len(s), NEW e
    PROVE  /\ IsSeq([s EXCEPT ![i] = e]) /\ Len([s EXCEPT ![i] = e]) = Len(s)
           /\ [s EXCEPT ![i] = e][i] = e
           /\ \A k \in 1 .. Len(s) : k # i => [s EXCEPT ![i] = e][k] = s[k]
<1>1. PICK S : s \in Seq(S)
  BY DEF IsSeq
<1>2. s \in Seq(S \cup {e}) /\ e \in S \cup {e}
  BY <1>1
<1>3. /\ [s EXCEPT ![i] = e] \in Seq(S \cup {e})
      /\ Len([s EXCEPT ![i] = e]) = Len(s)
      /\ \A j \in 1 .. Len(s) : [s EXCEPT ![i] = e][j] = IF j = i THEN e ELSE s[j]
  BY <1>2, ExceptSeq
<1> QED BY <1>3 DEF IsSeq

\* A part of a sequence
LEMMA PartOf ==
    ASSUME NEW s, IsSeq(s), NEW m \in 1 .. Len(s) + 1, NEW n \in m - 1 .. Len(s)
    PROVE  /\ IsSeq(SubSeq(s, m, n)) /\ Len(SubSeq(s, m, n)) = n - m + 1
           /\ \A i \in 1 .. n - m + 1 : SubSeq(s, m, n)[i] = s[m + i - 1]
<1>1. PICK S : s \in Seq(S)
  BY DEF IsSeq
<1>2. Len(s) \in Nat /\ \A i \in 1 .. Len(s) : s[i] \in S
  BY <1>1
<1>3. m \in Int /\ n \in Int /\ \A i \in m .. n : i \in 1 .. Len(s)
  BY <1>2
<1>4. /\ SubSeq(s, m, n) \in Seq(S)
      /\ Len(SubSeq(s, m, n)) = IF m <= n THEN n - m + 1 ELSE 0
      /\ \A i \in 1 .. n - m + 1 : SubSeq(s, m, n)[i] = s[m + i - 1]
  BY <1>2, <1>3, SubSeqProperties
<1>5. Len(SubSeq(s, m, n)) = n - m + 1
  BY <1>2, <1>4
<1> QED BY <1>4, <1>5 DEF IsSeq

LEMMA Insertion ==
    ASSUME NEW s, IsSeq(s), NEW i \in 1 .. Len(s) + 1, NEW e
    PROVE  /\ IsSeq(InsertAt(s, i, e)) /\ Len(InsertAt(s, i, e)) = Len(s) + 1
           /\ \A k \in 1 .. i - 1 : InsertAt(s, i, e)[k] = s[k]
           /\ InsertAt(s, i, e)[i] = e
           /\ \A k \in i + 1 .. Len(s) + 1 : InsertAt(s, i, e)[k] = s[k - 1]
<1> DEFINE a == SubSeq(s, 1, i - 1)
           b == <<e>>
           c == SubSeq(s, i, Len(s))
           ab == a \o b
           y == ab \o c
<1>1. PICK l \in Nat : l = Len(s)
  BY SeqDomain
<1>2. i \in 1 .. l + 1
  BY <1>1
<1>3. IsSeq(a) /\ Len(a) = i - 1 /\ \A k \in 1 .. i - 1 : a[k] = s[k]
  <2>1. 1 \in 1 .. Len(s) + 1 /\ i - 1 \in 1 - 1 .. Len(s)
    BY <1>1, <1>2
  <2>2. /\ IsSeq(a) /\ Len(a) = (i - 1) - 1 + 1
        /\ \A k \in 1 .. (i - 1) - 1 + 1 : a[k] = s[1 + k - 1]
    BY <2>1, PartOf
  <2>3. (i - 1) - 1 + 1 = i - 1 /\ \A k \in 1 .. i - 1 : 1 + k - 1 = k
    BY <1>2
  <2> QED BY <2>2, <2>3
<1>4. IsSeq(c) /\ Len(c) = l - i + 1 /\ \A k \in 1 .. l - i + 1 : c[k] = s[i + k - 1]
  <2>1. i \in 1 .. Len(s) + 1 /\ Len(s) \in i - 1 .. Len(s)
    BY <1>1, <1>2
  <2> QED BY <1>1, <2>1, PartOf
<1>5. IsSeq(b) /\ Len(b) = 1 /\ b[1] = e
  BY Single
<1>6. InsertAt(s, i, e) = y
  BY DEF InsertAt
<1> HIDE DEF a, b, c
<1>7. /\ IsSeq(ab) /\ Len(ab) = i
      /\ \A k \in 1 .. i : ab[k] = IF k <= i - 1 THEN a[k] ELSE b[k - (i - 1)]
  <2>1. /\ IsSeq(a \o b) /\ Len(a \o b) = Len(a) + Len(b)
        /\ \A k \in 1 .. Len(a) + Len(b) : (a \o b)[k] = IF k <= Len(a) THEN a[k] ELSE b[k - Len(a)]
    BY <1>3, <1>5, Joined
  <2>2. Len(a) + Len(b) = i
    BY <1>2, <1>3, <1>5
  <2> QED BY <1>3, <2>1, <2>2
<1> HIDE DEF ab
<1>8. /\ IsSeq(y) /\ Len(y) = l + 1
      /\ \A k \in 1 .. l + 1 : y[k] = IF k <= i THEN ab[k] ELSE c[k - i]
  <2>1. /\ IsSeq(ab \o c) /\ Len(ab \o c) = Len(ab) + Len(c)
        /\ \A k \in 1 .. Len(ab) + Len(c) : (ab \o c)[k] = IF k <= Len(ab) THEN ab[k] ELSE c[k - Len(ab)]
    BY <1>4, <1>7, Joined
  <2>2. Len(ab) + Len(c) = l + 1
    BY <1>2, <1>4, <1>7
  <2> QED BY <1>7, <2>1, <2>2
<1> HIDE DEF y
<1>9. ASSUME NEW k \in 1 .. i - 1 PROVE y[k] = s[k]
  <2>1. k \in 1 .. l + 1 /\ k <= i /\ k \in 1 .. i /\ k <= i - 1
    BY <1>2
  <2> QED BY <1>3, <1>7, <1>8, <2>1
<1>10. y[i] = e
  <2>1. i \in 1 .. l + 1 /\ i <= i /\ i \in 1 .. i /\ ~(i <= i - 1) /\ i - (i - 1) = 1
    BY <1>2
  <2> QED BY <1>5, <1>7, <1>8, <2>1
<1>11. ASSUME NEW k \in i + 1 .. l + 1 PROVE y[k] = s[k - 1]
  <2>1. k \in 1 .. l + 1 /\ ~(k <= i) /\ k - i \in 1 .. l - i + 1 /\ i + (k - i) - 1 = k - 1
    BY <1>2
  <2> QED BY <1>4, <1>8, <2>1
<1> QED BY <1>1, <1>6, <1>8, <1>9, <1>10, <1>11

-------------------------------------------------------------------------------
(***************************************************************************)
(* One packet for a queue                                                  *)
(***************************************************************************)

\* The current packet stays if the next one starts behind pos.
LEMMA ReachedStays ==
    ASSUME NEW q, QueueIs(q), NEW c \in Nat, q.current = c, NEW pos,
           c + 1 <= Len(q.packets) => ~(q.packets[c + 1].filepos <= pos)
    PROVE  Reached(q, pos) = q
<1> DEFINE later == {k \in q.current + 1 .. Len(q.packets) :
                       \A m \in q.current + 1 .. k : q.packets[m].filepos <= pos}
<1>1. Len(q.packets) \in Nat
  BY SeqDomain DEF QueueIs
<1>2. ASSUME NEW k \in later PROVE FALSE
  <2>1. k \in c + 1 .. Len(q.packets) /\ \A m \in c + 1 .. k : q.packets[m].filepos <= pos
    BY <1>2
  <2>2. c + 1 \in c + 1 .. k /\ c + 1 <= Len(q.packets)
    BY <1>1, <2>1
  <2> QED BY <2>1, <2>2
<1>3. later = {}
  BY <1>2
<1> QED BY <1>3 DEF Reached

\* It is the next one if only that starts there or before.
LEMMA ReachedMoves ==
    ASSUME NEW q, QueueIs(q), NEW c \in Nat, q.current = c, NEW pos,
           c + 1 <= Len(q.packets), q.packets[c + 1].filepos <= pos,
           c + 2 <= Len(q.packets) => ~(q.packets[c + 2].filepos <= pos)
    PROVE  Reached(q, pos) = [q EXCEPT !.current = c + 1]
<1> DEFINE later == {k \in q.current + 1 .. Len(q.packets) :
                       \A m \in q.current + 1 .. k : q.packets[m].filepos <= pos}
<1>1. Len(q.packets) \in Nat
  BY SeqDomain DEF QueueIs
<1>2. ASSUME NEW k \in later PROVE k = c + 1
  <2>1. k \in c + 1 .. Len(q.packets) /\ \A m \in c + 1 .. k : q.packets[m].filepos <= pos
    BY <1>2
  <2>2. SUFFICES ASSUME k # c + 1 PROVE FALSE
    OBVIOUS
  <2>3. c + 2 \in c + 1 .. k /\ c + 2 <= Len(q.packets)
    BY <1>1, <2>1, <2>2
  <2> QED BY <2>1, <2>3
<1>3. c + 1 \in later
  <2>1. c + 1 \in c + 1 .. Len(q.packets) /\ \A m \in c + 1 .. c + 1 : m = c + 1
    BY <1>1
  <2> QED BY <2>1
<1>4. later = {c + 1}
  BY <1>2, <1>3
<1> HIDE DEF later
<1>5. (CHOOSE k \in later : \A m \in later : m <= k) = c + 1
  BY <1>4
<1>6. later # {}
  BY <1>4
<1> QED BY <1>5, <1>6 DEF Reached, later

\* qs is ps with h packets more, at place c + 1, which may have changed.
Shape(ps, qs, c, h) ==
    /\ IsSeq(qs) /\ Len(qs) = Len(ps) + h /\ c + 1 <= Len(qs)
    /\ \A k \in 1 .. c : qs[k] = ps[k]
    /\ \A k \in c + 2 .. Len(qs) : qs[k] = ps[k - h]

\* No packet behind place c + 1 starts with block d.
Passed(ps, c, h, d) == \A m \in c + 2 - h .. Len(ps) : ps[m].filepos # BlockAt(d)

Entries(ps) == \A k \in 1 .. Len(ps) : DOMAIN ps[k] = {"pts100", "filepos", "data"}

\* The queue q with a place for block d, at c + 1
Placed(q, a, w, c, d, t) ==
    /\ DOMAIN a = {"packets", "current"} /\ a.current = c + 1 /\ Entries(a.packets)
    /\ \E h \in {0, 1} : Shape(q.packets, a.packets, c, h) /\ Passed(q.packets, c, h, d)
    /\ Len(a.packets) # 1 => \/ a.packets[c + 1].pts100 = t
                             \/ a.packets[c + 1].pts100 = Millis(w[d].pts) * PerMs

LEMMA AwaitsAt ==
    ASSUME NEW p, NEW w, NEW s, NEW n \in Nat, Awaits(p, w, s, n), Len(w) \in Nat,
           NEW d \in Nat, d = n + 1, NEW pos, pos = BlockAt(d) + 14
    PROVE  /\ p.filepos = BlockAt(d) \/ (BlockAt(d) < p.filepos /\ ~(p.filepos <= pos))
           /\ p.filepos = BlockAt(d) => p.filepos <= pos /\ p.pts100 = Millis(w[d].pts) * PerMs
           /\ p.filepos \in Nat /\ BlockAt(d) \in Nat
           /\ p.filepos # BlockAt(d) => Awaits(p, w, s, d)
<1>1. PICK o \in OwnIn(w, s) : o > n /\ p.filepos = BlockAt(o) /\ p.pts100 = Millis(w[o].pts) * PerMs
  BY DEF Awaits
<1>2. o \in Nat /\ o # 0 /\ d # 0 /\ d <= o
  BY <1>1 DEF OwnIn
<1>3. BlockAt(o) \in Nat /\ BlockAt(d) \in Nat
  BY <1>2, BlockAtIs
<1>4. CASE o = d
  <2>1. BlockAt(o) <= pos
    BY <1>3, <1>4
  <2> QED BY <1>1, <1>3, <1>4, <2>1
<1>5. CASE o # d
  <2>1. d < o /\ ~(o <= d)
    BY <1>2, <1>5
  <2>2. BlockAt(d) < BlockAt(o)
    BY <1>2, <2>1, BlocksRise
  <2>3. ~(BlockAt(o) <= BlockAt(d) + 14)
    BY <1>2, <2>1, BlocksRise
  <2>4. BlockAt(o) # BlockAt(d)
    BY <1>3, <2>2
  <2>5. Awaits(p, w, s, d)
    <3>1. o > d
      BY <2>1, <1>2
    <3> QED BY <1>1, <3>1 DEF Awaits
  <2> QED BY <1>1, <1>3, <2>2, <2>3, <2>4, <2>5
<1> QED BY <1>4, <1>5

\* Nothing is there: a packet is made.
LEMMA PlacedEmpty ==
    ASSUME NEW q, NEW w, NEW s, NEW n, Filling(q, w, s, n, 0), NEW d, NEW pos, NEW t,
           Len(q.packets) = 0
    PROVE  Placed(q, Place(Reached(Begun(q), pos), t), w, 0, d, t)
<1> DEFINE b == Begun(q)
           e == Entry(0, 0)
<1>1. DOMAIN q = {"packets", "current"} /\ q.packets = <<>> /\ q.current = 1
  BY SeqDomain DEF Filling, QueueIs
<1>2. b = [q EXCEPT !.packets = <<e>>]
  BY <1>1 DEF Begun
<1>3. e.data = NoData /\ DOMAIN e = {"pts100", "filepos", "data"}
  BY DEF Entry
<1> HIDE DEF e
<1>4. DOMAIN b = {"packets", "current"} /\ b.packets = <<e>> /\ b.current = 1
  BY <1>1, <1>2
<1>5. IsSeq(b.packets) /\ Len(b.packets) = 1 /\ b.packets[1] = e
  BY <1>4, Single
<1> HIDE DEF b
<1>6. QueueIs(b)
  BY <1>3, <1>4, <1>5 DEF QueueIs
<1>7. Reached(b, pos) = b
  <2>1. 1 \in Nat /\ ~(1 + 1 <= Len(b.packets))
    BY <1>5
  <2> QED BY <1>4, <1>6, <2>1, ReachedStays
<1>8. Place(b, t) = b
  BY <1>3, <1>4, <1>5 DEF Place
<1>9. Shape(q.packets, b.packets, 0, 1)
  BY <1>1, <1>5, Nothing DEF Shape
<1>10. Passed(q.packets, 0, 1, d)
  BY <1>1, Nothing DEF Passed
<1>11. Placed(q, b, w, 0, d, t)
  BY <1>3, <1>4, <1>5, <1>9, <1>10 DEF Placed, Entries
<1> QED BY <1>7, <1>8, <1>11 DEF b

\* The packet of its line is there.
LEMMA PlacedLine ==
    ASSUME NEW q, NEW w, NEW s, NEW n \in Nat, NEW c \in Nat, Filling(q, w, s, n, c),
           Len(w) \in Nat, NEW d \in Nat, d = n + 1, NEW pos, pos = BlockAt(d) + 14, NEW t,
           c + 1 <= Len(q.packets), q.packets[c + 1].filepos = BlockAt(d)
    PROVE  Placed(q, Place(Reached(Begun(q), pos), t), w, c, d, t)
<1> DEFINE ps == q.packets
           a == Reached(q, pos)
<1>1. /\ DOMAIN q = {"packets", "current"} /\ QueueIs(q) /\ IsSeq(ps) /\ Len(ps) \in Nat
      /\ q.current = (IF c = 0 THEN 1 ELSE c) /\ Entries(ps)
  BY SeqDomain DEF Filling, QueueIs, Entries
<1>2. \A k \in c + 1 .. Len(ps) : Awaits(ps[k], w, s, n)
  BY DEF Filling
<1>3. c + 1 \in c + 1 .. Len(ps)
  BY <1>1
<1>4. /\ ps[c + 1].data = NoData /\ ps[c + 1].filepos <= pos
      /\ ps[c + 1].pts100 = Millis(w[d].pts) * PerMs
      /\ ps[c + 1].filepos \in Nat
  <2>1. Awaits(ps[c + 1], w, s, n)
    BY <1>2, <1>3
  <2>2. ps[c + 1].filepos <= pos
    BY <2>1, AwaitsAt
  <2>3. ps[c + 1].pts100 = Millis(w[d].pts) * PerMs
    BY <2>1, AwaitsAt
  <2>4. ps[c + 1].filepos \in Nat
    BY <2>1, AwaitsAt
  <2> QED BY <2>1, <2>2, <2>3, <2>4 DEF Awaits
<1>5. ASSUME NEW k \in c + 2 .. Len(ps) PROVE ~(ps[k].filepos <= pos) /\ ps[k].filepos # BlockAt(d)
  <2>1. k \in c + 1 .. Len(ps) /\ c + 1 < k
    BY <1>1
  <2>2. Awaits(ps[k], w, s, n)
    BY <1>2, <2>1
  <2>3. ps[c + 1].filepos < ps[k].filepos
    BY <1>3, <2>1 DEF Filling, Ascending
  <2>4. ps[k].filepos = BlockAt(d) \/ (BlockAt(d) < ps[k].filepos /\ ~(ps[k].filepos <= pos))
    BY <2>2, AwaitsAt
  <2>5. ps[k].filepos # BlockAt(d)
    BY <1>4, <2>3
  <2> QED BY <2>4, <2>5
<1>6. Begun(q) = q
  <2>1. ps # <<>>
    BY <1>1, <1>3, Nothing
  <2> QED BY <2>1 DEF Begun
<1>7. DOMAIN a = {"packets", "current"} /\ a.current = c + 1 /\ a.packets = ps
  <2>1. CASE c = 0
    <3>1. 1 \in Nat /\ q.current = 1 /\ 1 + 1 = c + 2
      BY <1>1, <2>1
    <3>2. 1 + 1 <= Len(ps) => ~(ps[1 + 1].filepos <= pos)
      <4>1. SUFFICES ASSUME 1 + 1 <= Len(ps) PROVE ~(ps[1 + 1].filepos <= pos)
        OBVIOUS
      <4>2. 1 + 1 \in c + 2 .. Len(ps)
        BY <1>1, <2>1, <4>1
      <4> QED BY <1>5, <4>2
    <3>3. a = q
      BY <1>1, <3>1, <3>2, ReachedStays
    <3> QED BY <1>1, <2>1, <3>1, <3>3
  <2>2. CASE c # 0
    <3>1. q.current = c
      BY <1>1, <2>2
    <3>2. c + 2 <= Len(ps) => ~(ps[c + 2].filepos <= pos)
      <4>1. SUFFICES ASSUME c + 2 <= Len(ps) PROVE ~(ps[c + 2].filepos <= pos)
        OBVIOUS
      <4>2. c + 2 \in c + 2 .. Len(ps)
        BY <1>1, <4>1
      <4> QED BY <1>5, <4>2
    <3>3. c + 1 <= Len(q.packets) /\ q.packets[c + 1].filepos <= pos /\ QueueIs(q)
      BY <1>1, <1>4
    <3>4. a = [q EXCEPT !.current = c + 1]
      BY <3>1, <3>2, <3>3, ReachedMoves
    <3> HIDE DEF a
    <3> QED BY <1>1, <3>4
  <2> QED BY <2>1, <2>2
<1> HIDE DEF a
<1>9. Place(a, t) = a
  BY <1>4, <1>7 DEF Place
<1>10. Shape(ps, a.packets, c, 0)
  <2>1. \A k \in c + 2 .. Len(ps) : k - 0 = k
    BY <1>1
  <2> QED BY <1>1, <1>7, <2>1 DEF Shape
<1>11. Passed(ps, c, 0, d)
  <2>1. c + 2 - 0 = c + 2
    OBVIOUS
  <2> QED BY <1>5, <2>1 DEF Passed
<1>12. Placed(q, a, w, c, d, t)
  BY <1>1, <1>4, <1>7, <1>10, <1>11 DEF Placed
<1> QED BY <1>6, <1>9, <1>12 DEF a

\* There is none: a packet follows the last one that has its data.
LEMMA PlacedBetween ==
    ASSUME NEW q, NEW w, NEW s, NEW n \in Nat, NEW c \in Nat, Filling(q, w, s, n, c), c # 0,
           Len(w) \in Nat, NEW d \in Nat, d = n + 1, NEW pos, pos = BlockAt(d) + 14, NEW t,
           c + 1 <= Len(q.packets) => q.packets[c + 1].filepos # BlockAt(d)
    PROVE  Placed(q, Place(Reached(Begun(q), pos), t), w, c, d, t)
<1> DEFINE ps == q.packets
           e == [ps[c] EXCEPT !.pts100 = t, !.data = NoData]
           a == Place(q, t)
<1>1. /\ DOMAIN q = {"packets", "current"} /\ QueueIs(q) /\ IsSeq(ps) /\ Len(ps) \in Nat
      /\ q.current = c /\ Entries(ps) /\ c \in 1 .. Len(ps)
  BY SeqDomain DEF Filling, QueueIs, Entries
<1>2. \A k \in c + 1 .. Len(ps) : Awaits(ps[k], w, s, n)
  BY DEF Filling
<1>3. ASSUME NEW k \in c + 1 .. Len(ps) PROVE ~(ps[k].filepos <= pos) /\ ps[k].filepos # BlockAt(d)
  <2>1. c + 1 \in c + 1 .. Len(ps) /\ c + 1 <= Len(ps)
    BY <1>1
  <2>2. BlockAt(d) < ps[c + 1].filepos /\ ps[c + 1].filepos \in Nat /\ BlockAt(d) \in Nat
    <3>1. Awaits(ps[c + 1], w, s, n)
      BY <1>2, <2>1
    <3>2. ps[c + 1].filepos = BlockAt(d) \/ BlockAt(d) < ps[c + 1].filepos
      BY <3>1, AwaitsAt
    <3>3. ps[c + 1].filepos \in Nat /\ BlockAt(d) \in Nat
      BY <3>1, AwaitsAt
    <3> QED BY <2>1, <3>2, <3>3
  <2>3. k = c + 1 \/ ps[c + 1].filepos < ps[k].filepos
    <3>1. k = c + 1 \/ c + 1 < k
      BY <1>1
    <3> QED BY <2>1, <3>1 DEF Filling, Ascending
  <2>4. ps[k].filepos \in Nat
    BY <1>2, AwaitsAt
  <2>5. ps[k].filepos # BlockAt(d)
    BY <2>2, <2>3, <2>4
  <2>6. ps[k].filepos = BlockAt(d) \/ ~(ps[k].filepos <= pos)
    BY <1>2, AwaitsAt
  <2> QED BY <2>5, <2>6
<1>4. Begun(q) = q
  <2>1. ps # <<>>
    BY <1>1, Nothing
  <2> QED BY <2>1 DEF Begun
<1>5. Reached(q, pos) = q
  <2>1. c + 1 <= Len(ps) => ~(ps[c + 1].filepos <= pos)
    <3>1. SUFFICES ASSUME c + 1 <= Len(ps) PROVE ~(ps[c + 1].filepos <= pos)
      OBVIOUS
    <3>2. c + 1 \in c + 1 .. Len(ps)
      BY <1>1, <3>1
    <3> QED BY <1>3, <3>2
  <2> QED BY <1>1, <2>1, ReachedStays
<1>6. ps[c].data # NoData
  <2>1. ps[c].data \in OwnIn(w, s)
    <3>1. c \in 1 .. c
      BY <1>1
    <3> QED BY <3>1 DEF Filling
  <2> QED BY <2>1 DEF OwnIn, NoData
<1>7. a = [packets |-> InsertAt(ps, c + 1, e), current |-> c + 1]
  BY <1>1, <1>6 DEF Place, Inserted
<1>8. DOMAIN e = {"pts100", "filepos", "data"} /\ e.pts100 = t
  <2>1. DOMAIN ps[c] = {"pts100", "filepos", "data"}
    BY <1>1 DEF Entries
  <2> QED BY <2>1
<1> DEFINE qs == InsertAt(ps, c + 1, e)
<1> HIDE DEF e
<1>9. /\ IsSeq(qs) /\ Len(qs) = Len(ps) + 1 /\ \A k \in 1 .. (c + 1) - 1 : qs[k] = ps[k]
      /\ qs[c + 1] = e /\ \A k \in (c + 1) + 1 .. Len(ps) + 1 : qs[k] = ps[k - 1]
  <2>1. c + 1 \in 1 .. Len(ps) + 1
    BY <1>1
  <2> QED BY <1>1, <2>1, Insertion
<1> HIDE DEF qs
<1>10. (c + 1) - 1 = c /\ (c + 1) + 1 = c + 2 /\ c + 2 - 1 = c + 1
  OBVIOUS
<1>11. Shape(ps, qs, c, 1)
  BY <1>1, <1>9, <1>10 DEF Shape
<1>12. Passed(ps, c, 1, d)
  BY <1>3, <1>10 DEF Passed
<1>13. Entries(qs)
  <2> SUFFICES ASSUME NEW k \in 1 .. Len(ps) + 1 PROVE DOMAIN qs[k] = {"pts100", "filepos", "data"}
    BY <1>9 DEF Entries
  <2>1. CASE k \in 1 .. c
    <3>1. k \in 1 .. Len(ps) /\ qs[k] = ps[k]
      BY <1>1, <1>9, <1>10, <2>1
    <3> QED BY <1>1, <3>1 DEF Entries
  <2>2. CASE k = c + 1
    BY <1>8, <1>9, <2>2
  <2>3. CASE k \in c + 2 .. Len(ps) + 1
    <3>1. k - 1 \in 1 .. Len(ps) /\ qs[k] = ps[k - 1]
      BY <1>1, <1>9, <1>10, <2>3
    <3> QED BY <1>1, <3>1 DEF Entries
  <2>4. k \in 1 .. c \/ k = c + 1 \/ k \in c + 2 .. Len(ps) + 1
    BY <1>1
  <2> QED BY <2>1, <2>2, <2>3, <2>4
<1>14. DOMAIN a = {"packets", "current"} /\ a.current = c + 1 /\ a.packets = qs
  BY <1>7 DEF qs
<1> HIDE DEF a
<1>15. Placed(q, a, w, c, d, t)
  BY <1>8, <1>9, <1>11, <1>12, <1>13, <1>14 DEF Placed
<1> QED BY <1>4, <1>5, <1>15 DEF a

LEMMA PlacedIs ==
    ASSUME NEW q, NEW w, NEW s, NEW n \in Nat, NEW c \in Nat, Filling(q, w, s, n, c),
           Len(w) \in Nat, NEW d \in OwnIn(w, s), d = n + 1, NEW pos, pos = BlockAt(d) + 14, NEW t
    PROVE  Placed(q, Place(Reached(Begun(q), pos), t), w, c, d, t)
<1>1. d \in Nat
  BY DEF OwnIn
<1>2. Len(q.packets) \in Nat
  BY SeqDomain DEF Filling, QueueIs
<1>3. CASE c # 0 /\ (c + 1 <= Len(q.packets) => q.packets[c + 1].filepos # BlockAt(d))
  BY <1>1, <1>3, PlacedBetween
<1>4. CASE c + 1 <= Len(q.packets) /\ q.packets[c + 1].filepos = BlockAt(d)
  BY <1>1, <1>4, PlacedLine
<1>5. CASE c = 0 /\ Len(q.packets) = 0
  BY <1>5, PlacedEmpty
\* The first packet of the queue is of the first block of the language, which is this one.
<1>6. ASSUME c = 0, Len(q.packets) # 0
      PROVE  c + 1 <= Len(q.packets) /\ q.packets[c + 1].filepos = BlockAt(d)
  <2>1. 1 \in c + 1 .. Len(q.packets) /\ c + 1 <= Len(q.packets) /\ c + 1 = 1
    BY <1>2, <1>6
  <2>2. Awaits(q.packets[1], w, s, n)
    BY <2>1 DEF Filling
  <2>3. q.packets[1].filepos <= BlockAt(d)
    BY <1>2, <1>6 DEF Filling
  <2>4. q.packets[1].filepos = BlockAt(d) \/ BlockAt(d) < q.packets[1].filepos
    BY <1>1, <2>2, AwaitsAt
  <2>5. q.packets[1].filepos \in Nat /\ BlockAt(d) \in Nat
    BY <1>1, <2>2, AwaitsAt
  <2> QED BY <2>1, <2>3, <2>4, <2>5
<1> QED BY <1>3, <1>4, <1>5, <1>6

\* r is a with block d at its place c + 1.
Took(a, r, c, d, pts) ==
    /\ QueueIs(r) /\ r.current = c + 1
    /\ \A k \in 1 .. Len(a.packets) : k # c + 1 => r.packets[k] = a.packets[k]
    /\ Len(r.packets) = Len(a.packets) /\ c + 1 \in 1 .. Len(a.packets)
    /\ r.packets[c + 1].data = d
    /\ r.packets[c + 1].pts100 = (IF Alone(a) THEN pts ELSE a.packets[c + 1].pts100)

\* The place takes the data of its block.
LEMMA TakenIs ==
    ASSUME NEW q, NEW w, NEW c \in Nat, NEW d, NEW t, NEW a, Placed(q, a, w, c, d, t), NEW pts,
           IsSeq(q.packets)
    PROVE  Took(a, Taken(a, d, pts), c, d, pts)
<1> DEFINE r == Taken(a, d, pts)
           p == a.packets[a.current]
           e == [p EXCEPT !.data = d, !.pts100 = IF Alone(a) THEN pts ELSE p.pts100]
           ps == a.packets
<1>1. /\ DOMAIN a = {"packets", "current"} /\ a.current = c + 1 /\ Entries(ps)
      /\ IsSeq(ps) /\ c + 1 <= Len(ps)
  BY DEF Placed, Shape
<1>2. Len(ps) \in Nat /\ c + 1 \in 1 .. Len(ps)
  BY <1>1, SeqDomain
<1>3. DOMAIN p = {"pts100", "filepos", "data"}
  BY <1>1, <1>2 DEF Entries
<1>4. /\ e.data = d /\ e.pts100 = (IF Alone(a) THEN pts ELSE a.packets[c + 1].pts100)
      /\ DOMAIN e = {"pts100", "filepos", "data"}
  BY <1>1, <1>3
<1>5. r = [a EXCEPT !.packets[a.current] = e]
  BY DEF Taken
<1> HIDE DEF e
<1>6. DOMAIN r = {"packets", "current"} /\ r.current = c + 1 /\ r.packets = [ps EXCEPT ![c + 1] = e]
  BY <1>1, <1>5
<1> HIDE DEF r
<1>7. /\ IsSeq(r.packets) /\ Len(r.packets) = Len(ps) /\ r.packets[c + 1] = e
      /\ \A k \in 1 .. Len(ps) : k # c + 1 => r.packets[k] = ps[k]
  BY <1>1, <1>2, <1>6, Changed
<1>8. QueueIs(r)
  <2> SUFFICES ASSUME NEW k \in 1 .. Len(ps)
               PROVE  DOMAIN r.packets[k] = {"pts100", "filepos", "data"}
    BY <1>6, <1>7 DEF QueueIs
  <2>1. CASE k = c + 1
    BY <1>4, <1>7, <2>1
  <2>2. CASE k # c + 1
    BY <1>1, <1>7, <2>2 DEF Entries
  <2> QED BY <2>1, <2>2
<1>9. Took(a, r, c, d, pts)
  BY <1>2, <1>4, <1>6, <1>7, <1>8 DEF Took
<1> QED BY <1>9 DEF r

\* The queue as it was, but for place c + 1, which has block d
Gained(q, r, c, d) ==
    /\ QueueIs(r) /\ r.current = c + 1 /\ c + 1 \in 1 .. Len(r.packets)
    /\ r.packets[c + 1].data = d
    /\ \E h \in {0, 1} : Shape(q.packets, r.packets, c, h) /\ Passed(q.packets, c, h, d)

LEMMA GainedIs ==
    ASSUME NEW q, NEW w, NEW c \in Nat, NEW d, NEW t, NEW a, Placed(q, a, w, c, d, t), NEW pts,
           IsSeq(q.packets)
    PROVE  Gained(q, Taken(a, d, pts), c, d)
<1> DEFINE r == Taken(a, d, pts)
<1>0. Took(a, r, c, d, pts)
  BY TakenIs
<1>1. /\ QueueIs(r) /\ r.current = c + 1
      /\ Len(r.packets) = Len(a.packets) /\ c + 1 \in 1 .. Len(a.packets)
      /\ r.packets[c + 1].data = d
      /\ \A k \in 1 .. Len(a.packets) : k # c + 1 => r.packets[k] = a.packets[k]
  <2> HIDE DEF r
  <2> QED BY <1>0 DEF Took
<1>2. PICK h \in {0, 1} : Shape(q.packets, a.packets, c, h) /\ Passed(q.packets, c, h, d)
  BY DEF Placed
<1> HIDE DEF r
<1>3. Len(a.packets) \in Nat
  BY SeqDomain, <1>2 DEF Shape
<1>4. \A k \in 1 .. c : k \in 1 .. Len(a.packets) /\ k # c + 1
  BY <1>1, <1>3
<1>5. \A k \in c + 2 .. Len(a.packets) : k \in 1 .. Len(a.packets) /\ k # c + 1
  BY <1>1, <1>3
<1>6. Shape(q.packets, r.packets, c, h)
  BY <1>1, <1>2, <1>4, <1>5 DEF Shape, QueueIs
<1>7. Gained(q, r, c, d)
  BY <1>1, <1>2, <1>6 DEF Gained
<1> QED BY <1>7 DEF r

\* One more packet is filled.
LEMMA Grows ==
    ASSUME NEW q, NEW w, NEW s, NEW n \in Nat, NEW c \in Nat, Filling(q, w, s, n, c),
           Len(w) \in Nat, NEW d \in OwnIn(w, s), d = n + 1, NEW r, Gained(q, r, c, d)
    PROVE  Filling(r, w, s, d, c + 1)
<1> DEFINE ps == q.packets
           qs == r.packets
<1>1. /\ QueueIs(r) /\ r.current = c + 1 /\ c + 1 \in 1 .. Len(qs) /\ qs[c + 1].data = d
  BY DEF Gained
<1>2. PICK h \in {0, 1} : Shape(ps, qs, c, h) /\ Passed(ps, c, h, d)
  BY DEF Gained
<1>3. PICK l \in Nat : l = Len(ps)
  BY SeqDomain DEF Filling, QueueIs
<1>4. /\ Len(qs) = l + h /\ \A k \in 1 .. c : qs[k] = ps[k]
      /\ \A k \in c + 2 .. l + h : qs[k] = ps[k - h]
  BY <1>2, <1>3 DEF Shape
<1>5. \A m \in c + 2 - h .. l : ps[m].filepos # BlockAt(d)
  BY <1>2, <1>3 DEF Passed
<1>6. \A k \in c + 2 .. l + h : k - h \in c + 2 - h .. l /\ k - h \in c + 1 .. l
  <2>1. CASE h = 0
    BY <2>1
  <2>2. CASE h = 1
    BY <2>2
  <2> QED BY <2>1, <2>2
<1>7. c + 1 \in 1 .. l + h /\ d \in Nat /\ n < d
  BY <1>1, <1>4 DEF OwnIn
<1>8. ASSUME NEW k \in c + 2 .. l + h PROVE Awaits(qs[k], w, s, d)
  <2>1. k - h \in c + 1 .. l /\ qs[k] = ps[k - h] /\ ps[k - h].filepos # BlockAt(d)
    BY <1>4, <1>5, <1>6
  <2>2. Awaits(ps[k - h], w, s, n)
    BY <1>3, <2>1 DEF Filling
  <2> HIDE DEF ps, qs
  <2> QED BY <1>7, <2>1, <2>2, AwaitsAt
<1>9. \A k \in 1 .. c : ps[k].data \in OwnIn(w, s) /\ ps[k].data <= n
  BY DEF Filling
<1>10. \A k \in 1 .. c : ps[k].data \in Nat
  BY <1>9 DEF OwnIn
<1>11. \A k \in 1 .. c + 1 : k \in 1 .. c \/ k = c + 1
  OBVIOUS
<1>12. \A k \in 1 .. c + 1 : qs[k].data \in OwnIn(w, s) /\ qs[k].data <= d
  <2> TAKE k \in 1 .. c + 1
  <2>1. CASE k \in 1 .. c
    <3>1. qs[k].data \in OwnIn(w, s) /\ qs[k].data <= n /\ qs[k].data \in Nat
      BY <1>4, <1>9, <1>10, <2>1
    <3> QED BY <1>7, <3>1
  <2>2. CASE k = c + 1
    BY <1>1, <1>7, <2>2
  <2> QED BY <1>11, <2>1, <2>2
<1>13. \A j, k \in 1 .. c + 1 : j < k => qs[j].data < qs[k].data
  <2> SUFFICES ASSUME NEW j \in 1 .. c + 1, NEW k \in 1 .. c + 1, j < k PROVE qs[j].data < qs[k].data
    OBVIOUS
  <2>1. j \in 1 .. c
    OBVIOUS
  <2>2. CASE k \in 1 .. c
    <3>1. ps[j].data < ps[k].data
      BY <2>1, <2>2 DEF Filling
    <3> QED BY <1>4, <2>1, <2>2, <3>1
  <2>3. CASE k = c + 1
    <3>1. ps[j].data <= n /\ ps[j].data \in Nat /\ qs[j] = ps[j]
      BY <1>4, <1>9, <1>10, <2>1
    <3> QED BY <1>1, <1>7, <2>3, <3>1
  <2> QED BY <1>11, <2>2, <2>3
<1>14. ASSUME NEW o \in OwnIn(w, s), o <= d PROVE \E k \in 1 .. c + 1 : qs[k].data = o
  <2>1. CASE o = d
    <3>1. c + 1 \in 1 .. c + 1
      OBVIOUS
    <3> QED BY <1>1, <2>1, <3>1
  <2>2. CASE o # d
    <3>1. o \in Nat
      BY DEF OwnIn
    <3>2. o <= n
      BY <1>7, <1>14, <2>2, <3>1
    <3>3. PICK k \in 1 .. c : ps[k].data = o
      BY <3>2 DEF Filling
    <3>4. k \in 1 .. c + 1
      OBVIOUS
    <3> QED BY <1>4, <3>3, <3>4
  <2> QED BY <2>1, <2>2
<1>15. ASSUME NEW j \in c + 2 .. l + h, NEW k \in c + 2 .. l + h, j < k
       PROVE  qs[j].filepos < qs[k].filepos
  <2>1. PICK a \in c + 1 .. l : a = j - h
    BY <1>6
  <2>2. PICK b \in c + 1 .. l : b = k - h
    BY <1>6
  <2>3. a < b
    <3>1. CASE h = 0
      BY <1>15, <2>1, <2>2, <3>1
    <3>2. CASE h = 1
      BY <1>15, <2>1, <2>2, <3>2
    <3> QED BY <3>1, <3>2
  <2>4. ps[a].filepos < ps[b].filepos
    BY <1>3, <2>3 DEF Filling, Ascending
  <2> QED BY <1>4, <2>1, <2>2, <2>4
<1>16. Ascending(qs, c + 1)
  <2>1. (c + 1) + 1 = c + 2
    OBVIOUS
  <2> QED BY <1>4, <1>15, <2>1 DEF Ascending
<1>17. \A k \in (c + 1) + 1 .. Len(qs) : Awaits(qs[k], w, s, d)
  <2>1. (c + 1) + 1 = c + 2
    OBVIOUS
  <2> QED BY <1>4, <1>8, <2>1
<1>18. c + 1 # 0 /\ c + 1 \in 0 .. Len(qs)
  BY <1>1
<1> HIDE DEF ps, qs
<1> QED BY <1>1, <1>12, <1>13, <1>14, <1>16, <1>17, <1>18 DEF Filling, qs

\* The block of another language leaves the queue alone.
LEMMA NotMine ==
    ASSUME NEW q, NEW w, NEW s, NEW n \in Nat, NEW c \in Nat, Filling(q, w, s, n, c),
           Len(w) \in Nat, NEW d \in Nat, d = n + 1, d \notin OwnIn(w, s)
    PROVE  Filling(q, w, s, d, c)
<1> DEFINE ps == q.packets
<1>1. \A o \in OwnIn(w, s) : o \in Nat /\ o # d
  BY DEF OwnIn
<1>2. \A k \in 1 .. c : ps[k].data \in OwnIn(w, s) /\ ps[k].data <= d
  <2> TAKE k \in 1 .. c
  <2>1. ps[k].data \in OwnIn(w, s) /\ ps[k].data <= n
    BY DEF Filling
  <2>2. ps[k].data \in Nat
    BY <1>1, <2>1
  <2> QED BY <2>1, <2>2
<1>3. \A o \in OwnIn(w, s) : o <= d => \E k \in 1 .. c : ps[k].data = o
  <2> SUFFICES ASSUME NEW o \in OwnIn(w, s), o <= d PROVE \E k \in 1 .. c : ps[k].data = o
    OBVIOUS
  <2>1. o <= n
    BY <1>1
  <2> QED BY <2>1 DEF Filling
<1>4. \A k \in c + 1 .. Len(ps) : Awaits(ps[k], w, s, d)
  <2> TAKE k \in c + 1 .. Len(ps)
  <2>1. Awaits(ps[k], w, s, n)
    BY DEF Filling
  <2>2. PICK o \in OwnIn(w, s) : o > n /\ ps[k].filepos = BlockAt(o) /\ ps[k].pts100 = Millis(w[o].pts) * PerMs
    BY <2>1 DEF Awaits
  <2>3. o > d
    BY <1>1, <2>2
  <2> QED BY <2>1, <2>2, <2>3 DEF Awaits
<1> QED BY <1>2, <1>3, <1>4 DEF Filling

LEMMA LateIs ==
    ASSUME NEW a \in Nat
    PROVE  /\ Millis(a) * PerMs - a \in Late
           /\ \E i \in Late : Millis(a) * PerMs = a + i
           /\ 0 \in Late /\ a = a + 0
<1> DEFINE b == IF a \in RoundedDown THEN a - 1 ELSE a
<1>1. b \in Int /\ a - 1 <= b /\ b <= a
  OBVIOUS
<1>2. (b \div 90) * 90 - b \in Int /\ -90 < (b \div 90) * 90 - b /\ (b \div 90) * 90 - b <= 0
  <2> HIDE DEF b
  <2> QED BY <1>1
<1>3. PICK m \in Nat : m = Millis(a)
  BY PartIs
<1>4. m = b \div 90
  BY <1>3 DEF Millis, PerMs
<1>5. m * 90 - a \in Int /\ -90 <= m * 90 - a /\ m * 90 - a <= 0
  <2> HIDE DEF b
  <2>1. (b \div 90) * 90 - b = m * 90 - b
    BY <1>4
  <2> QED BY <1>1, <1>2, <2>1
<1>6. m * PerMs - a \in Late /\ m * PerMs = a + (m * PerMs - a)
  BY <1>5 DEF Late, PerMs
<1>7. 0 \in Late
  BY DEF Late, PerMs
<1> QED BY <1>3, <1>6, <1>7

\* t is pts, at most a millisecond early.
Early(t, pts) == \E diff \in Late : t = pts + diff
TimeOf(w, d, pts) == w[d].pts = pts

\* It has its time, if those before it have.
LEMMA TimedGrows ==
    ASSUME NEW q, NEW w, NEW s, NEW n \in Nat, NEW c \in Nat, Filling(q, w, s, n, c),
           NEW d, Timed(q, w), NEW pts \in Nat, TimeOf(w, d, pts), NEW t, Early(t, pts),
           NEW a, Placed(q, a, w, c, d, t)
    PROVE  /\ Timed(Taken(a, d, pts), w)
           /\ Alone(a) \/ a.packets[a.current].pts100 - pts \in Late
<1> DEFINE r == Taken(a, d, pts)
           ps == q.packets
           qs == r.packets
<1>0. IsSeq(ps)
  BY DEF Filling, QueueIs
<1>1. /\ Len(qs) = Len(a.packets) /\ c + 1 \in 1 .. Len(a.packets)
      /\ qs[c + 1].data = d
      /\ qs[c + 1].pts100 = (IF Alone(a) THEN pts ELSE a.packets[c + 1].pts100)
      /\ a.current = c + 1
  <2>1. Took(a, r, c, d, pts)
    BY <1>0, TakenIs
  <2>2. a.current = c + 1
    BY DEF Placed
  <2> HIDE DEF r
  <2> QED BY <2>1, <2>2 DEF Took
<1>t. w[d].pts = pts
  BY DEF TimeOf
<1>2. ~Alone(a) => a.packets[c + 1].pts100 - pts \in Late /\ Near(qs[c + 1], w)
  <2> SUFFICES ASSUME ~Alone(a) PROVE a.packets[c + 1].pts100 - pts \in Late /\ Near(qs[c + 1], w)
    OBVIOUS
  <2>1. a.packets[c + 1].pts100 = t \/ a.packets[c + 1].pts100 = Millis(pts) * PerMs
    BY <1>t DEF Placed, Alone
  <2>2. CASE a.packets[c + 1].pts100 = t
    <3>0. PICK diff \in Late : t = pts + diff
      BY DEF Early
    <3>1. diff \in Int /\ (pts + diff) - pts = diff
      BY DEF Late
    <3>2. a.packets[c + 1].pts100 - pts \in Late
      BY <2>2, <3>0, <3>1
    <3>3. qs[c + 1].pts100 = w[qs[c + 1].data].pts + diff
      BY <1>1, <1>t, <2>2, <3>0
    <3> QED BY <3>2, <3>3 DEF Near
  <2>3. CASE a.packets[c + 1].pts100 = Millis(pts) * PerMs
    <3>1. a.packets[c + 1].pts100 - pts \in Late
      BY <2>3, LateIs
    <3>2. \E i \in Late : Millis(pts) * PerMs = pts + i
      BY LateIs
    <3>3. qs[c + 1].pts100 = Millis(pts) * PerMs /\ w[qs[c + 1].data].pts = pts
      BY <1>1, <1>t, <2>3
    <3> QED BY <3>1, <3>2, <3>3 DEF Near
  <2> QED BY <2>1, <2>2, <2>3
<1>3. Alone(a) => Near(qs[c + 1], w)
  <2>1. Alone(a) => qs[c + 1].pts100 = w[qs[c + 1].data].pts + 0
    BY <1>1, <1>t, LateIs
  <2> QED BY <2>1, LateIs DEF Near
<1>4. PICK h \in {0, 1} : Shape(ps, qs, c, h)
  <2>1. Gained(q, r, c, d)
    BY <1>0, GainedIs
  <2> HIDE DEF r
  <2> QED BY <2>1 DEF Gained
<1>5. PICK l \in Nat : l = Len(ps)
  BY <1>0, SeqDomain
<1>6. ASSUME NEW k \in 1 .. Len(qs) PROVE Near(qs[k], w)
  <2>1. Len(qs) = l + h
    BY <1>4, <1>5 DEF Shape
  <2>2. k = c + 1 \/ k \in 1 .. c \/ k \in c + 2 .. l + h
    BY <2>1
  <2>3. CASE k = c + 1
    BY <1>2, <1>3, <2>3
  <2>4. CASE k \in 1 .. c
    <3>1. c \in 0 .. Len(ps)
      BY DEF Filling
    <3>2. qs[k] = ps[k] /\ k \in 1 .. Len(ps)
      BY <1>4, <1>5, <2>4, <3>1 DEF Shape
    <3> QED BY <3>2 DEF Timed
  <2>5. CASE k \in c + 2 .. l + h
    <3>1. qs[k] = ps[k - h]
      BY <1>4, <2>1, <2>5 DEF Shape
    <3>2. k - h \in 1 .. l
      <4>1. CASE h = 0
        BY <2>5, <4>1
      <4>2. CASE h = 1
        BY <2>5, <4>2
      <4> QED BY <4>1, <4>2
    <3> QED BY <1>5, <3>1, <3>2 DEF Timed
  <2> QED BY <2>2, <2>3, <2>4, <2>5
<1>7. Timed(r, w)
  BY <1>6 DEF Timed
<1> HIDE DEF r
<1> QED BY <1>1, <1>2, <1>7 DEF r

-------------------------------------------------------------------------------
(***************************************************************************)
(* The lines that are read                                                 *)
(***************************************************************************)
LEMMA ListingEmpty ==
    ASSUME NEW x, NEW w, IndexRight(x, w), NEW s
    PROVE  Listing(EmptyQueue, x, s, 0)
<1>1. /\ EmptyQueue.packets = <<>> /\ EmptyQueue.current = 1
      /\ DOMAIN EmptyQueue = {"packets", "current"}
  BY DEF EmptyQueue
<1>2. LinesOf(x, s, 0) = {}
  <2>1. \A k \in StampsOf(x) : k \in 1 .. Len(x) /\ Len(x) \in Nat
    BY IndexFacts
  <2> QED BY <2>1 DEF LinesOf
<1> QED BY <1>1, <1>2, Nothing DEF Listing, QueueIs, Ascending

\* A line of another kind or another language
LEMMA ListingSame ==
    ASSUME NEW x, NEW w, IndexRight(x, w), NEW s, NEW l \in Nat, NEW q, Listing(q, x, s, l),
           l + 1 \in StampsOf(x) => LangOf(x, l + 1) # s
    PROVE  Listing(q, x, s, l + 1)
<1>1. \A k \in StampsOf(x) : k \in Nat
  BY IndexFacts
<1>2. ASSUME NEW m \in LinesOf(x, s, l) PROVE m \in LinesOf(x, s, l + 1)
  BY <1>1 DEF LinesOf
<1>3. ASSUME NEW m \in LinesOf(x, s, l + 1) PROVE m \in LinesOf(x, s, l)
  BY <1>1 DEF LinesOf
<1>4. LinesOf(x, s, l + 1) = LinesOf(x, s, l)
  BY <1>2, <1>3
<1> QED BY <1>4 DEF Listing

LEMMA ListingGrows ==
    ASSUME NEW x, NEW w, IndexRight(x, w), NEW s, NEW l \in Nat, NEW q, Listing(q, x, s, l),
           l + 1 \in StampsOf(x), LangOf(x, l + 1) = s
    PROVE  Listing([q EXCEPT !.packets = Append(@, Parsed(x[l + 1]))], x, s, l + 1)
<1> DEFINE ps == q.packets
           e == Parsed(x[l + 1])
           r == [q EXCEPT !.packets = Append(@, e)]
           qs == Append(ps, e)
<1>1. /\ DOMAIN q = {"packets", "current"} /\ IsSeq(ps) /\ q.current = 1
      /\ \A k \in 1 .. Len(ps) : DOMAIN ps[k] = {"pts100", "filepos", "data"}
  BY DEF Listing, QueueIs
<1>2. FromLine(e, x[l + 1]) /\ DOMAIN e = {"pts100", "filepos", "data"}
  BY DEF FromLine, Parsed, Entry
<1> HIDE DEF e
<1>3. DOMAIN r = {"packets", "current"} /\ r.packets = qs /\ r.current = 1
  BY <1>1
<1> HIDE DEF r
<1>4. PICK n \in Nat : n = Len(ps)
  BY <1>1, SeqDomain
<1>5. /\ IsSeq(qs) /\ Len(qs) = n + 1 /\ qs[n + 1] = e /\ \A k \in 1 .. n : qs[k] = ps[k]
  BY <1>1, <1>4, Appended
<1> HIDE DEF qs
<1>6. \A k \in 1 .. n + 1 : k \in 1 .. n \/ k = n + 1
  OBVIOUS
<1>7. QueueIs(r)
  <2> SUFFICES ASSUME NEW k \in 1 .. n + 1 PROVE DOMAIN qs[k] = {"pts100", "filepos", "data"}
    BY <1>3, <1>5 DEF QueueIs
  <2> QED BY <1>1, <1>2, <1>4, <1>5, <1>6
<1>8. \A k \in StampsOf(x) : k \in Nat
  BY IndexFacts
<1>9. ASSUME NEW m \in LinesOf(x, s, l) PROVE m \in LinesOf(x, s, l + 1) /\ m \in StampsOf(x) /\ m < l + 1
  BY <1>8 DEF LinesOf
<1>10. l + 1 \in LinesOf(x, s, l + 1)
  BY DEF LinesOf
<1>11. ASSUME NEW m \in LinesOf(x, s, l + 1) PROVE m = l + 1 \/ m \in LinesOf(x, s, l)
  BY <1>8 DEF LinesOf
<1>12. \A k \in 1 .. n : \E m \in LinesOf(x, s, l) : FromLine(ps[k], x[m])
  BY <1>4 DEF Listing
<1>13. \A k \in 1 .. n + 1 : \E m \in LinesOf(x, s, l + 1) : FromLine(qs[k], x[m])
  <2> TAKE k \in 1 .. n + 1
  <2>1. CASE k = n + 1
    BY <1>2, <1>5, <1>10, <2>1
  <2>2. CASE k \in 1 .. n
    <3>1. PICK m \in LinesOf(x, s, l) : FromLine(ps[k], x[m])
      BY <1>12, <2>2
    <3>2. m \in LinesOf(x, s, l + 1)
      BY <1>9
    <3> QED BY <1>5, <2>2, <3>1, <3>2
  <2> QED BY <1>6, <2>1, <2>2
<1>14. \A m \in LinesOf(x, s, l + 1) : \E k \in 1 .. n + 1 : qs[k].filepos = x[m].filepos
  <2> TAKE m \in LinesOf(x, s, l + 1)
  <2>1. CASE m = l + 1
    <3>1. n + 1 \in 1 .. n + 1 /\ e.filepos = x[l + 1].filepos
      BY <1>2 DEF FromLine
    <3> QED BY <1>5, <2>1, <3>1
  <2>2. CASE m \in LinesOf(x, s, l)
    <3>1. PICK k \in 1 .. n : ps[k].filepos = x[m].filepos
      BY <1>4, <2>2 DEF Listing
    <3>2. k \in 1 .. n + 1
      OBVIOUS
    <3> QED BY <1>5, <3>1, <3>2
  <2> QED BY <1>11, <2>1, <2>2
<1>15. \A j, k \in 1 .. n + 1 : j < k => qs[j].filepos < qs[k].filepos
  <2> SUFFICES ASSUME NEW j \in 1 .. n + 1, NEW k \in 1 .. n + 1, j < k PROVE qs[j].filepos < qs[k].filepos
    OBVIOUS
  <2>1. j \in 1 .. n
    OBVIOUS
  <2>2. CASE k = n + 1
    <3>1. PICK m \in LinesOf(x, s, l) : FromLine(ps[j], x[m])
      BY <1>12, <2>1
    <3>2. m \in StampsOf(x) /\ m < l + 1
      BY <1>9
    <3>3. x[m].filepos < x[l + 1].filepos
      BY <3>2 DEF IndexRight
    <3>4. qs[j].filepos = x[m].filepos /\ qs[k].filepos = x[l + 1].filepos
      BY <1>2, <1>5, <2>1, <2>2, <3>1 DEF FromLine
    <3> QED BY <3>3, <3>4
  <2>3. CASE k \in 1 .. n
    <3>1. ps[j].filepos < ps[k].filepos
      <4>1. j \in 0 + 1 .. Len(ps) /\ k \in 0 + 1 .. Len(ps)
        BY <1>4, <2>1, <2>3
      <4> QED BY <4>1 DEF Listing, Ascending
    <3> QED BY <1>5, <2>1, <2>3, <3>1
  <2> QED BY <1>6, <2>2, <2>3
<1>16. Ascending(qs, 0)
  <2>1. 0 + 1 = 1
    OBVIOUS
  <2> QED BY <1>5, <1>15, <2>1 DEF Ascending
<1>17. Listing(r, x, s, l + 1)
  <2> HIDE DEF ps
  <2> QED BY <1>3, <1>5, <1>7, <1>13, <1>14, <1>16 DEF Listing
<1> QED BY <1>17 DEF r, e

\* What the index says is what the blocks are, however much of it was read.
LEMMA ListingDone ==
    ASSUME NEW x, NEW w, IndexRight(x, w), Len(w) \in Nat, WrittenRight(w), NEW s, NEW l \in Nat,
           NEW q, Listing(q, x, s, l)
    PROVE  Filling(q, w, s, 0, 0) /\ Timed(q, w)
<1> DEFINE ps == q.packets
<1>1. QueueIs(q) /\ q.current = 1 /\ Ascending(ps, 0) /\ IsSeq(ps)
  BY DEF Listing, QueueIs
<1>2. PICK n \in Nat : n = Len(ps)
  BY <1>1, SeqDomain
<1>3. ASSUME NEW k \in 1 .. n PROVE Awaits(ps[k], w, s, 0)
  <2>1. PICK m \in LinesOf(x, s, l) : FromLine(ps[k], x[m])
    BY <1>2 DEF Listing
  <2>2. m \in StampsOf(x) /\ LangOf(x, m) = s
    BY DEF LinesOf
  <2>3. PICK d \in 1 .. Len(w) :
          x[m].filepos = BlockAt(d) /\ w[d].stream = LangOf(x, m) /\ Millis(w[d].pts) = x[m].ms
    BY <2>2 DEF IndexRight, Points
  <2>4. d \in OwnIn(w, s) /\ d > 0
    BY <2>2, <2>3 DEF OwnIn
  <2>5. ps[k].data = NoData /\ ps[k].filepos = BlockAt(d) /\ ps[k].pts100 = Millis(w[d].pts) * PerMs
    BY <2>1, <2>3 DEF FromLine
  <2> QED BY <2>4, <2>5 DEF Awaits
<1>4. ASSUME n > 0, NEW d \in OwnIn(w, s) PROVE ps[1].filepos <= BlockAt(d)
  <2>1. d \in 1 .. Len(w) /\ w[d].stream = s
    BY DEF OwnIn
  <2>2. PICK m \in StampsOf(x) : LangOf(x, m) = s /\ x[m].filepos <= BlockAt(d)
    BY <2>1 DEF IndexRight
  <2>3. 1 \in 1 .. n
    BY <1>4
  <2>4. PICK a \in LinesOf(x, s, l) : FromLine(ps[1], x[a])
    BY <1>2, <2>3 DEF Listing
  <2>5. a \in StampsOf(x) /\ a <= l /\ a \in Nat /\ m \in Nat
    BY IndexFacts DEF LinesOf
  <2>6. ASSUME NEW k \in StampsOf(x) PROVE x[k].filepos \in Nat
    <3>1. PICK o \in 1 .. Len(w) : x[k].filepos = BlockAt(o)
      BY <2>6 DEF IndexRight, Points
    <3>2. o \in Nat /\ o # 0
      OBVIOUS
    <3> QED BY <3>1, <3>2, BlockAtIs
  <2>7. x[a].filepos <= x[m].filepos
    <3>1. CASE m \in LinesOf(x, s, l)
      <4>1. PICK k \in 1 .. n : ps[k].filepos = x[m].filepos
        BY <1>2, <3>1 DEF Listing
      <4>2. k = 1 \/ 1 < k
        OBVIOUS
      <4>3. k = 1 \/ ps[1].filepos < ps[k].filepos
        <5>1. 1 \in 0 + 1 .. Len(ps) /\ k \in 0 + 1 .. Len(ps)
          BY <1>2, <2>3
        <5> QED BY <1>1, <4>2, <5>1 DEF Ascending
      <4>4. ps[1].filepos = x[a].filepos
        BY <2>4 DEF FromLine
      <4> QED BY <2>5, <2>6, <4>1, <4>3, <4>4
    <3>2. CASE m \notin LinesOf(x, s, l)
      <4>1. a < m
        BY <2>2, <2>5, <3>2 DEF LinesOf
      <4>2. x[a].filepos < x[m].filepos
        BY <2>5, <4>1 DEF IndexRight
      <4> QED BY <2>5, <2>6, <4>2
    <3> QED BY <3>1, <3>2
  <2>8. d \in Nat /\ d # 0
    BY <2>1
  <2>9. BlockAt(d) \in Nat /\ x[a].filepos \in Nat /\ x[m].filepos \in Nat
    BY <2>5, <2>6, <2>8, BlockAtIs
  <2>10. ps[1].filepos = x[a].filepos
    BY <2>4 DEF FromLine
  <2> QED BY <2>2, <2>7, <2>9, <2>10
<1>5. Filling(q, w, s, 0, 0)
  <2>1. 0 \in 0 .. Len(ps) /\ q.current = (IF 0 = 0 THEN 1 ELSE 0) /\ \A k \in 1 .. 0 : FALSE
    BY <1>1, <1>2
  <2>2. \A d \in OwnIn(w, s) : ~(d <= 0)
    BY DEF OwnIn
  <2>3. \A k \in 0 + 1 .. Len(ps) : Awaits(ps[k], w, s, 0)
    BY <1>2, <1>3
  <2>4. Len(ps) > 0 => \A d \in OwnIn(w, s) : ps[1].filepos <= BlockAt(d)
    BY <1>2, <1>4
  <2> QED BY <1>1, <2>1, <2>2, <2>3, <2>4 DEF Filling
<1>6. Timed(q, w)
  <2>1. \A k \in 1 .. Len(ps) : ps[k].data = NoData
    BY <1>2, <1>3 DEF Awaits
  <2> QED BY <2>1 DEF Timed, Near
<1> QED BY <1>5, <1>6

-------------------------------------------------------------------------------
(***************************************************************************)
(* The reader                                                              *)
(***************************************************************************)

\* What the files are when they are read
Files(x, f, w) == IndexRight(x, w) /\ FileRight(f, w) /\ WrittenRight(w)

LEMMA FilesAre ==
    ASSUME NEW x, NEW f, NEW w, Files(x, f, w)
    PROVE  Len(w) \in Nat /\ Len(x) \in Nat /\ Len(f) \in Nat /\ IsSeq(x) /\ DOMAIN f = 1 .. Len(f)
  BY SeqDomain DEF Files, FileRight, IndexRight, Sized

LEMMA ClosedIs ==
    /\ DOMAIN Closed = {"phase", "line", "element", "stream", "pts", "diff", "queue", "got"}
    /\ DOMAIN Closed.queue = Streams /\ \A s \in Streams : Closed.queue[s] = EmptyQueue
    /\ Closed.phase = "closed" /\ Closed.line = 1 /\ Closed.element = 1 /\ Closed.diff = 0
    /\ Closed.got = <<>>
  BY DEF Closed

LEMMA ClosedRight ==
    ASSUME NEW x, NEW f, NEW w, Files(x, f, w)
    PROVE  ReaderRight(Closed, x, f, w)
<1>1. Len(x) \in Nat /\ IndexRight(x, w)
  BY FilesAre DEF Files
<1>2. ReaderIs(Closed)
  BY ClosedIs DEF ReaderIs
<1>3. ReadsLines(Closed, x)
  <2>1. 1 \in 1 .. Len(x) + 1 /\ 1 - 1 = 0
    BY <1>1
  <2>2. \A i : ~IsLastId(x, 0, i)
    BY DEF IsLastId
  <2>3. \A s \in Streams : Listing(EmptyQueue, x, s, 0)
    BY <1>1, ListingEmpty
  <2> QED BY <2>1, <2>2, <2>3, ClosedIs DEF ReadsLines
<1> QED BY <1>2, <1>3, ClosedIs DEF ReaderRight

\* The index has been read as far as it goes.
LEMMA LinesRead ==
    ASSUME NEW x, NEW f, NEW w, Files(x, f, w), NEW r, ReadsLines(r, x)
    PROVE  HasBlocks(r, f, w, 0)
<1>1. /\ r.line \in 1 .. Len(x) + 1 /\ r.element = 1 /\ r.diff = 0
      /\ \A s \in Streams : Listing(r.queue[s], x, s, r.line - 1)
  BY DEF ReadsLines
<1>2. Len(w) \in Nat /\ Len(x) \in Nat /\ Len(f) \in Nat /\ DOMAIN f = 1 .. Len(f)
      /\ IndexRight(x, w) /\ WrittenRight(w) /\ FileRight(f, w)
  BY FilesAre DEF Files
<1>3. PICK l \in Nat : l = r.line - 1
  BY <1>1, <1>2
<1>4. ASSUME NEW s \in Streams PROVE Filling(r.queue[s], w, s, 0, 0) /\ Timed(r.queue[s], w)
  <2>1. Listing(r.queue[s], x, s, l)
    BY <1>1, <1>3
  <2> QED BY <1>2, <2>1, ListingDone
<1>5. ReadTo(f, 1, 0)
  <2> SUFFICES ASSUME NEW i \in PacketsOf(f) PROVE ~(i < 1) /\ ~(f[i].data <= 0)
    BY DEF ReadTo
  <2>1. i \in 1 .. Len(f)
    BY <1>2 DEF PacketsOf
  <2>2. f[i].data \in 1 .. Len(w)
    BY <1>2 DEF FileRight, InItsBlock
  <2> QED BY <1>2, <2>1, <2>2
<1>6. r.diff \in Late
  BY <1>1, LateIs
<1>7. r.element \in 1 .. Len(f) + 1
  BY <1>1, <1>2
<1> QED BY <1>1, <1>4, <1>5, <1>6, <1>7 DEF HasBlocks

LEMMA OpenInRight ==
    ASSUME NEW x, NEW f, NEW w, Files(x, f, w), NEW r, ReaderRight(r, x, f, w), r.phase = "closed",
           NEW phase \in {"index", "stream"}, NEW q, q = [r EXCEPT !.phase = phase]
    PROVE  ReaderRight(q, x, f, w)
<1>1. ReaderIs(r) /\ ReadsLines(r, x)
  BY DEF ReaderRight
<1>2. /\ q.line = r.line /\ q.element = r.element /\ q.stream = r.stream /\ q.diff = r.diff
      /\ q.queue = r.queue /\ q.got = r.got /\ q.phase = phase
      /\ DOMAIN q = {"phase", "line", "element", "stream", "pts", "diff", "queue", "got"}
  BY <1>1 DEF ReaderIs
<1>3. ReaderIs(q)
  BY <1>1, <1>2 DEF ReaderIs
<1>4. ReadsLines(q, x)
  BY <1>1, <1>2 DEF ReadsLines
<1>5. HasBlocks(q, f, w, 0)
  BY <1>4, LinesRead
<1>6. 0 \in 0 .. Len(w) /\ q.got = <<>>
  BY <1>1, <1>2, FilesAre DEF ReadsLines
<1> QED BY <1>2, <1>3, <1>4, <1>5, <1>6 DEF ReaderRight

LEMMA EndIndexRight ==
    ASSUME NEW x, NEW f, NEW w, Files(x, f, w), NEW r, ReaderRight(r, x, f, w), r.phase = "index",
           NEW q, q = [r EXCEPT !.phase = "stream"]
    PROVE  ReaderRight(q, x, f, w)
<1>1. ReaderIs(r) /\ ReadsLines(r, x)
  BY DEF ReaderRight
<1>2. /\ q.line = r.line /\ q.element = r.element /\ q.stream = r.stream /\ q.diff = r.diff
      /\ q.queue = r.queue /\ q.got = r.got /\ q.phase = "stream"
      /\ DOMAIN q = {"phase", "line", "element", "stream", "pts", "diff", "queue", "got"}
  BY <1>1 DEF ReaderIs
<1>3. ReaderIs(q)
  BY <1>1, <1>2 DEF ReaderIs
<1>4. ReadsLines(q, x)
  BY <1>1, <1>2 DEF ReadsLines
<1>5. HasBlocks(q, f, w, 0)
  BY <1>4, LinesRead
<1>6. 0 \in 0 .. Len(w) /\ q.got = <<>>
  BY <1>1, <1>2, FilesAre DEF ReadsLines
<1> QED BY <1>2, <1>3, <1>5, <1>6 DEF ReaderRight

\* The language of a time stamp is that of the last id read.
LEMMA StreamIs ==
    ASSUME NEW x, NEW f, NEW w, Files(x, f, w), NEW r, ReadsLines(r, x),
           NEW k \in StampsOf(x), k = r.line
    PROVE  r.stream = LangOf(x, k) /\ r.stream \in Streams
<1>1. IndexRight(x, w) /\ WrittenRight(w)
  BY DEF Files
<1>2. k \in Nat /\ x[k].kind = "timestamp"
  BY <1>1, IndexFacts
<1>3. PICK n \in 1 .. k : x[n].kind = "id"
  BY <1>1, IndexFacts
<1>4. PICK i : IsLastId(x, k, i)
  BY <1>2, <1>3, LastIdExists
<1>5. i \in 1 .. k /\ x[i].kind = "id" /\ \A m \in i + 1 .. k : x[m].kind # "id"
  BY <1>4 DEF IsLastId
<1>6. i \in 1 .. k - 1 /\ \A m \in i + 1 .. k - 1 : m \in i + 1 .. k
  BY <1>2, <1>5
<1>7. IsLastId(x, r.line - 1, i)
  BY <1>5, <1>6 DEF IsLastId
<1>8. r.stream = x[i].index
  BY <1>7 DEF ReadsLines
<1>9. LangOf(x, k) = x[i].index
  BY <1>2, <1>4, LangIs
<1>10. PICK d \in 1 .. Len(w) : w[d].stream = LangOf(x, k)
  BY <1>1 DEF IndexRight, Points
<1> QED BY <1>1, <1>8, <1>9, <1>10 DEF WrittenRight

\* What one line does to the reader
LineRead(r, q, l) ==
    /\ q.line = r.line + 1
    /\ q.stream = (IF l.kind = "id" THEN l.index ELSE r.stream)
    /\ q.queue = (IF l.kind = "timestamp" THEN Listed(r.queue, r.stream, l) ELSE r.queue)
    /\ q.phase = r.phase /\ q.element = r.element /\ q.diff = r.diff /\ q.got = r.got

LEMMA ParseLineRight ==
    ASSUME NEW x, NEW f, NEW w, Files(x, f, w), NEW r, ReaderIs(r), ReadsLines(r, x),
           r.line <= Len(x), NEW q, LineRead(r, q, x[r.line])
    PROVE  ReadsLines(q, x) /\ DOMAIN q.queue = Streams
<1> DEFINE line == x[r.line]
<1>1. Len(x) \in Nat /\ IndexRight(x, w) /\ DOMAIN x = 1 .. Len(x)
  BY FilesAre, SeqDomain DEF Files
<1>2. /\ r.line \in 1 .. Len(x) + 1 /\ r.element = 1 /\ r.diff = 0 /\ r.got = <<>>
      /\ \A i : IsLastId(x, r.line - 1, i) => r.stream = x[i].index
      /\ \A s \in Streams : Listing(r.queue[s], x, s, r.line - 1)
  BY DEF ReadsLines
<1>3. PICK l \in Nat : l = r.line - 1 /\ r.line = l + 1 /\ l + 1 \in 1 .. Len(x)
  BY <1>1, <1>2
<1>4. line.kind = "timestamp" <=> l + 1 \in StampsOf(x)
  BY <1>1, <1>3 DEF StampsOf
<1>5. q.line = l + 2 /\ q.line - 1 = l + 1 /\ q.line \in 1 .. Len(x) + 1
  BY <1>1, <1>3 DEF LineRead
<1>6. ASSUME NEW i, IsLastId(x, l + 1, i) PROVE q.stream = x[i].index
  <2>1. i \in 1 .. l + 1 /\ x[i].kind = "id" /\ \A m \in i + 1 .. l + 1 : x[m].kind # "id"
    BY <1>6 DEF IsLastId
  <2>2. CASE i = l + 1
    BY <1>3, <2>1, <2>2 DEF LineRead
  <2>3. CASE i # l + 1
    <3>1. i \in 1 .. l /\ l + 1 \in i + 1 .. l + 1 /\ \A m \in i + 1 .. l : m \in i + 1 .. l + 1
      BY <2>1, <2>3
    <3>2. line.kind # "id"
      BY <1>3, <2>1, <3>1
    <3>3. IsLastId(x, l, i)
      BY <2>1, <3>1 DEF IsLastId
    <3> QED BY <1>2, <1>3, <3>2, <3>3 DEF LineRead
  <2> QED BY <2>2, <2>3
<1>7. DOMAIN r.queue = Streams
  BY DEF ReaderIs
<1>8. CASE line.kind = "timestamp"
  <2>1. r.stream = LangOf(x, l + 1) /\ r.stream \in Streams
    BY <1>3, <1>4, <1>8, StreamIs
  <2>2. q.queue = [r.queue EXCEPT ![r.stream].packets = Append(@, Parsed(line))]
    BY <1>8 DEF LineRead, Listed
  <2>3. /\ DOMAIN q.queue = Streams
        /\ q.queue[r.stream] = [r.queue[r.stream] EXCEPT !.packets = Append(@, Parsed(line))]
        /\ \A s \in Streams : s # r.stream => q.queue[s] = r.queue[s]
    BY <1>7, <2>1, <2>2
  <2>4. ASSUME NEW s \in Streams PROVE Listing(q.queue[s], x, s, l + 1)
    <3>1. Listing(r.queue[s], x, s, l)
      BY <1>2, <1>3
    <3>2. CASE s = r.stream
      <4>1. Listing([r.queue[s] EXCEPT !.packets = Append(@, Parsed(x[l + 1]))], x, s, l + 1)
        BY <1>1, <1>4, <1>8, <2>1, <3>1, <3>2, ListingGrows
      <4> QED BY <1>3, <2>3, <3>2, <4>1
    <3>3. CASE s # r.stream
      <4>1. Listing(r.queue[s], x, s, l + 1)
        BY <1>1, <2>1, <3>1, <3>3, ListingSame
      <4> QED BY <2>3, <3>3, <4>1
    <3> QED BY <3>2, <3>3
  <2> QED BY <1>2, <1>5, <1>6, <2>3, <2>4 DEF ReadsLines, LineRead
<1>9. CASE line.kind # "timestamp"
  <2>1. q.queue = r.queue
    BY <1>9 DEF LineRead
  <2>2. ASSUME NEW s \in Streams PROVE Listing(q.queue[s], x, s, l + 1)
    <3>1. Listing(r.queue[s], x, s, l)
      BY <1>2, <1>3
    <3>2. l + 1 \notin StampsOf(x)
      BY <1>4, <1>9
    <3> QED BY <1>1, <2>1, <3>1, <3>2, ListingSame
  <2> QED BY <1>2, <1>5, <1>6, <1>7, <2>1, <2>2 DEF ReadsLines, LineRead
<1> QED BY <1>8, <1>9

\* The next packet has the next block.
LEMMA NextBlock ==
    ASSUME NEW x, NEW f, NEW w, Files(x, f, w), NEW e \in PacketsOf(f), NEW n \in 0 .. Len(w),
           ReadTo(f, e, n)
    PROVE  /\ f[e].data = n + 1 /\ n + 1 \in 1 .. Len(w) /\ InItsBlock(f, w, e)
           /\ ReadTo(f, e + 1, n + 1)
<1>1. /\ Len(w) \in Nat /\ Len(f) \in Nat /\ DOMAIN f = 1 .. Len(f) /\ FileRight(f, w)
  BY FilesAre DEF Files
<1>2. \A i \in PacketsOf(f) : i \in Nat /\ f[i].data \in 1 .. Len(w) /\ InItsBlock(f, w, i)
  BY <1>1 DEF FileRight, InItsBlock, PacketsOf
<1>3. \A i, j \in PacketsOf(f) : i < j => f[i].data < f[j].data
  BY <1>1 DEF FileRight
<1>4. \A i \in PacketsOf(f) : i < e <=> f[i].data <= n
  BY DEF ReadTo
<1>5. PICK d \in 1 .. Len(w) : d = f[e].data
  BY <1>2
<1>6. d >= n + 1 /\ n + 1 \in 1 .. Len(w)
  <2>1. ~(e < e)
    BY <1>2
  <2>2. ~(d <= n)
    BY <1>4, <1>5, <2>1
  <2> QED BY <1>1, <2>2
<1>7. PICK i \in PacketsOf(f) : f[i].data = n + 1
  BY <1>1, <1>6 DEF FileRight
<1>8. ~(i < e)
  <2>1. ~(n + 1 <= n)
    OBVIOUS
  <2> QED BY <1>4, <1>7, <2>1
<1>9. ~(e < i)
  <2>1. e < i => d < n + 1
    BY <1>3, <1>5, <1>7
  <2> QED BY <1>6, <2>1
<1>10. i = e
  BY <1>2, <1>8, <1>9
<1>11. f[e].data = n + 1
  BY <1>7, <1>10
<1>12. ASSUME NEW k \in PacketsOf(f) PROVE k < e + 1 <=> f[k].data <= n + 1
  <2>1. f[k].data \in Nat /\ k \in Nat /\ e \in Nat /\ n \in Nat
    BY <1>1, <1>2
  <2>2. CASE k < e
    <3>1. f[k].data <= n
      BY <1>4, <2>2
    <3> QED BY <2>1, <2>2, <3>1
  <2>3. CASE k = e
    BY <1>11, <2>1, <2>3
  <2>4. CASE e < k
    <3>1. n + 1 < f[k].data
      BY <1>3, <1>11, <2>4
    <3> QED BY <2>1, <2>4, <3>1
  <2> QED BY <2>1, <2>2, <2>3, <2>4
<1> QED BY <1>2, <1>6, <1>11, <1>12 DEF ReadTo

\* Anything else is passed over.
LEMMA PassedOver ==
    ASSUME NEW x, NEW f, NEW w, Files(x, f, w), NEW r, NEW n, HasBlocks(r, f, w, n),
           r.element <= Len(f), r.element \notin PacketsOf(f), NEW q, q.element = r.element + 1,
           q.pts = r.pts, q.diff = r.diff, q.queue = r.queue
    PROVE  HasBlocks(q, f, w, n)
<1>1. Len(f) \in Nat /\ DOMAIN f = 1 .. Len(f)
  BY FilesAre
<1>2. r.element \in 1 .. Len(f) + 1 /\ ReadTo(f, r.element, n)
  BY DEF HasBlocks
<1>3. PICK e \in 1 .. Len(f) : e = r.element /\ q.element = e + 1
  BY <1>1, <1>2
<1>4. q.element \in 1 .. Len(f) + 1
  BY <1>1, <1>3
<1>5. \A i \in PacketsOf(f) : i < e + 1 <=> i < e
  <2> TAKE i \in PacketsOf(f)
  <2>1. i \in 1 .. Len(f) /\ i # e
    BY <1>1, <1>3 DEF PacketsOf
  <2> QED BY <1>1, <2>1
<1>6. ReadTo(f, q.element, n)
  BY <1>2, <1>3, <1>5 DEF ReadTo
<1> QED BY <1>4, <1>6 DEF HasBlocks

\* The packet p is read: q is r with its data at place a of its queue.
PacketTaken(r, q, p, pos, a, pts, t) ==
    /\ pts = (IF p.pts = Unset THEN r.pts ELSE p.pts)
    /\ t = pts + r.diff
    /\ a = Place(Reached(Begun(r.queue[p.aid]), pos), t)
    /\ q.element = r.element + 1 /\ q.pts = pts
    /\ q.diff = (IF Alone(a) THEN r.diff ELSE a.packets[a.current].pts100 - pts)
    /\ q.queue = [r.queue EXCEPT ![p.aid] = Taken(a, p.data, pts)]

\* The block is in the queue of its language.
LEMMA PacketRead ==
    ASSUME NEW x, NEW f, NEW w, Files(x, f, w), NEW r, ReaderIs(r), NEW n \in 0 .. Len(w),
           HasBlocks(r, f, w, n), r.element \in PacketsOf(f),
           NEW q, NEW a, NEW pts, NEW t,
           PacketTaken(r, q, f[r.element], Through(f, r.element - 1), a, pts, t)
    PROVE  (\E m \in 0 .. Len(w) : HasBlocks(q, f, w, m)) /\ DOMAIN q.queue = Streams
<1>1. /\ Len(w) \in Nat /\ Len(f) \in Nat /\ DOMAIN f = 1 .. Len(f) /\ WrittenRight(w) /\ n \in Nat
  BY FilesAre DEF Files
<1>e. PICK e \in 1 .. Len(f) : e = r.element /\ e \in PacketsOf(f)
  BY <1>1 DEF PacketsOf
<1>d. PICK d \in Nat : d = n + 1
  BY <1>1
<1> DEFINE aid == f[e].aid
           u == r.queue[aid]
           b == Taken(a, d, pts)
<1>2. /\ ReadTo(f, e, n)
      /\ \A s \in Streams : \E c \in Nat : Filling(r.queue[s], w, s, n, c)
  BY <1>e DEF HasBlocks
<1>3. /\ f[e].data = d /\ d \in 1 .. Len(w) /\ InItsBlock(f, w, e) /\ ReadTo(f, e + 1, d)
  <2>1. /\ f[e].data = n + 1 /\ n + 1 \in 1 .. Len(w) /\ InItsBlock(f, w, e)
        /\ ReadTo(f, e + 1, n + 1)
    BY <1>e, <1>2, NextBlock
  <2> QED BY <1>d, <2>1
<1>p. PICK pos : pos = Through(f, e - 1)
  OBVIOUS
<1>4. aid = w[d].stream /\ pos = BlockAt(d) + 14 /\ Dated(f[e], w)
  BY <1>3, <1>p DEF InItsBlock
<1>5. aid \in Streams /\ w[d].pts \in Nat
  BY <1>1, <1>3, <1>4 DEF WrittenRight
<1>t. PacketTaken(r, q, f[e], pos, a, pts, t)
  BY <1>e, <1>p
<1>a. a = Place(Reached(Begun(u), pos), t) /\ t = pts + r.diff
  BY <1>t DEF PacketTaken
<1>q. /\ q.element = e + 1 /\ q.pts = pts
      /\ q.diff = (IF Alone(a) THEN r.diff ELSE a.packets[a.current].pts100 - pts)
      /\ q.queue = [r.queue EXCEPT ![aid] = b]
  BY <1>e, <1>3, <1>t DEF PacketTaken
<1>6. d \in OwnIn(w, aid)
  BY <1>3, <1>4 DEF OwnIn
<1>7. PICK c \in Nat : Filling(u, w, aid, n, c)
  BY <1>2, <1>5
<1>9. Placed(u, a, w, c, d, t)
  <2>1. Placed(u, Place(Reached(Begun(u), pos), t), w, c, d, t)
    <3> HIDE DEF u, aid
    <3> QED BY <1>1, <1>d, <1>4, <1>6, <1>7, PlacedIs
  <2> QED BY <1>a, <2>1
<1>10. IsSeq(u.packets)
  BY <1>7 DEF Filling, QueueIs
<1>11. /\ DOMAIN q.queue = Streams /\ q.queue[aid] = b
       /\ \A s \in Streams : s # aid => q.queue[s] = r.queue[s]
  BY <1>5, <1>q DEF ReaderIs
<1> HIDE DEF u, aid
<1>12. Filling(b, w, aid, d, c + 1)
  <2>1. Gained(u, b, c, d)
    BY <1>9, <1>10, GainedIs
  <2> HIDE DEF b
  <2> QED BY <1>1, <1>d, <1>6, <1>7, <2>1, Grows
<1>13. ASSUME NEW s \in Streams, s # aid PROVE \E m \in Nat : Filling(q.queue[s], w, s, d, m)
  <2>1. PICK m \in Nat : Filling(r.queue[s], w, s, n, m)
    BY <1>2
  <2>2. d \notin OwnIn(w, s)
    BY <1>4, <1>13 DEF OwnIn, aid
  <2>3. Filling(r.queue[s], w, s, d, m)
    BY <1>1, <1>d, <2>1, <2>2, NotMine
  <2> QED BY <1>11, <1>13, <2>3
<1>14. \A s \in Streams : \E m \in Nat : Filling(q.queue[s], w, s, d, m)
  <2> TAKE s \in Streams
  <2>1. CASE s = aid
    <3>1. c + 1 \in Nat
      OBVIOUS
    <3> HIDE DEF b
    <3> QED BY <1>11, <1>12, <2>1, <3>1
  <2>2. CASE s # aid
    BY <1>13, <2>2
  <2> QED BY <2>1, <2>2
<1>15. ASSUME AllStamped(w)
       PROVE  q.diff \in Late /\ q.pts = w[d].pts /\ \A s \in Streams : Timed(q.queue[s], w)
  <2>1. /\ r.diff \in Late /\ (n > 0 => r.pts = w[n].pts)
        /\ \A s \in Streams : Timed(r.queue[s], w)
    BY <1>15 DEF HasBlocks
  <2>2. pts = w[d].pts
    <3>1. w[d].stamped
      BY <1>3, <1>15 DEF AllStamped
    <3>2. f[e].pts = w[d].pts \/ (f[e].pts = Unset /\ d > 1 /\ w[d - 1].pts = w[d].pts)
      BY <1>3, <1>4, <3>1 DEF Dated
    <3>3. w[d].pts # Unset
      BY <1>5 DEF Unset
    <3>4. d - 1 = n /\ (d > 1 => n > 0)
      BY <1>1, <1>d
    <3>5. pts = (IF f[e].pts = Unset THEN r.pts ELSE f[e].pts)
      BY <1>t DEF PacketTaken
    <3> QED BY <2>1, <3>2, <3>3, <3>4, <3>5
  <2>3. TimeOf(w, d, pts) /\ pts \in Nat /\ Early(t, pts)
    BY <1>5, <1>a, <2>1, <2>2 DEF TimeOf, Early
  <2>4. Timed(u, w)
    BY <1>5, <2>1 DEF u
  <2>5. /\ Timed(b, w) /\ (Alone(a) \/ a.packets[a.current].pts100 - pts \in Late)
    BY <1>1, <1>7, <1>9, <2>3, <2>4, TimedGrows
  <2>6. q.diff \in Late
    BY <1>q, <2>1, <2>5
  <2>7. \A s \in Streams : Timed(q.queue[s], w)
    <3> HIDE DEF b
    <3> QED BY <1>11, <2>1, <2>5
  <2> QED BY <1>q, <2>2, <2>6, <2>7
<1>16. q.element \in 1 .. Len(f) + 1
  BY <1>1, <1>q
<1>17. HasBlocks(q, f, w, d)
  BY <1>3, <1>q, <1>14, <1>15, <1>16 DEF HasBlocks
<1>18. d \in 0 .. Len(w)
  BY <1>1, <1>3
<1> QED BY <1>11, <1>17, <1>18

LEMMA ReadElementRight ==
    ASSUME Files(idx, sub, written), ReaderInv, ReadElement
    PROVE  ReaderRight(reader', idx, sub, written)
<1> DEFINE e == sub[reader.element]
           pos == Through(sub, reader.element - 1)
           pts == IF e.pts = Unset THEN reader.pts ELSE e.pts
           t == pts + reader.diff
           a == Place(Reached(Begun(reader.queue[e.aid]), pos), t)
           r == IF e.kind = "packet" THEN Fill(e, pos, pts) ELSE reader
<1>1. /\ reader.phase = "stream" /\ reader.element <= Len(sub)
      /\ reader' = [r EXCEPT !.element = @ + 1]
  BY DEF ReadElement
<1>2. ReaderIs(reader) /\ reader.got = <<>>
  BY <1>1 DEF ReaderInv, ReaderRight
<1>3. PICK n \in 0 .. Len(written) : HasBlocks(reader, sub, written, n)
  BY <1>1 DEF ReaderInv, ReaderRight
<1>4. reader.element \in 1 .. Len(sub) /\ DOMAIN sub = 1 .. Len(sub) /\ Len(sub) \in Nat
  <2>1. reader.element \in 1 .. Len(sub) + 1 /\ DOMAIN sub = 1 .. Len(sub) /\ Len(sub) \in Nat
    BY <1>3, FilesAre DEF HasBlocks
  <2> QED BY <1>1, <2>1
<1>5. e.kind = "packet" <=> reader.element \in PacketsOf(sub)
  BY <1>4 DEF PacketsOf
<1>6. DOMAIN reader = {"phase", "line", "element", "stream", "pts", "diff", "queue", "got"}
      /\ DOMAIN reader.queue = Streams
  BY <1>2 DEF ReaderIs
<1>7. CASE e.kind # "packet"
  <2>1. reader' = [reader EXCEPT !.element = @ + 1]
    BY <1>1, <1>7
  <2>2. /\ reader'.element = reader.element + 1 /\ reader'.pts = reader.pts
        /\ reader'.diff = reader.diff /\ reader'.queue = reader.queue
        /\ reader'.phase = "stream" /\ reader'.got = reader.got
        /\ DOMAIN reader' = DOMAIN reader
    BY <1>1, <1>6, <2>1
  <2>3. HasBlocks(reader', sub, written, n)
    BY <1>1, <1>3, <1>5, <1>7, <2>2, PassedOver
  <2>4. ReaderIs(reader')
    BY <1>6, <2>2 DEF ReaderIs
  <2> QED BY <1>2, <2>2, <2>3, <2>4 DEF ReaderRight
<1>8. CASE e.kind = "packet"
  <2> DEFINE b == Taken(a, e.data, pts)
             diff == IF Alone(a) THEN reader.diff ELSE a.packets[a.current].pts100 - pts
  <2>1. r = [reader EXCEPT !.pts = pts, !.diff = diff, !.queue[e.aid] = b]
    BY <1>8 DEF Fill
  <2> HIDE DEF b, diff, pts, e
  <2>2. /\ r.element = reader.element /\ r.pts = pts /\ r.diff = diff
        /\ r.queue = [reader.queue EXCEPT ![e.aid] = b]
        /\ r.phase = reader.phase /\ r.got = reader.got /\ DOMAIN r = DOMAIN reader
    BY <1>6, <2>1
  <2> HIDE DEF r
  <2>3. /\ reader'.element = reader.element + 1 /\ reader'.pts = pts /\ reader'.diff = diff
        /\ reader'.queue = [reader.queue EXCEPT ![e.aid] = b]
        /\ reader'.phase = "stream" /\ reader'.got = <<>> /\ DOMAIN reader' = DOMAIN reader
    BY <1>1, <1>2, <1>6, <2>2
  <2>4. PacketTaken(reader, reader', e, pos, a, pts, t)
    <3>1. pts = (IF e.pts = Unset THEN reader.pts ELSE e.pts)
      BY DEF pts
    <3> QED BY <2>3, <3>1 DEF PacketTaken, b, diff
  <2>5. PacketTaken(reader, reader', sub[reader.element], Through(sub, reader.element - 1), a, pts, t)
    BY <2>4 DEF e
  <2> HIDE DEF a, t, pos
  <2>6. (\E m \in 0 .. Len(written) : HasBlocks(reader', sub, written, m)) /\ DOMAIN reader'.queue = Streams
    BY <1>2, <1>3, <1>5, <1>8, <2>5, PacketRead
  <2>7. ReaderIs(reader')
    BY <1>6, <2>3, <2>6 DEF ReaderIs
  <2> QED BY <2>3, <2>6, <2>7 DEF ReaderRight
<1> QED BY <1>7, <1>8

LEMMA ParseLineStep ==
    ASSUME Files(idx, sub, written), ReaderInv, ParseLine
    PROVE  ReaderRight(reader', idx, sub, written)
<1> DEFINE l == idx[reader.line]
           stream == IF l.kind = "id" THEN l.index ELSE reader.stream
           queue == IF l.kind = "timestamp" THEN Listed(reader.queue, reader.stream, l) ELSE reader.queue
<1>1. /\ reader.phase = "index" /\ reader.line <= Len(idx)
      /\ reader' = [reader EXCEPT !.line = @ + 1, !.stream = stream, !.queue = queue]
  BY DEF ParseLine
<1>2. ReaderIs(reader) /\ ReadsLines(reader, idx)
  BY <1>1 DEF ReaderInv, ReaderRight
<1>3. DOMAIN reader = {"phase", "line", "element", "stream", "pts", "diff", "queue", "got"}
  BY <1>2 DEF ReaderIs
<1> HIDE DEF stream, queue
<1>4. /\ reader'.line = reader.line + 1 /\ reader'.stream = stream /\ reader'.queue = queue
      /\ reader'.phase = reader.phase /\ reader'.element = reader.element
      /\ reader'.diff = reader.diff /\ reader'.got = reader.got
      /\ DOMAIN reader' = DOMAIN reader
  BY <1>1, <1>3
<1>5. LineRead(reader, reader', idx[reader.line])
  BY <1>4 DEF LineRead, stream, queue
<1>6. ReadsLines(reader', idx) /\ DOMAIN reader'.queue = Streams
  BY <1>1, <1>2, <1>5, ParseLineRight
<1>7. ReaderIs(reader')
  BY <1>1, <1>3, <1>4, <1>6 DEF ReaderIs
<1> QED BY <1>1, <1>4, <1>6, <1>7 DEF ReaderRight

LEMMA EndStreamStep ==
    ASSUME Files(idx, sub, written), ReaderInv, EndStream
    PROVE  ReaderRight(reader', idx, sub, written)
<1>1. PICK s \in Streams : /\ reader.phase = "stream"
                           /\ reader' = [reader EXCEPT !.phase = "read", !.stream = s, !.line = 1]
  BY DEF EndStream
<1>2. ReaderIs(reader) /\ reader.got = <<>>
  BY <1>1 DEF ReaderInv, ReaderRight
<1>3. PICK n \in 0 .. Len(written) : HasBlocks(reader, sub, written, n)
  BY <1>1 DEF ReaderInv, ReaderRight
<1>4. /\ reader'.phase = "read" /\ reader'.stream = s /\ reader'.line = 1
      /\ reader'.element = reader.element /\ reader'.pts = reader.pts
      /\ reader'.diff = reader.diff /\ reader'.queue = reader.queue /\ reader'.got = reader.got
      /\ DOMAIN reader' = {"phase", "line", "element", "stream", "pts", "diff", "queue", "got"}
  BY <1>1, <1>2 DEF ReaderIs
<1>5. ReaderIs(reader') /\ HasBlocks(reader', sub, written, n)
  BY <1>2, <1>3, <1>4 DEF ReaderIs, HasBlocks
<1>6. HandsOut(reader')
  <2>1. PICK c \in Nat : Filling(reader.queue[s], written, s, n, c)
    BY <1>3 DEF HasBlocks
  <2>2. Len(reader.queue[s].packets) \in Nat
    BY <2>1, SeqDomain DEF Filling, QueueIs
  <2>3. 1 \in 1 .. Len(reader.queue[s].packets) + 1 /\ 1 - 1 = 0 /\ \A k \in 1 .. 0 : FALSE
    BY <2>2
  <2> QED BY <1>2, <1>4, <2>3, Nothing DEF HandsOut, HandedOut
<1> QED BY <1>4, <1>5, <1>6 DEF ReaderRight

LEMMA GetNextStep ==
    ASSUME Files(idx, sub, written), ReaderInv, GetNext
    PROVE  ReaderRight(reader', idx, sub, written)
<1> DEFINE q == reader.queue[reader.stream].packets
<1>1. /\ reader.phase = "read"
      /\ reader' = IF reader.line > Len(q) THEN [reader EXCEPT !.phase = "done"]
                   ELSE [reader EXCEPT !.line = @ + 1, !.got = Append(@, q[reader.line])]
  BY DEF GetNext
<1>2. ReaderIs(reader) /\ HandsOut(reader)
  BY <1>1 DEF ReaderInv, ReaderRight
<1>3. PICK n \in 0 .. Len(written) : HasBlocks(reader, sub, written, n)
  BY <1>1 DEF ReaderInv, ReaderRight
<1>4. DOMAIN reader = {"phase", "line", "element", "stream", "pts", "diff", "queue", "got"}
  BY <1>2 DEF ReaderIs
<1>5. /\ reader.stream \in Streams /\ reader.line \in 1 .. Len(q) + 1
      /\ HandedOut(reader.got, q, reader.line - 1)
  BY <1>2 DEF HandsOut
<1>6. CASE reader.line > Len(q)
  <2>1. reader' = [reader EXCEPT !.phase = "done"]
    BY <1>1, <1>6
  <2>2. /\ reader'.phase = "done" /\ reader'.stream = reader.stream /\ reader'.line = reader.line
        /\ reader'.element = reader.element /\ reader'.pts = reader.pts
        /\ reader'.diff = reader.diff /\ reader'.queue = reader.queue /\ reader'.got = reader.got
        /\ DOMAIN reader' = DOMAIN reader
    BY <1>4, <2>1
  <2>3. ReaderIs(reader') /\ HasBlocks(reader', sub, written, n) /\ HandsOut(reader')
    BY <1>2, <1>3, <1>4, <2>2 DEF ReaderIs, HasBlocks, HandsOut
  <2> QED BY <1>6, <2>2, <2>3 DEF ReaderRight
<1>7. CASE ~(reader.line > Len(q))
  <2>1. reader' = [reader EXCEPT !.line = @ + 1, !.got = Append(@, q[reader.line])]
    BY <1>1, <1>7
  <2> HIDE DEF q
  <2>2. /\ reader'.phase = "read" /\ reader'.stream = reader.stream /\ reader'.line = reader.line + 1
        /\ reader'.element = reader.element /\ reader'.pts = reader.pts
        /\ reader'.diff = reader.diff /\ reader'.queue = reader.queue
        /\ reader'.got = Append(reader.got, q[reader.line])
        /\ DOMAIN reader' = DOMAIN reader
    BY <1>1, <1>4, <2>1
  <2>3. ReaderIs(reader') /\ HasBlocks(reader', sub, written, n)
    BY <1>2, <1>3, <1>4, <2>2 DEF ReaderIs, HasBlocks
  <2>4. Len(q) \in Nat
    <3>1. PICK c \in Nat : Filling(reader.queue[reader.stream], written, reader.stream, n, c)
      BY <1>3, <1>5 DEF HasBlocks
    <3> QED BY <3>1, SeqDomain DEF Filling, QueueIs, q
  <2>5. PICK l \in Nat : reader.line = l + 1 /\ l = reader.line - 1 /\ l + 1 \in 1 .. Len(q)
    BY <1>5, <1>7, <2>4
  <2>6. IsSeq(reader.got) /\ Len(reader.got) = l /\ \A k \in 1 .. l : reader.got[k] = q[k]
    BY <1>5, <2>5 DEF HandedOut
  <2>7. /\ IsSeq(reader'.got) /\ Len(reader'.got) = l + 1 /\ reader'.got[l + 1] = q[l + 1]
        /\ \A k \in 1 .. l : reader'.got[k] = reader.got[k]
    BY <2>2, <2>5, <2>6, Appended
  <2>8. \A k \in 1 .. l + 1 : k \in 1 .. l \/ k = l + 1
    OBVIOUS
  <2>9. \A k \in 1 .. l + 1 : reader'.got[k] = q[k]
    BY <2>6, <2>7, <2>8
  <2>10. reader'.line = l + 2 /\ reader'.line - 1 = l + 1 /\ reader'.line \in 1 .. Len(q) + 1
    BY <2>2, <2>4, <2>5
  <2>11. HandedOut(reader'.got, q, reader'.line - 1)
    BY <2>7, <2>9, <2>10 DEF HandedOut
  <2>12. HandsOut(reader')
    BY <1>5, <2>2, <2>10, <2>11 DEF HandsOut, q
  <2> QED BY <2>2, <2>3, <2>12 DEF ReaderRight
<1> QED BY <1>6, <1>7

LEMMA ReaderInit == VobsubInit => ReaderInv
<1> SUFFICES ASSUME VobsubInit PROVE ReaderInv
  OBVIOUS
<1>1. reader = Closed /\ WriterInv
  BY WriterInit DEF VobsubInit
<1>2. Files(idx, sub, written)
  BY <1>1 DEF WriterInv, Files
<1> QED BY <1>1, <1>2, ClosedRight DEF ReaderInv

LEMMA ReaderStep == WriterInv /\ WriterInv' /\ ReaderInv /\ [VobsubNext]_vobsubvars => ReaderInv'
<1> SUFFICES ASSUME WriterInv, WriterInv', ReaderInv, [VobsubNext]_vobsubvars PROVE ReaderInv'
  OBVIOUS
<1>1. Files(idx, sub, written) /\ Files(idx', sub', written')
  BY DEF WriterInv, Files
\* Nothing is read while the files are written.
<1>2. CASE OpenOut \/ Convert \/ CloseOut
  <2>1. job <= Len(jobs) /\ reader' = reader
    BY <1>2 DEF OpenOut, Convert, CloseOut
  <2>2. reader.phase = "closed"
    <3>1. job \in Nat /\ Len(jobs) \in Nat
      BY JobIs DEF WriterInv
    <3>2. ~(job > Len(jobs))
      BY <2>1, <3>1
    <3> QED BY <3>2 DEF WriterInv
  <2>3. reader' = Closed
    BY <2>1, <2>2 DEF ReaderInv, ReaderRight
  <2> QED BY <1>1, <2>3, ClosedRight DEF ReaderInv
<1>3. CASE OpenIn \/ ParseLine \/ EndIndex \/ ReadElement \/ EndStream \/ GetNext
  <2>1. UNCHANGED <<sub, idx, written>>
    BY <1>3, ReaderOnly
  <2>2. ReaderRight(reader', idx, sub, written)
    <3>1. CASE OpenIn
      <4>1. reader.phase = "closed" /\ \E phase \in {"index", "stream"} : reader' = [reader EXCEPT !.phase = phase]
        BY <3>1 DEF OpenIn
      <4>2. ReaderRight(reader, idx, sub, written)
        BY DEF ReaderInv
      <4> QED BY <1>1, <4>1, <4>2, OpenInRight
    <3>2. CASE ParseLine
      BY <1>1, <3>2, ParseLineStep
    <3>3. CASE EndIndex
      <4>1. reader.phase = "index" /\ reader' = [reader EXCEPT !.phase = "stream"]
        BY <3>3 DEF EndIndex
      <4>2. ReaderRight(reader, idx, sub, written)
        BY DEF ReaderInv
      <4> QED BY <1>1, <4>1, <4>2, EndIndexRight
    <3>4. CASE ReadElement
      BY <1>1, <3>4, ReadElementRight
    <3>5. CASE EndStream
      BY <1>1, <3>5, EndStreamStep
    <3>6. CASE GetNext
      BY <1>1, <3>6, GetNextStep
    <3> QED BY <1>3, <3>1, <3>2, <3>3, <3>4, <3>5, <3>6
  <2> QED BY <2>1, <2>2 DEF ReaderInv
<1>4. CASE UNCHANGED vobsubvars
  BY <1>4 DEF ReaderInv, vobsubvars
<1> QED BY <1>2, <1>3, <1>4 DEF VobsubNext

LEMMA CompleteFrom ==
    ASSUME Files(idx, sub, written), ReaderInv, reader.phase = "done"
    PROVE  Complete /\ InTime
<1> DEFINE s == reader.stream
           got == reader.got
           q == reader.queue[s]
           own == Own(s)
<1>1. /\ s \in Streams /\ HandsOut(reader) /\ reader.line > Len(q.packets)
  BY DEF ReaderInv, ReaderRight, HandsOut
<1>2. PICK n \in 0 .. Len(written) : HasBlocks(reader, sub, written, n)
  BY DEF ReaderInv, ReaderRight
<1>3. PICK c \in Nat : Filling(q, written, s, n, c)
  BY <1>1, <1>2 DEF HasBlocks
<1>4. PICK l \in Nat : l = Len(q.packets) /\ c \in 0 .. l
  BY <1>3, SeqDomain DEF Filling, QueueIs
<1>5. /\ DOMAIN got = 1 .. l /\ \A k \in 1 .. l : got[k] = q.packets[k]
  <2>1. reader.line \in 1 .. l + 1 /\ HandedOut(got, q.packets, reader.line - 1)
    BY <1>1, <1>4 DEF HandsOut
  <2>2. reader.line - 1 = l
    <3>1. PICK m \in 1 .. l + 1 : m = reader.line
      BY <2>1
    <3>2. m > l
      BY <1>1, <1>4, <3>1
    <3>3. m - 1 = l
      BY <3>2
    <3> QED BY <3>1, <3>3
  <2>3. HandedOut(got, q.packets, l)
    BY <2>1, <2>2
  <2> QED BY <2>3, SeqDomain DEF HandedOut
<1>6. Len(written) \in Nat /\ DOMAIN written = 1 .. Len(written) /\ WrittenRight(written)
      /\ DOMAIN sub = 1 .. Len(sub) /\ Len(sub) \in Nat
  BY FilesAre, SeqDomain DEF Files, FileRight
<1>7. own = OwnIn(written, s)
  BY <1>6 DEF Own, OwnIn
<1> HIDE DEF s, got, q, own
<1>8. \A d \in own : d \in 1 .. Len(written) /\ d \in Nat /\ d # NoData
  BY <1>7 DEF OwnIn, NoData
<1>9. \A k \in 1 .. c : k \in 1 .. l /\ got[k].data \in own /\ got[k].data <= n
  <2> TAKE k \in 1 .. c
  <2>1. k \in 1 .. l
    BY <1>4
  <2>2. q.packets[k].data \in OwnIn(written, s) /\ q.packets[k].data <= n
    BY <1>3 DEF Filling
  <2> QED BY <1>5, <1>7, <2>1, <2>2
<1>10. ASSUME NEW k \in 1 .. l, got[k].data # NoData PROVE k \in 1 .. c
  <2> SUFFICES ASSUME k \notin 1 .. c PROVE FALSE
    OBVIOUS
  <2>1. k \in c + 1 .. Len(q.packets)
    BY <1>4
  <2>2. q.packets[k].data = NoData
    BY <1>3, <2>1 DEF Filling, Awaits
  <2> QED BY <1>5, <1>10, <2>2
<1>11. Handed = 1 .. c
  <2>1. \A i \in Handed : i \in 1 .. c
    BY <1>5, <1>10 DEF Handed, got
  <2>2. \A i \in 1 .. c : i \in Handed
    BY <1>5, <1>8, <1>9 DEF Handed, got
  <2> QED BY <2>1, <2>2
<1>12. \A i, j \in 1 .. c : i < j => got[i].data < got[j].data
  <2>1. \A i, j \in 1 .. c : i < j => q.packets[i].data < q.packets[j].data
    BY <1>3 DEF Filling
  <2> QED BY <1>5, <1>9, <2>1
<1>13. \A d \in own : d <= n => \E k \in 1 .. c : got[k].data = d
  <2>1. \A d \in own : d <= n => \E k \in 1 .. c : q.packets[k].data = d
    BY <1>3, <1>7 DEF Filling
  <2> QED BY <1>5, <1>9, <2>1
<1>14. \A i \in 1 .. c : \A d \in own : d < got[i].data => \E j \in 1 .. c : got[j].data = d
  <2> SUFFICES ASSUME NEW i \in 1 .. c, NEW d \in own, d < got[i].data
               PROVE  \E j \in 1 .. c : got[j].data = d
    OBVIOUS
  <2>1. got[i].data \in Nat /\ got[i].data <= n /\ n \in Nat /\ d \in Nat
    BY <1>6, <1>8, <1>9
  <2>2. d <= n
    BY <2>1
  <2> QED BY <1>13, <2>2
<1>15. reader.element > Len(sub) => \A d \in own : \E j \in 1 .. c : got[j].data = d
  <2> SUFFICES ASSUME reader.element > Len(sub), NEW d \in own PROVE \E j \in 1 .. c : got[j].data = d
    OBVIOUS
  <2>1. PICK e \in PacketsOf(sub) : sub[e].data = d
    BY <1>8 DEF Files, FileRight
  <2>2. e \in 1 .. Len(sub) /\ reader.element \in 1 .. Len(sub) + 1
    BY <1>2, <1>6 DEF PacketsOf, HasBlocks
  <2>3. e < reader.element
    BY <1>6, <2>2
  <2>4. d <= n
    BY <1>2, <2>1, <2>3 DEF HasBlocks, ReadTo
  <2> QED BY <1>13, <2>4
<1>16. Complete
  BY <1>9, <1>11, <1>12, <1>14, <1>15 DEF Complete, got, own, s
<1>17. InTime
  <2> SUFFICES ASSUME \A d \in DOMAIN written : written[d].stamped, NEW i \in 1 .. c
               PROVE  /\ got[i].pts100 - written[got[i].data].pts <= PerMs
                      /\ written[got[i].data].pts - got[i].pts100 <= PerMs
    BY <1>11 DEF InTime, got
  <2>1. AllStamped(written)
    BY <1>6 DEF AllStamped
  <2>2. Timed(q, written)
    BY <1>1, <1>2, <2>1 DEF HasBlocks, q
  <2>3. i \in 1 .. Len(q.packets) /\ got[i] = q.packets[i] /\ got[i].data # NoData
    BY <1>4, <1>5, <1>8, <1>9
  <2>4. PICK m \in Late : got[i].pts100 = written[got[i].data].pts + m
    BY <2>2, <2>3 DEF Timed, Near
  <2>5. written[got[i].data].pts \in Nat
    BY <1>6, <1>8, <1>9 DEF WrittenRight
  <2>6. PICK v \in Nat : v = written[got[i].data].pts
    BY <2>5
  <2>7. m \in Int /\ -90 <= m /\ m <= 0
    BY DEF Late, PerMs
  <2>8. (v + m) - v <= 90 /\ v - (v + m) <= 90
    BY <2>7
  <2> QED BY <2>4, <2>6, <2>8 DEF PerMs
<1> QED BY <1>16, <1>17

\* What is read back of a language is what was written of it, in order and at its
\* time, whatever was written before or in another language, with or without the
\* index (vobsub_out_output, vobsub_open, vobsub_get_next_packet).
THEOREM ReadsBack == VobsubSpec => []RoundTrip
<1>1. VobsubInit => ReaderInv
  BY ReaderInit
<1>2. WriterInv /\ WriterInv' /\ ReaderInv /\ [VobsubNext]_vobsubvars => ReaderInv'
  BY ReaderStep
<1>3. WriterInv /\ ReaderInv => RoundTrip
  <2> SUFFICES ASSUME WriterInv, ReaderInv PROVE RoundTrip
    OBVIOUS
  <2>1. Files(idx, sub, written)
    BY DEF WriterInv, Files
  <2>2. CASE reader.phase = "done"
    BY <2>1, <2>2, CompleteFrom DEF RoundTrip
  <2>3. CASE reader.phase # "done"
    BY <2>3 DEF RoundTrip, Complete, InTime
  <2> QED BY <2>2, <2>3
<1> QED BY <1>1, <1>2, <1>3, WriterInvHolds, PTL DEF VobsubSpec
=============================================================================
