----------------------------- MODULE DvdIfoProofs -----------------------------
(***************************************************************************)
(* Proofs about DvdIfo, for any discs and any contents of well-formed      *)
(* titles.                                                                 *)
(***************************************************************************)
EXTENDS DvdIfo, SequenceTheorems, FiniteSetTheorems, WellFoundedInduction, TLAPS

\* The objects' values.
Ids     == {Garbage} \cup UNION {DOMAIN Contents[t].pgcs : t \in Titles}
Results == {"none", "stale", "empty", "torn", "whole"}
PgcRec  == [refs : Nat, live : BOOLEAN, is : Results]
ItRec   == [refs : Nat, live : BOOLEAN, want : Seq(Ids), srp : Seq(Nat)]

Shapes == /\ its \in Seq(ItRec) /\ pgcs \in Seq(PgcRec)
          /\ ut \in Seq(Nat) /\ rel \in Seq(Nat) /\ vts \in Nat

\* Every index is that of an object.
Linked == /\ \A t \in DOMAIN its :
                /\ Len(its[t].want) <= MaxSrps /\ Len(its[t].srp) <= Len(its[t].want)
                /\ \A i \in DOMAIN its[t].srp : its[t].srp[i] \in 0 .. Len(pgcs)
          /\ \A i \in DOMAIN ut : ut[i] \in DOMAIN its
          /\ \A i \in DOMAIN rel : rel[i] \in DOMAIN its
          /\ vts \in 0 .. Len(its)

\* The places of x in s, and how many there are.
Places(s, x) == {i \in DOMAIN s : s[i] = x}
Occ(s, x)    == Cardinality(Places(s, x))

\* The entries of the tables T that refer to PGC p.
Entry(T, p) == {r \in (DOMAIN T) \X (1 .. MaxSrps) :
                   /\ r[2] \in DOMAIN T[r[1]].srp
                   /\ T[r[1]].srp[r[2]] = p}
Uses(T, p)  == Cardinality(Entry(T, p))

\* The counts of RefsCounted, by the operators above; a released table has no entries.
Tallied == \A t \in DOMAIN its :
              /\ its[t].refs = Occ(ut, t) + Occ(rel, t) + (IF vts = t THEN 1 ELSE 0)
              /\ its[t].live = (its[t].refs > 0)
              /\ ~its[t].live => its[t].srp = <<>>
Shared  == \A p \in DOMAIN pgcs : /\ pgcs[p].refs = Uses(its, p)
                                  /\ pgcs[p].live = (pgcs[p].refs > 0)

\* The handle has no menus and no title table before the header of the file has
\* been read, and none while ifoClose() releases them.
Handle == /\ pc # "release" => rel = <<>>
          /\ pc \in {"idle", "null", "failed", "open", "vmg", "vts"} => ut = <<>> /\ vts = Null
          /\ pc = "release" => /\ ut = <<>> /\ after \in {"idle", "failed", "tables"}
                               /\ after # "tables" => vts = Null
          /\ pc = "close" => after \in {"idle", "failed"}

\* The tables to be read are different ones, and a title table is read once; the
\* table whose entries are read is there.
Names == DOMAIN NoTables
Distinct(s) == \A i, j \in DOMAIN s : s[i] = s[j] => i = j
Plan  == /\ todo \in Seq(Names) /\ Distinct(todo)
         /\ pc = "pgcs" => /\ todo # <<>> /\ its # <<>> /\ its[Len(its)].live
                           /\ Head(todo) = IF vts = Len(its) THEN "PGCIT" ELSE "PGCI_UT"
         /\ pc = "lus" => todo # <<>> /\ Head(todo) = "PGCI_UT"
         /\ vts # Null => \A i \in DOMAIN todo : todo[i] = "PGCIT" =>
                              pc = "pgcs" /\ vts = Len(its)

\* The language units to be read are tables of the title.
LuIds == {Garbage} \cup DOMAIN Content.its
Units == /\ pc = "idle" \/ call.title \in Titles
         /\ pc \notin {"idle", "null", "open", "failed"} => lus \in Seq(LuIds)

Core   == Shapes /\ Linked /\ Tallied /\ Shared
RefInv == pc # "died" => Core /\ Handle /\ Plan /\ Units

\* Every mandatory table is still to be read or has been.
Heads == Mandatory \ {"FP_PGC", "PGCIT"}
ToRead(n) == \E i \in DOMAIN todo : todo[i] = n
HeadsSoFar == \A n \in Range(Order(call.title)) \cap Heads :
                 ToRead(n) \/ tables[n] \in {"whole", "torn"}
Filling == /\ pc \in {"tables", "pgcs", "lus", "release", "have"}
           /\ pc = "release" => after = "tables"
HeadInv == /\ tables \in [Names -> Results]
           /\ call.kind = "ifoOpen" /\ Filling => /\ HeadsSoFar
                                                  /\ pc = "have" => todo = <<>>

\* Why a copy has been given up, and why the BUP is read.  The tables to be read are
\* those of the title.
Kinds == {"ifoOpen", "ifoOpenVMGI", "ifoOpenVTSI"}
BadIfo(title) == Damaged(disc[title]["IFO"], title)
Reading == pc \in {"tables", "pgcs", "lus"} \/ (pc = "release" /\ after = "tables")
Listing == \A i \in DOMAIN todo : todo[i] \in Range(Order(call.title))
GivenUp == pc = "failed" \/ (pc \in {"close", "release"} /\ after = "failed")
Copies == /\ disc \in Discs /\ backup \in BOOLEAN /\ second \in BOOLEAN
          /\ call.kind \in Kinds
          /\ call.kind = "ifoOpenVMGI" => call.title = 0
          /\ call.kind = "ifoOpenVTSI" => call.title # 0
          /\ second => backup
          /\ pc = "vmg" => call.kind # "ifoOpenVTSI"
          /\ Reading => Listing
Blame  == /\ \A t \in Titles : FlagOf(t) \in flags => BadIfo(t)
          /\ backup => BadIfo(call.title)
          /\ pc = "vts" /\ call.title = 0 => Damaged(File, 0)
          /\ GivenUp => Damaged(File, call.title)
          /\ pc = "null" => FallsBack
CopyInv == Copies /\ Blame

-------------------------------------------------------------------------------
(***************************************************************************)
(* Counting references                                                     *)
(***************************************************************************)
LEMMA NatAppended ==
    ASSUME NEW s \in Seq(Nat), NEW e \in Nat
    PROVE  /\ Append(s, e) \in Seq(Nat) /\ Len(Append(s, e)) = Len(s) + 1 /\ Len(s) \in Nat
           /\ \A i \in 1 .. Len(s) : Append(s, e)[i] = s[i]
           /\ Append(s, e)[Len(s) + 1] = e
BY AppendProperties

LEMMA OccType ==
    ASSUME NEW s \in Seq(Nat), NEW x
    PROVE  /\ IsFiniteSet(Places(s, x)) /\ Occ(s, x) \in Nat
           /\ \A i \in DOMAIN s : s[i] = x => Occ(s, x) >= 1
<1>1. Len(s) \in Nat /\ DOMAIN s = 1 .. Len(s)
    OBVIOUS
<1>2. IsFiniteSet(1 .. Len(s))
    BY <1>1, FS_Interval
<1>3. IsFiniteSet(Places(s, x))
    <2>1. Places(s, x) \subseteq 1 .. Len(s)
        BY <1>1 DEF Places
    <2> QED
        BY <1>2, <2>1, FS_Subset
<1>4. Occ(s, x) \in Nat
    BY <1>3, FS_CardinalityType DEF Occ
<1>5. ASSUME NEW i \in DOMAIN s, s[i] = x
      PROVE  Occ(s, x) >= 1
    <2>1. Places(s, x) # {}
        BY <1>5 DEF Places
    <2>2. Occ(s, x) # 0
        BY <1>3, <2>1, FS_EmptySet DEF Occ
    <2> QED
        BY <1>4, <2>2
<1> QED
    BY <1>3, <1>4, <1>5

LEMMA OccEmpty ==
    ASSUME NEW x
    PROVE  Occ(<<>>, x) = 0
<1>1. Places(<<>>, x) = {}
    BY DEF Places
<1> QED
    BY <1>1, FS_EmptySet DEF Occ

LEMMA OccAppend ==
    ASSUME NEW s \in Seq(Nat), NEW y \in Nat, NEW x
    PROVE  Occ(Append(s, y), x) = Occ(s, x) + (IF x = y THEN 1 ELSE 0)
<1> DEFINE n == Len(s)  a == Append(s, y)
<1>1. /\ n \in Nat /\ DOMAIN s = 1 .. n /\ DOMAIN a = 1 .. n + 1
      /\ \A i \in 1 .. n : a[i] = s[i]
      /\ a[n + 1] = y
    OBVIOUS
<1>2. IsFiniteSet(Places(s, x)) /\ Occ(s, x) \in Nat
    BY OccType
<1>3. CASE x = y
    <2>1. Places(a, x) = Places(s, x) \cup {n + 1}
        BY <1>1, <1>3 DEF Places
    <2>2. n + 1 \notin Places(s, x)
        BY <1>1 DEF Places
    <2>3. Cardinality(Places(s, x) \cup {n + 1}) = Cardinality(Places(s, x)) + 1
        BY <1>2, <2>2, FS_AddElement
    <2> QED
        BY <1>3, <2>1, <2>3 DEF Occ
<1>4. CASE x # y
    <2>1. Places(a, x) = Places(s, x)
        BY <1>1, <1>4 DEF Places
    <2> QED
        BY <1>2, <1>4, <2>1 DEF Occ
<1> QED
    BY <1>3, <1>4

\* Two finite sets that a bijection relates are of one size.
LEMMA SameSize ==
    ASSUME NEW S, NEW T, IsFiniteSet(S), NEW f \in [S -> T],
           \A a, b \in S : f[a] = f[b] => a = b,
           \A b \in T : \E a \in S : f[a] = b
    PROVE  Cardinality(T) = Cardinality(S)
<1>1. f \in Bijection(S, T)
    BY DEF Bijection, Injection, Surjection, IsInjective
<1> QED
    BY <1>1, FS_Bijection DEF ExistsBijection

LEMMA OccTail ==
    ASSUME NEW s \in Seq(Nat), s # <<>>, NEW x
    PROVE  /\ Tail(s) \in Seq(Nat)
           /\ Occ(s, x) = Occ(Tail(s), x) + (IF x = Head(s) THEN 1 ELSE 0)
<1> DEFINE n == Len(s)  t == Tail(s)
<1>1. /\ n \in Nat /\ n >= 1 /\ DOMAIN s = 1 .. n /\ t \in Seq(Nat) /\ Len(t) = n - 1
      /\ DOMAIN t = 1 .. n - 1 /\ \A i \in 1 .. n - 1 : t[i] = s[i + 1]
      /\ Head(s) = s[1]
    BY HeadTailProperties
<1>2. IsFiniteSet(Places(s, x)) /\ IsFiniteSet(Places(t, x)) /\ Occ(t, x) \in Nat
      /\ Occ(s, x) \in Nat
    BY <1>1, OccType
<1> DEFINE T == Places(s, x) \ {1}
           f == [i \in Places(t, x) |-> i + 1]
<1>3. Cardinality(T) = Occ(t, x)
    <2>1. f \in [Places(t, x) -> T]
        BY <1>1 DEF Places
    <2>2. \A a, b \in Places(t, x) : f[a] = f[b] => a = b
        BY <1>1 DEF Places
    <2>3. ASSUME NEW b \in T
          PROVE  \E a \in Places(t, x) : f[a] = b
        <3>1. b \in 2 .. n /\ s[b] = x
            BY <1>1 DEF Places
        <3>2. b - 1 \in 1 .. n - 1 /\ t[b - 1] = s[(b - 1) + 1] /\ (b - 1) + 1 = b
            BY <1>1, <3>1
        <3>3. b - 1 \in Places(t, x)
            BY <1>1, <3>1, <3>2 DEF Places
        <3> QED
            BY <3>2, <3>3
    <2> HIDE DEF f, T
    <2> QED
        BY <1>2, <2>1, <2>2, <2>3, SameSize DEF Occ
<1>4. Cardinality(T) = IF 1 \in Places(s, x) THEN Occ(s, x) - 1 ELSE Occ(s, x)
    BY <1>2, FS_RemoveElement DEF Occ
<1>5. 1 \in Places(s, x) <=> x = Head(s)
    BY <1>1 DEF Places
<1> QED
    BY <1>1, <1>2, <1>3, <1>4, <1>5

\* No table has more than MaxSrps entries.
Short(T)    == \A t \in DOMAIN T : Len(T[t].srp) <= MaxSrps

LEMMA ItType ==
    ASSUME NEW T \in Seq(ItRec), NEW t \in DOMAIN T
    PROVE  /\ T[t].srp \in Seq(Nat) /\ T[t].want \in Seq(Ids)
           /\ T[t].refs \in Nat /\ T[t].live \in BOOLEAN
           /\ T[t] = [refs |-> T[t].refs, live |-> T[t].live, want |-> T[t].want,
                      srp |-> T[t].srp]
<1>1. T[t] \in ItRec
    <2> HIDE DEF ItRec
    <2> QED
        OBVIOUS
<1> QED
    BY <1>1 DEF ItRec

\* A table with another count, and perhaps released, or with other entries.
With(r, k, b, s) == [refs |-> k, live |-> b, want |-> r.want, srp |-> s]

LEMMA WithFields ==
    ASSUME NEW T \in Seq(ItRec), NEW t \in DOMAIN T, NEW k, NEW s
    PROVE  /\ [T EXCEPT ![t].refs = k] = [T EXCEPT ![t] = With(T[t], k, T[t].live, T[t].srp)]
           /\ [T EXCEPT ![t].refs = k, ![t].live = FALSE] =
                  [T EXCEPT ![t] = With(T[t], k, FALSE, T[t].srp)]
           /\ [T EXCEPT ![t].srp = s] =
                  [T EXCEPT ![t] = With(T[t], T[t].refs, T[t].live, s)]
<1>1. PICK w, x, y, z : T[t] = [refs |-> w, live |-> x, want |-> y, srp |-> z]
    BY ItType
<1>2. T[t].refs = w /\ T[t].live = x /\ T[t].want = y /\ T[t].srp = z
    BY <1>1
<1>3. [T[t] EXCEPT !.refs = k] = [refs |-> k, live |-> x, want |-> y, srp |-> z]
    BY <1>1, SMT
<1>4. [T[t] EXCEPT !.srp = s] = [refs |-> w, live |-> x, want |-> y, srp |-> s]
    BY <1>1, SMT
<1>5. ASSUME NEW b
      PROVE  [[refs |-> k, live |-> x, want |-> y, srp |-> z] EXCEPT !.live = b]
                 = [refs |-> k, live |-> b, want |-> y, srp |-> z]
    BY SMT
<1>6. [T EXCEPT ![t].refs = k, ![t].live = FALSE] =
          [T EXCEPT ![t] = [[T[t] EXCEPT !.refs = k] EXCEPT !.live = FALSE]]
    OBVIOUS
<1> QED
    BY <1>2, <1>3, <1>4, <1>5, <1>6 DEF With

LEMMA AddOne ==
    ASSUME NEW T \in Seq(ItRec), NEW t \in DOMAIN T
    PROVE  [T EXCEPT ![t].refs = @ + 1] =
               [T EXCEPT ![t] = With(T[t], T[t].refs + 1, T[t].live, T[t].srp)]
BY WithFields

LEMMA TakeOne ==
    ASSUME NEW T \in Seq(ItRec), NEW t \in DOMAIN T
    PROVE  [T EXCEPT ![t].refs = @ - 1] =
               [T EXCEPT ![t] = With(T[t], T[t].refs - 1, T[t].live, T[t].srp)]
BY WithFields

LEMMA Gone ==
    ASSUME NEW T \in Seq(ItRec), NEW t \in DOMAIN T
    PROVE  [T EXCEPT ![t].refs = 0, ![t].live = FALSE] =
               [T EXCEPT ![t] = With(T[t], 0, FALSE, T[t].srp)]
BY WithFields

EnterIn(T, t, q) == [T EXCEPT ![t].srp = Append(@, q)]

LEMMA OneEntered ==
    ASSUME NEW T \in Seq(ItRec), NEW t \in DOMAIN T, NEW q
    PROVE  EnterIn(T, t, q) =
               [T EXCEPT ![t] = With(T[t], T[t].refs, T[t].live, Append(T[t].srp, q))]
BY WithFields DEF EnterIn

LEMMA OneDropped ==
    ASSUME NEW T \in Seq(ItRec), NEW t \in DOMAIN T
    PROVE  [T EXCEPT ![t].srp = Tail(@)] =
               [T EXCEPT ![t] = With(T[t], T[t].refs, T[t].live, Tail(T[t].srp))]
BY WithFields

LEMMA UsesType ==
    ASSUME NEW T \in Seq(ItRec), NEW p
    PROVE  /\ IsFiniteSet(Entry(T, p)) /\ Uses(T, p) \in Nat
           /\ Short(T) => \A t \in DOMAIN T : \A i \in DOMAIN T[t].srp :
                              T[t].srp[i] = p => Uses(T, p) >= 1
<1>1. IsFiniteSet((DOMAIN T) \X (1 .. MaxSrps))
    <2>1. DOMAIN T = 1 .. Len(T) /\ Len(T) \in Nat /\ MaxSrps \in Nat
        BY DvdIfoAssumption
    <2>2. IsFiniteSet(DOMAIN T) /\ IsFiniteSet(1 .. MaxSrps)
        BY <2>1, FS_Interval
    <2> QED
        BY <2>2, FS_Product
<1>2. Entry(T, p) \subseteq (DOMAIN T) \X (1 .. MaxSrps)
    BY DEF Entry
<1>3. IsFiniteSet(Entry(T, p))
    BY <1>1, <1>2, FS_Subset
<1>4. Uses(T, p) \in Nat
    BY <1>3, FS_CardinalityType DEF Uses
<1>5. ASSUME Short(T), NEW t \in DOMAIN T, NEW i \in DOMAIN T[t].srp, T[t].srp[i] = p
      PROVE  Uses(T, p) >= 1
    <2>1. T[t].srp \in Seq(Nat)
        BY ItType
    <2>2. i \in 1 .. MaxSrps
        BY <1>5, <2>1, DvdIfoAssumption DEF Short
    <2>3. <<t, i>> \in Entry(T, p)
        BY <1>5, <2>2 DEF Entry
    <2>4. Uses(T, p) # 0
        BY <1>3, <2>3, FS_EmptySet DEF Uses
    <2> QED
        BY <1>4, <2>4
<1> QED
    BY <1>3, <1>4, <1>5

\* New tables are empty, and those of before keep their entries.
LEMMA UsesSame ==
    ASSUME NEW T \in Seq(ItRec), NEW U \in Seq(ItRec), NEW p,
           DOMAIN T \subseteq DOMAIN U,
           \A t \in DOMAIN T : U[t].srp = T[t].srp,
           \A t \in DOMAIN U : t \notin DOMAIN T => U[t].srp = <<>>
    PROVE  Uses(U, p) = Uses(T, p)
<1>1. Entry(U, p) \subseteq Entry(T, p)
    <2> SUFFICES ASSUME NEW r \in Entry(U, p)
                 PROVE  r \in Entry(T, p)
        OBVIOUS
    <2>1. r \in (DOMAIN U) \X (1 .. MaxSrps) /\ r[2] \in DOMAIN U[r[1]].srp
          /\ U[r[1]].srp[r[2]] = p
        BY DEF Entry
    <2>2. r[1] \in DOMAIN T
        BY <2>1
    <2> QED
        BY <2>1, <2>2 DEF Entry
<1>2. Entry(T, p) \subseteq Entry(U, p)
    BY DEF Entry
<1>3. Entry(U, p) = Entry(T, p)
    BY <1>1, <1>2
<1> QED
    BY <1>3 DEF Uses

LEMMA UsesNone ==
    ASSUME NEW T \in Seq(ItRec), NEW p, \A t \in DOMAIN T : T[t].srp = <<>>
    PROVE  Uses(T, p) = 0
<1>1. Entry(T, p) = {}
    BY DEF Entry
<1> QED
    BY <1>1, FS_EmptySet DEF Uses

\* One more entry, of table t.
Added(T, U, t, q) == /\ Len(T[t].srp) < MaxSrps /\ DOMAIN U = DOMAIN T
                     /\ U[t].srp = Append(T[t].srp, q)
                     /\ \A u \in DOMAIN T : u # t => U[u].srp = T[u].srp

\* q has one use more in U than in T.
OneMore(T, U, q) == /\ Uses(U, q) = Uses(T, q) + 1
                    /\ \A p : p # q => Uses(U, p) = Uses(T, p)

LEMMA UsesEnter ==
    ASSUME NEW T \in Seq(ItRec), NEW U \in Seq(ItRec), NEW t \in DOMAIN T, NEW q \in Nat,
           Added(T, U, t, q)
    PROVE  OneMore(T, U, q)
<1> SUFFICES ASSUME NEW p
             PROVE  Uses(U, p) = IF p = q THEN Uses(T, p) + 1 ELSE Uses(T, p)
    BY DEF OneMore
<1> USE DEF Added
<1> DEFINE s == T[t].srp  n == Len(s)  new == <<t, n + 1>>
<1>1. /\ s \in Seq(Nat) /\ n \in Nat /\ DOMAIN s = 1 .. n
      /\ DOMAIN U[t].srp = 1 .. n + 1 /\ U[t].srp[n + 1] = q
      /\ \A i \in 1 .. n : U[t].srp[i] = s[i]
    <2>1. s \in Seq(Nat)
        BY ItType
    <2> QED
        BY <2>1
<1>2. IsFiniteSet(Entry(T, p)) /\ Uses(T, p) \in Nat
    BY UsesType
<1>3. n + 1 \in 1 .. MaxSrps
    BY <1>1, DvdIfoAssumption
<1>4. new \notin Entry(T, p)
    BY <1>1 DEF Entry
<1>5. new \in Entry(U, p) <=> p = q
    BY <1>1, <1>3 DEF Entry
<1>6. ASSUME NEW r \in (DOMAIN T) \X (1 .. MaxSrps), r # new
      PROVE  r \in Entry(U, p) <=> r \in Entry(T, p)
    <2>1. CASE r[1] = t
        <3>1. r[2] # n + 1
            BY <1>6, <2>1
        <3>2. r[2] \in DOMAIN U[t].srp <=> r[2] \in DOMAIN s
            BY <1>1, <3>1
        <3> QED
            BY <1>1, <2>1, <3>2 DEF Entry
    <2>2. CASE r[1] # t
        <3>1. U[r[1]].srp = T[r[1]].srp
            BY <2>2
        <3> QED
            BY <3>1 DEF Entry
    <2> QED
        BY <2>1, <2>2
<1>7. \A r \in Entry(U, p) \cup Entry(T, p) : r \in (DOMAIN T) \X (1 .. MaxSrps)
    BY DEF Entry
<1>8. CASE p = q
    <2>1. Entry(U, p) = Entry(T, p) \cup {new}
        BY <1>5, <1>6, <1>7, <1>8
    <2>2. Cardinality(Entry(T, p) \cup {new}) = Cardinality(Entry(T, p)) + 1
        BY <1>2, <1>4, FS_AddElement
    <2> QED
        BY <1>8, <2>1, <2>2 DEF Uses
<1>9. CASE p # q
    <2>1. \A r : r \in Entry(U, p) <=> r \in Entry(T, p)
        BY <1>4, <1>5, <1>6, <1>7, <1>9
    <2>2. Entry(U, p) = Entry(T, p)
        BY <2>1
    <2> QED
        BY <1>2, <1>9, <2>2 DEF Uses
<1> QED
    BY <1>8, <1>9

\* The first entry of table t less.
Dropped(T, U, t) == /\ T[t].srp # <<>> /\ Len(T[t].srp) <= MaxSrps /\ DOMAIN U = DOMAIN T
                    /\ U[t].srp = Tail(T[t].srp)
                    /\ \A u \in DOMAIN T : u # t => U[u].srp = T[u].srp

LEMMA UsesDrop ==
    ASSUME NEW T \in Seq(ItRec), NEW U \in Seq(ItRec), NEW t \in DOMAIN T,
           Dropped(T, U, t)
    PROVE  OneMore(U, T, Head(T[t].srp))
<1> SUFFICES ASSUME NEW p
             PROVE  Uses(T, p) = IF p = Head(T[t].srp) THEN Uses(U, p) + 1 ELSE Uses(U, p)
    BY DEF OneMore
<1> USE DEF Dropped
<1> DEFINE s == T[t].srp  n == Len(s)  old == <<t, 1>>
           R == Entry(T, p) \ {old}
           f == [r \in Entry(U, p) |-> IF r[1] = t THEN <<t, r[2] + 1>> ELSE r]
<1>1. /\ s \in Seq(Nat) /\ n \in Nat /\ n >= 1 /\ DOMAIN s = 1 .. n /\ Head(s) = s[1]
      /\ U[t].srp \in Seq(Nat) /\ DOMAIN U[t].srp = 1 .. n - 1
      /\ \A i \in 1 .. n - 1 : U[t].srp[i] = s[i + 1]
    <2>1. s \in Seq(Nat)
        BY ItType
    <2>2. n \in Nat /\ n >= 1 /\ DOMAIN s = 1 .. n /\ Head(s) = s[1]
        BY <2>1
    <2> QED
        BY <2>1, <2>2, HeadTailProperties
<1>2. /\ IsFiniteSet(Entry(T, p)) /\ Uses(T, p) \in Nat
      /\ IsFiniteSet(Entry(U, p)) /\ Uses(U, p) \in Nat
    BY UsesType
<1>3. MaxSrps \in Nat /\ n <= MaxSrps
    BY DvdIfoAssumption
<1>4. old \in Entry(T, p) <=> p = Head(s)
    BY <1>1, <1>3 DEF Entry
<1>5. ASSUME NEW r \in Entry(U, p)
      PROVE  /\ r \in (DOMAIN T) \X (1 .. MaxSrps) /\ f[r] \in R
             /\ r = <<r[1], r[2]>> /\ r[2] \in Nat
             /\ r[1] = t => f[r] = <<t, r[2] + 1>>
             /\ r[1] # t => f[r] = r
    <2>1. r \in (DOMAIN T) \X (1 .. MaxSrps) /\ r[2] \in DOMAIN U[r[1]].srp
          /\ U[r[1]].srp[r[2]] = p
        BY <1>5 DEF Entry
    <2>2. CASE r[1] = t
        <3>1. r[2] \in 1 .. n - 1 /\ s[r[2] + 1] = p /\ r[2] + 1 \in 1 .. n
              /\ r[2] + 1 \in 1 .. MaxSrps /\ r[2] + 1 # 1
            <4>1. r[2] \in 1 .. n - 1 /\ U[t].srp[r[2]] = p
                BY <1>1, <2>1, <2>2
            <4>2. s[r[2] + 1] = p
                BY <1>1, <4>1
            <4>3. n \in Nat
                BY <1>1
            <4> HIDE DEF n
            <4>4. r[2] + 1 \in 1 .. n /\ r[2] + 1 \in 1 .. MaxSrps /\ r[2] + 1 # 1
                BY <1>3, <4>1, <4>3
            <4> QED
                BY <4>1, <4>2, <4>4
        <3>2. f[r] = <<t, r[2] + 1>>
            BY <2>2
        <3>3. <<t, r[2] + 1>> \in R
            BY <1>1, <3>1 DEF Entry
        <3> QED
            BY <2>1, <2>2, <3>1, <3>2, <3>3
    <2>3. CASE r[1] # t
        <3>1. f[r] = r /\ r # old
            BY <2>3
        <3>2. U[r[1]].srp = T[r[1]].srp
            BY <2>1, <2>3
        <3>3. r \in R
            BY <2>1, <3>1, <3>2 DEF Entry
        <3> QED
            BY <2>1, <2>3, <3>1, <3>3
    <2> QED
        BY <2>2, <2>3
<1>6. \A a, b \in Entry(U, p) : f[a] = f[b] => a = b
    <2> SUFFICES ASSUME NEW a \in Entry(U, p), NEW b \in Entry(U, p), f[a] = f[b]
                 PROVE  a = b
        OBVIOUS
    <2>1. /\ a = <<a[1], a[2]>> /\ a[2] \in Nat /\ b = <<b[1], b[2]>> /\ b[2] \in Nat
          /\ a[1] = t => f[a] = <<t, a[2] + 1>>
          /\ a[1] # t => f[a] = a
          /\ b[1] = t => f[b] = <<t, b[2] + 1>>
          /\ b[1] # t => f[b] = b
        BY <1>5
    <2> HIDE DEF f
    <2> QED
        BY <2>1
<1>7. ASSUME NEW b \in R
      PROVE  \E a \in Entry(U, p) : f[a] = b
    <2>1. b \in (DOMAIN T) \X (1 .. MaxSrps) /\ b[2] \in DOMAIN T[b[1]].srp
          /\ T[b[1]].srp[b[2]] = p /\ b # old
        BY <1>7 DEF Entry
    <2>2. CASE b[1] = t
        <3>1. b[2] \in 2 .. n
            BY <1>1, <2>1, <2>2
        <3>2. b[2] - 1 \in 1 .. n - 1 /\ (b[2] - 1) + 1 = b[2] /\ b[2] - 1 \in 1 .. MaxSrps
            <4>1. n \in Nat
                BY <1>1
            <4> HIDE DEF n, Dropped
            <4> QED
                BY <1>3, <3>1, <4>1
        <3>3. U[t].srp[b[2] - 1] = p
            BY <1>1, <2>1, <2>2, <3>2
        <3>4. <<t, b[2] - 1>> \in Entry(U, p)
            BY <1>1, <3>2, <3>3 DEF Entry
        <3>5. f[<<t, b[2] - 1>>] = <<t, (b[2] - 1) + 1>>
            BY <3>4
        <3> QED
            BY <2>1, <2>2, <3>2, <3>4, <3>5
    <2>3. CASE b[1] # t
        <3>1. U[b[1]].srp = T[b[1]].srp
            BY <2>1, <2>3
        <3>2. b \in Entry(U, p)
            BY <2>1, <3>1 DEF Entry
        <3> QED
            BY <2>3, <3>2
    <2> QED
        BY <2>2, <2>3
<1>8. Cardinality(R) = Uses(U, p)
    <2>1. f \in [Entry(U, p) -> R]
        BY <1>5
    <2> HIDE DEF f, R
    <2> QED
        BY <1>2, <1>6, <1>7, <2>1, SameSize DEF Uses
<1>9. Cardinality(R) = IF old \in Entry(T, p) THEN Uses(T, p) - 1 ELSE Uses(T, p)
    BY <1>2, FS_RemoveElement DEF Uses
<1> QED
    BY <1>2, <1>4, <1>8, <1>9

-------------------------------------------------------------------------------
(***************************************************************************)
(* What is read                                                            *)
(***************************************************************************)
\* A set of natural numbers has a least one.
LEMMA MinIs ==
    ASSUME NEW S \in SUBSET Nat, S # {}
    PROVE  Min(S) \in S
<1> DEFINE R == {ss \in Nat \X Nat : ss[1] < ss[2]}
<1>1. IsWellFoundedOn(R, Nat)
    BY NatLessThanWellFounded DEF OpToRel
<1>2. PICK x \in S : \A y \in S : ~ (<<y, x>> \in R)
    <2> HIDE DEF R
    <2> QED
        BY <1>1, WFMin
<1>3. ASSUME NEW y \in S
      PROVE  x <= y
    <2>1. x \in Nat /\ y \in Nat /\ <<y, x>> \notin R
        BY <1>2
    <2> QED
        BY <2>1
<1>4. \E z \in S : \A y \in S : z =< y
    BY <1>3
<1> QED
    BY <1>4 DEF Min

LEMMA FindDupIs ==
    ASSUME NEW want, NEW i \in Nat, i >= 1
    PROVE  FindDup(want, i) \in 0 .. i - 1
<1> DEFINE S == {j \in 1 .. i - 1 : want[j] = want[i]}
<1>1. CASE S # {}
    <2>1. Min(S) \in S
        <3>1. S \in SUBSET Nat
            OBVIOUS
        <3> HIDE DEF S
        <3> QED
            BY <1>1, <3>1, MinIs
    <2>2. FindDup(want, i) = Min(S)
        BY <1>1 DEF FindDup
    <2> QED
        BY <2>1, <2>2
<1>2. CASE S = {}
    BY <1>2 DEF FindDup
<1> QED
    BY <1>1, <1>2

LEMMA PgcIs ==
    ASSUME NEW f, NEW c
    PROVE  PGC(f, c) \subseteq Results
<1> SUFFICES ASSUME NEW r \in PGC(f, c)
             PROVE  r \in Results
    OBVIOUS
<1>1. PICK h \in Got(f, c.head) : \E k \in CommandTable(f, c), m \in Maps(f, c) :
         r = IF h = "short" THEN "none"
             ELSE IF h = "lost" THEN "empty"
             ELSE IF k \in {"none", "stale"} THEN k
             ELSE IF m = "short" THEN "none"
             ELSE IF k = "torn" \/ m = "lost" THEN "torn"
             ELSE "whole"
    BY DEF PGC
<1> QED
    BY <1>1 DEF Results

LEMMA PgcOfIs ==
    ASSUME NEW f, NEW id
    PROVE  PgcOf(f, id) \subseteq Results
BY PgcIs DEF PgcOf, Results

\* The entries of a table.
Listed(r) == r.want \in Seq(Ids) /\ Len(r.want) <= MaxSrps

LEMMA EntriesIs ==
    ASSUME NEW f, NEW c, c.pgcs \in Seq(Ids), Len(c.pgcs) <= MaxSrps,
           NEW r \in Entries(f, c)
    PROVE  Listed(r)
<1>1. PICK h \in Got(f, c.head), b \in Got(f, c.body) :
         r = IF h = "short" THEN [is |-> "none", want |-> <<>>]
             ELSE IF h = "lost" THEN [is |-> "empty", want |-> <<>>]
             ELSE IF b = "short" THEN [is |-> "broken", want |-> <<>>]
             ELSE IF b = "lost" THEN [is |-> "torn", want |-> [i \in 1 .. Len(c.pgcs) |-> Garbage]]
             ELSE [is |-> "whole", want |-> c.pgcs]
    BY DEF Entries
<1>2. \/ r.want = <<>>
      \/ r.want = [i \in 1 .. Len(c.pgcs) |-> Garbage]
      \/ r.want = c.pgcs
    BY <1>1
<1>3. <<>> \in Seq(Ids) /\ Len(<<>>) = 0 /\ MaxSrps \in Nat
    BY DvdIfoAssumption
<1>4. /\ [i \in 1 .. Len(c.pgcs) |-> Garbage] \in Seq(Ids)
      /\ Len([i \in 1 .. Len(c.pgcs) |-> Garbage]) = Len(c.pgcs)
    <2>1. Len(c.pgcs) \in Nat /\ Garbage \in Ids
        BY DEF Ids
    <2> HIDE DEF Ids
    <2> QED
        BY <2>1
<1>5. CASE r.want = <<>>
    BY <1>3, <1>5 DEF Listed
<1>6. CASE r.want = [i \in 1 .. Len(c.pgcs) |-> Garbage]
    BY <1>4, <1>6 DEF Listed
<1>7. CASE r.want = c.pgcs
    BY <1>7 DEF Listed
<1> QED
    BY <1>2, <1>5, <1>6, <1>7

LEMMA EntriesOfIs ==
    ASSUME call.title \in Titles, NEW f, NEW id \in LuIds, NEW r \in EntriesOf(f, id)
    PROVE  Listed(r)
<1>1. CASE id = Garbage
    <2>1. r \in GarbageEntries
        BY <1>1 DEF EntriesOf
    <2>2. r.want = <<>> \/ r.want = <<Garbage, Garbage>>
        BY <2>1 DEF GarbageEntries
    <2>3. Garbage \in Ids
        BY DEF Ids
    <2>4. /\ <<>> \in Seq(Ids) /\ Len(<<>>) = 0
          /\ <<Garbage, Garbage>> \in Seq(Ids) /\ Len(<<Garbage, Garbage>>) = 2
        BY <2>3
    <2>5. MaxSrps \in Nat /\ MaxSrps >= 2
        BY DvdIfoAssumption
    <2>6. CASE r.want = <<>>
        BY <2>4, <2>5, <2>6 DEF Listed
    <2>7. CASE r.want = <<Garbage, Garbage>>
        BY <2>4, <2>5, <2>7 DEF Listed
    <2> QED
        BY <2>2, <2>6, <2>7
<1>2. CASE id # Garbage
    <2>1. id \in DOMAIN Content.its /\ r \in Entries(f, Content.its[id])
        BY <1>2 DEF EntriesOf, LuIds
    <2>2. WellFormed(Content, call.title)
        BY DvdIfoAssumption DEF Content
    <2>3. Content.its[id].pgcs \in Seq(DOMAIN Content.pgcs)
          /\ Len(Content.its[id].pgcs) <= MaxSrps
        BY <2>1, <2>2 DEF WellFormed
    <2>4. DOMAIN Content.pgcs \subseteq Ids
        BY DEF Ids, Content
    <2>5. Content.its[id].pgcs \in Seq(Ids)
        BY <2>3, <2>4
    <2> QED
        BY <2>1, <2>3, <2>5, EntriesIs
<1> QED
    BY <1>1, <1>2

-------------------------------------------------------------------------------
(***************************************************************************)
(* References are counted                                                  *)
(***************************************************************************)
\* One table, or one PGC, is changed.
LEMMA ItSet ==
    ASSUME NEW T \in Seq(ItRec), NEW t \in DOMAIN T, NEW r \in ItRec
    PROVE  LET U == [T EXCEPT ![t] = r]
           IN  /\ U \in Seq(ItRec) /\ DOMAIN U = DOMAIN T /\ Len(U) = Len(T) /\ U[t] = r
               /\ \A u \in DOMAIN T : u # t => U[u] = T[u]
<1> HIDE DEF ItRec
<1> QED
    OBVIOUS

LEMMA PgcSet ==
    ASSUME NEW T \in Seq(PgcRec), NEW t \in DOMAIN T, NEW r \in PgcRec
    PROVE  LET U == [T EXCEPT ![t] = r]
           IN  /\ U \in Seq(PgcRec) /\ DOMAIN U = DOMAIN T /\ Len(U) = Len(T) /\ U[t] = r
               /\ \A u \in DOMAIN T : u # t => U[u] = T[u]
<1> HIDE DEF PgcRec
<1> QED
    OBVIOUS

LEMMA PgcType ==
    ASSUME NEW T \in Seq(PgcRec), NEW p \in DOMAIN T
    PROVE  /\ T[p].refs \in Nat /\ T[p].live \in BOOLEAN /\ T[p].is \in Results
           /\ T[p] = [refs |-> T[p].refs, live |-> T[p].live, is |-> T[p].is]
<1>1. T[p] \in PgcRec
    <2> HIDE DEF PgcRec
    <2> QED
        OBVIOUS
<1> HIDE DEF Results
<1> QED
    BY <1>1 DEF PgcRec

\* A new table, to which nothing refers before.
LEMMA TableAppended ==
    ASSUME Core, NEW want \in Seq(Ids), its' = Append(its, NewTable(want))
    PROVE  /\ its' \in Seq(ItRec) /\ Len(its') = Len(its) + 1
           /\ DOMAIN its = 1 .. Len(its) /\ DOMAIN its' = 1 .. Len(its) + 1
           /\ Len(its) \in Nat
           /\ \A t \in DOMAIN its : its'[t] = its[t]
           /\ its'[Len(its) + 1] = NewTable(want)
           /\ \A p : Uses(its', p) = Uses(its, p)
           /\ Occ(ut, Len(its) + 1) = 0 /\ Occ(rel, Len(its) + 1) = 0
           /\ vts # Len(its) + 1
<1> DEFINE n == Len(its)
<1>1. its \in Seq(ItRec) /\ n \in Nat
    BY DEF Core, Shapes
<1>2. NewTable(want) \in ItRec
    BY DEF NewTable, ItRec
<1>3. /\ its' \in Seq(ItRec) /\ Len(its') = n + 1 /\ DOMAIN its = 1 .. n
      /\ DOMAIN its' = 1 .. n + 1 /\ its'[n + 1] = NewTable(want)
      /\ \A t \in DOMAIN its : its'[t] = its[t]
    <2> HIDE DEF ItRec, NewTable
    <2> QED
        BY <1>1, <1>2, AppendProperties
<1>4. ASSUME NEW p
      PROVE  Uses(its', p) = Uses(its, p)
    <2>1. DOMAIN its \subseteq DOMAIN its'
        BY <1>1, <1>3
    <2>2. \A t \in DOMAIN its : its'[t].srp = its[t].srp
        BY <1>3
    <2>3. \A t \in DOMAIN its' : t \notin DOMAIN its => its'[t].srp = <<>>
        <3>1. NewTable(want).srp = <<>>
            BY DEF NewTable
        <3>2. \A t \in DOMAIN its' : t \notin DOMAIN its => t = n + 1
            BY <1>1, <1>3
        <3> QED
            BY <1>3, <3>1, <3>2
    <2> QED
        BY <1>1, <1>3, <2>1, <2>2, <2>3, UsesSame
<1>5. ASSUME NEW s \in Seq(Nat), \A i \in DOMAIN s : s[i] \in DOMAIN its
      PROVE  Occ(s, n + 1) = 0
    <2>1. Places(s, n + 1) = {}
        BY <1>1, <1>3, <1>5 DEF Places
    <2> QED
        BY <2>1, FS_EmptySet DEF Occ
<1>6. Occ(ut, n + 1) = 0 /\ Occ(rel, n + 1) = 0 /\ vts # n + 1
    BY <1>1, <1>5 DEF Core, Shapes, Linked
<1> QED
    BY <1>1, <1>3, <1>4, <1>6

\* It is referred to by the title's handle, by the last language unit, or by the
\* table to be released last.
LEMMA NewTableStep ==
    ASSUME Core, NEW r, Listed(r), its' = Append(its, NewTable(r.want)), pgcs' = pgcs,
           \/ vts = Null /\ vts' = Len(its) + 1 /\ ut' = ut /\ rel' = rel
           \/ vts' = vts /\ ut' = Append(ut, Len(its) + 1) /\ rel' = rel
           \/ vts' = vts /\ rel = <<>> /\ rel' = Append(ut, Len(its) + 1) /\ ut' = <<>>
    PROVE  Core' /\ its' # <<>> /\ its'[Len(its')].live /\ Len(its') = Len(its) + 1
<1> DEFINE n == Len(its)
<1>0. r.want \in Seq(Ids) /\ Len(r.want) <= MaxSrps
    BY DEF Listed
<1>1. /\ its' \in Seq(ItRec) /\ Len(its') = n + 1
      /\ DOMAIN its = 1 .. n /\ DOMAIN its' = 1 .. n + 1 /\ n \in Nat
      /\ \A t \in DOMAIN its : its'[t] = its[t]
      /\ its'[n + 1] = NewTable(r.want)
      /\ \A p : Uses(its', p) = Uses(its, p)
      /\ Occ(ut, n + 1) = 0 /\ Occ(rel, n + 1) = 0 /\ vts # n + 1
    BY <1>0, TableAppended
<1>2. /\ NewTable(r.want).refs = 1 /\ NewTable(r.want).live /\ NewTable(r.want).srp = <<>>
      /\ NewTable(r.want).want = r.want
    BY DEF NewTable
<1>3. /\ ut \in Seq(Nat) /\ rel \in Seq(Nat) /\ vts \in Nat /\ pgcs \in Seq(PgcRec)
      /\ \A i \in DOMAIN ut : ut[i] \in DOMAIN its
      /\ \A i \in DOMAIN rel : rel[i] \in DOMAIN its
      /\ vts \in 0 .. n
    BY DEF Core, Shapes, Linked
<1> DEFINE a == Append(ut, n + 1)
<1>4. a \in Seq(Nat) /\ \A i \in DOMAIN a : a[i] \in 1 .. n + 1
    <2>1. n + 1 \in Nat /\ ut \in Seq(Nat)
        BY <1>1, <1>3
    <2> HIDE DEF n
    <2>2. /\ a \in Seq(Nat) /\ Len(a) = Len(ut) + 1 /\ Len(ut) \in Nat
          /\ \A i \in 1 .. Len(ut) : a[i] = ut[i]
          /\ a[Len(ut) + 1] = n + 1
        BY <2>1, NatAppended
    <2>3. DOMAIN a = 1 .. Len(ut) + 1 /\ DOMAIN ut = 1 .. Len(ut)
        BY <1>3, <2>2
    <2>4. ASSUME NEW i \in 1 .. Len(ut)
          PROVE  a[i] \in 1 .. n + 1
        <3>1. a[i] = ut[i] /\ ut[i] \in 1 .. n
            BY <1>1, <1>3, <2>2, <2>3, <2>4
        <3> QED
            BY <1>1, <3>1
    <2> HIDE DEF a
    <2> QED
        BY <1>1, <2>2, <2>3, <2>4
<1>5. /\ ut' \in Seq(Nat) /\ rel' \in Seq(Nat) /\ vts' \in Nat
      /\ vts' = n + 1 \/ vts' = vts
      /\ ut' \in {ut, a, <<>>} /\ rel' \in {rel, a}
    <2>1. <<>> \in Seq(Nat) /\ n + 1 \in Nat
        BY <1>1
    <2>2. ut' \in {ut, a, <<>>} /\ rel' \in {rel, a} /\ (vts' = n + 1 \/ vts' = vts)
        OBVIOUS
    <2> HIDE DEF a, n
    <2> QED
        BY <1>3, <1>4, <2>1, <2>2
<1>6. Shapes'
    BY <1>1, <1>3, <1>5 DEF Shapes
<1>7. Linked'
    <2>1. ASSUME NEW t \in DOMAIN its'
          PROVE  /\ Len(its'[t].want) <= MaxSrps /\ Len(its'[t].srp) <= Len(its'[t].want)
                 /\ \A i \in DOMAIN its'[t].srp : its'[t].srp[i] \in 0 .. Len(pgcs')
        <3>1. CASE t = n + 1
            <4>1. Len(<<>>) = 0 /\ DOMAIN <<>> = {} /\ Len(r.want) \in Nat
                BY <1>0
            <4> QED
                BY <1>0, <1>1, <1>2, <3>1, <4>1
        <3>2. CASE t # n + 1
            <4>1. t \in DOMAIN its /\ its'[t] = its[t]
                BY <1>1, <3>2
            <4> QED
                BY <4>1 DEF Core, Linked
        <3> QED
            BY <3>1, <3>2
    <2>5. /\ \A i \in DOMAIN ut : ut[i] \in 1 .. n + 1
          /\ \A i \in DOMAIN rel : rel[i] \in 1 .. n + 1
        <3>1. 1 .. n \subseteq 1 .. n + 1
            BY <1>1
        <3> QED
            BY <1>1, <1>3, <3>1
    <2>6. DOMAIN <<>> = {}
        OBVIOUS
    <2> HIDE DEF a, n
    <2>2. \A i \in DOMAIN ut' : ut'[i] \in DOMAIN its'
        BY <1>1, <1>4, <1>5, <2>5, <2>6
    <2>3. \A i \in DOMAIN rel' : rel'[i] \in DOMAIN its'
        BY <1>1, <1>4, <1>5, <2>5
    <2>4. vts' \in 0 .. Len(its')
        <3>1. n \in Nat /\ vts \in 0 .. n /\ Len(its') = n + 1
            BY <1>1, <1>3
        <3> QED
            BY <1>5, <3>1
    <2> QED
        BY <2>1, <2>2, <2>3, <2>4 DEF Linked
<1>8. Tallied'
    <2> SUFFICES ASSUME NEW t \in DOMAIN its'
                 PROVE  /\ its'[t].refs = Occ(ut', t) + Occ(rel', t) + (IF vts' = t THEN 1 ELSE 0)
                        /\ its'[t].live = (its'[t].refs > 0)
                        /\ ~its'[t].live => its'[t].srp = <<>>
        BY DEF Tallied
    <2>1. /\ Occ(ut, t) \in Nat /\ Occ(rel, t) \in Nat /\ Occ(<<>>, t) = 0
          /\ Occ(Append(ut, n + 1), t) = Occ(ut, t) + (IF t = n + 1 THEN 1 ELSE 0)
        <3>1. n + 1 \in Nat /\ ut \in Seq(Nat) /\ rel \in Seq(Nat)
            BY <1>1, <1>3
        <3> HIDE DEF n
        <3>2. Occ(ut, t) \in Nat /\ Occ(rel, t) \in Nat
            BY <3>1, OccType
        <3>3. Occ(Append(ut, n + 1), t) = Occ(ut, t) + (IF t = n + 1 THEN 1 ELSE 0)
            BY <3>1, OccAppend
        <3> QED
            BY <3>2, <3>3, OccEmpty
    <2>2. CASE t = n + 1
        <3>1. Occ(ut, t) = 0 /\ Occ(rel, t) = 0 /\ vts # t
            BY <1>1, <2>2
        <3>2. Occ(ut', t) + Occ(rel', t) + (IF vts' = t THEN 1 ELSE 0) = 1
            <4>1. CASE vts = Null /\ vts' = Len(its) + 1 /\ ut' = ut /\ rel' = rel
                BY <2>1, <2>2, <3>1, <4>1
            <4>2. CASE vts' = vts /\ ut' = Append(ut, Len(its) + 1) /\ rel' = rel
                <5>1. Occ(ut', t) = 1 /\ Occ(rel', t) = 0 /\ vts' # t
                    BY <2>1, <2>2, <3>1, <4>2
                <5> QED
                    BY <5>1
            <4>3. CASE vts' = vts /\ rel = <<>> /\ rel' = Append(ut, Len(its) + 1) /\ ut' = <<>>
                <5>1. Occ(ut', t) = 0 /\ Occ(rel', t) = 1 /\ vts' # t
                    BY <2>1, <2>2, <3>1, <4>3
                <5> QED
                    BY <5>1
            <4> QED
                BY <4>1, <4>2, <4>3
        <3>3. its'[t].refs = 1 /\ its'[t].live /\ its'[t].srp = <<>>
            BY <1>1, <1>2, <2>2
        <3>4. its'[t].live = (its'[t].refs > 0)
            <4>1. its'[t].live = TRUE
                BY <1>1, <2>2 DEF NewTable
            <4>2. (its'[t].refs > 0) = TRUE
                BY <3>3
            <4> QED
                BY <4>1, <4>2
        <3> QED
            BY <3>2, <3>3, <3>4
    <2>3. CASE t # n + 1
        <3>1. t \in DOMAIN its /\ its'[t] = its[t] /\ t # Null
            BY <1>1, <2>3 DEF Null
        <3>2. /\ its[t].refs = Occ(ut, t) + Occ(rel, t) + (IF vts = t THEN 1 ELSE 0)
              /\ its[t].live = (its[t].refs > 0)
              /\ ~its[t].live => its[t].srp = <<>>
            BY <3>1 DEF Core, Tallied
        <3>3. Occ(ut', t) + Occ(rel', t) + (IF vts' = t THEN 1 ELSE 0)
              = Occ(ut, t) + Occ(rel, t) + (IF vts = t THEN 1 ELSE 0)
            <4>1. CASE vts = Null /\ vts' = Len(its) + 1 /\ ut' = ut /\ rel' = rel
                <5>1. Occ(ut', t) = Occ(ut, t) /\ Occ(rel', t) = Occ(rel, t)
                      /\ vts' # t /\ vts # t
                    BY <2>3, <3>1, <4>1
                <5> QED
                    BY <5>1
            <4>2. CASE vts' = vts /\ ut' = Append(ut, Len(its) + 1) /\ rel' = rel
                <5>1. Occ(ut', t) = Occ(ut, t) /\ Occ(rel', t) = Occ(rel, t)
                    BY <2>1, <2>3, <4>2
                <5> QED
                    BY <4>2, <5>1
            <4>3. CASE vts' = vts /\ rel = <<>> /\ rel' = Append(ut, Len(its) + 1) /\ ut' = <<>>
                <5>1. Occ(ut', t) = 0 /\ Occ(rel', t) = Occ(ut, t) /\ Occ(rel, t) = 0
                    BY <2>1, <2>3, <4>3
                <5> QED
                    BY <2>1, <4>3, <5>1
            <4> QED
                BY <4>1, <4>2, <4>3
        <3> QED
            BY <3>1, <3>2, <3>3
    <2> QED
        BY <2>2, <2>3
<1>9. Shared'
    BY <1>1 DEF Core, Shared
<1>10. its' # <<>>
    BY <1>1
<1> QED
    BY <1>1, <1>2, <1>6, <1>7, <1>8, <1>9, <1>10 DEF Core

LEMMA RestStep ==
    ASSUME Core, UNCHANGED <<its, pgcs, ut, rel, vts>>
    PROVE  Core'
BY DEF Core, Shapes, Linked, Tallied, Shared

LEMMA SameEntries ==
    ASSUME NEW T \in Seq(ItRec), NEW U \in Seq(ItRec), DOMAIN U = DOMAIN T,
           \A t \in DOMAIN T : U[t].srp = T[t].srp
    PROVE  \A p : Uses(U, p) = Uses(T, p)
<1> TAKE p
<1>1. DOMAIN T \subseteq DOMAIN U /\ \A t \in DOMAIN U : t \notin DOMAIN T => U[t].srp = <<>>
    OBVIOUS
<1> QED
    BY <1>1, UsesSame

\* The count of one table changes as the references to it do.
Recount(t, k) ==
    /\ its' = [its EXCEPT ![t] = With(its[t], k, k > 0, its[t].srp)]
    /\ k = 0 => its[t].srp = <<>>
    /\ pgcs' = pgcs /\ vts' = vts
    /\ ut' \in Seq(Nat) /\ \A i \in DOMAIN ut' : ut'[i] \in DOMAIN its
    /\ rel' \in Seq(Nat) /\ \A i \in DOMAIN rel' : rel'[i] \in DOMAIN its
    /\ k = Occ(ut', t) + Occ(rel', t) + (IF vts = t THEN 1 ELSE 0)
    /\ \A u \in DOMAIN its : u # t =>
          Occ(ut', u) + Occ(rel', u) = Occ(ut, u) + Occ(rel, u)

LEMMA CountStep ==
    ASSUME Core, NEW t \in DOMAIN its, NEW k \in Nat, Recount(t, k)
    PROVE  Core'
<1>0. /\ its' = [its EXCEPT ![t] = With(its[t], k, k > 0, its[t].srp)]
      /\ k = 0 => its[t].srp = <<>>
      /\ pgcs' = pgcs /\ vts' = vts
      /\ ut' \in Seq(Nat) /\ \A i \in DOMAIN ut' : ut'[i] \in DOMAIN its
      /\ rel' \in Seq(Nat) /\ \A i \in DOMAIN rel' : rel'[i] \in DOMAIN its
      /\ k = Occ(ut', t) + Occ(rel', t) + (IF vts = t THEN 1 ELSE 0)
      /\ \A u \in DOMAIN its : u # t =>
            Occ(ut', u) + Occ(rel', u) = Occ(ut, u) + Occ(rel, u)
    BY DEF Recount
<1> DEFINE r == With(its[t], k, k > 0, its[t].srp)
<1>1. its \in Seq(ItRec)
    BY DEF Core, Shapes
<1>2. r \in ItRec
    <2>1. its[t].want \in Seq(Ids) /\ its[t].srp \in Seq(Nat)
        BY <1>1, ItType
    <2> QED
        BY <2>1 DEF ItRec, With
<1>3. /\ its' \in Seq(ItRec) /\ DOMAIN its' = DOMAIN its /\ Len(its') = Len(its) /\ its'[t] = r
      /\ \A u \in DOMAIN its : u # t => its'[u] = its[u]
    <2> HIDE DEF r
    <2>1. its' = [its EXCEPT ![t] = r]
        BY <1>0 DEF r
    <2> QED
        BY <1>1, <1>2, <2>1, ItSet
<1>4. r.refs = k /\ r.live = (k > 0) /\ r.want = its[t].want /\ r.srp = its[t].srp
    BY DEF With
<1>5. \A u \in DOMAIN its : its'[u].srp = its[u].srp /\ its'[u].want = its[u].want
    BY <1>3, <1>4
<1>6. Shapes'
    BY <1>0, <1>3 DEF Core, Shapes
<1>7. Linked'
    <2>1. ASSUME NEW u \in DOMAIN its'
          PROVE  /\ Len(its'[u].want) <= MaxSrps /\ Len(its'[u].srp) <= Len(its'[u].want)
                 /\ \A i \in DOMAIN its'[u].srp : its'[u].srp[i] \in 0 .. Len(pgcs')
        <3>1. /\ u \in DOMAIN its /\ pgcs' = pgcs
              /\ its'[u].srp = its[u].srp /\ its'[u].want = its[u].want
            BY <1>0, <1>3, <1>5
        <3> QED
            BY <3>1 DEF Core, Linked
    <2>2. vts' \in 0 .. Len(its')
        BY <1>0, <1>3 DEF Core, Linked
    <2> QED
        BY <1>0, <1>3, <2>1, <2>2 DEF Linked
<1>8. Tallied'
    <2> SUFFICES ASSUME NEW u \in DOMAIN its'
                 PROVE  /\ its'[u].refs = Occ(ut', u) + Occ(rel', u) + (IF vts' = u THEN 1 ELSE 0)
                        /\ its'[u].live = (its'[u].refs > 0)
                        /\ ~its'[u].live => its'[u].srp = <<>>
        BY DEF Tallied
    <2>1. CASE u = t
        <3>1. its'[u].refs = k /\ its'[u].live = (k > 0) /\ its'[u].srp = its[t].srp
            BY <1>3, <1>4, <2>1
        <3>2. k = Occ(ut', u) + Occ(rel', u) + (IF vts' = u THEN 1 ELSE 0)
            BY <1>0, <2>1
        <3>3. ~(k > 0) => its[t].srp = <<>>
            BY <1>0
        <3> QED
            BY <3>1, <3>2, <3>3
    <2>2. CASE u # t
        <3>1. u \in DOMAIN its /\ its'[u] = its[u]
            BY <1>3, <2>2
        <3>2. /\ its[u].refs = Occ(ut, u) + Occ(rel, u) + (IF vts = u THEN 1 ELSE 0)
              /\ its[u].live = (its[u].refs > 0)
              /\ ~its[u].live => its[u].srp = <<>>
            BY <3>1 DEF Core, Tallied
        <3>3. Occ(ut', u) + Occ(rel', u) = Occ(ut, u) + Occ(rel, u)
            BY <1>0, <2>2, <3>1
        <3> QED
            BY <1>0, <3>1, <3>2, <3>3
    <2> QED
        BY <2>1, <2>2
<1>9. Shared'
    <2>1. \A p : Uses(its', p) = Uses(its, p)
        <3>1. its' \in Seq(ItRec) /\ DOMAIN its' = DOMAIN its
            BY <1>3
        <3>2. \A u \in DOMAIN its : its'[u].srp = its[u].srp
            BY <1>5
        <3> QED
            BY <1>1, <3>1, <3>2, SameEntries, Zenon
    <2> QED
        BY <1>0, <1>3, <2>1 DEF Core, Shared
<1> QED
    BY <1>6, <1>7, <1>8, <1>9 DEF Core

\* A language unit that refers to the table of another.
LEMMA SharedLu ==
    ASSUME Core, NEW d \in DOMAIN ut, ut' = Append(ut, ut[d]),
           its' = [its EXCEPT ![ut[d]].refs = @ + 1], UNCHANGED <<pgcs, rel, vts>>
    PROVE  Core'
<1> DEFINE t == ut[d]  k == its[t].refs + 1
<1>1. /\ its \in Seq(ItRec) /\ ut \in Seq(Nat) /\ rel \in Seq(Nat)
      /\ t \in DOMAIN its /\ t \in Nat
      /\ \A i \in DOMAIN ut : ut[i] \in DOMAIN its
      /\ \A i \in DOMAIN rel : rel[i] \in DOMAIN its
    BY DEF Core, Shapes, Linked
<1>2. /\ its[t].refs \in Nat /\ its[t].live \in BOOLEAN
      /\ its[t] = [refs |-> its[t].refs, live |-> its[t].live, want |-> its[t].want,
                   srp |-> its[t].srp]
    BY <1>1, ItType
<1>3. /\ its[t].refs = Occ(ut, t) + Occ(rel, t) + (IF vts = t THEN 1 ELSE 0)
      /\ its[t].live = (its[t].refs > 0)
    BY <1>1 DEF Core, Tallied
<1>4. /\ Occ(ut, t) \in Nat /\ Occ(rel, t) \in Nat /\ Occ(ut, t) >= 1
      /\ \A u : Occ(ut', u) = Occ(ut, u) + (IF u = t THEN 1 ELSE 0)
      /\ \A u : Occ(ut, u) \in Nat
    <2> HIDE DEF t
    <2>1. t = ut[d] /\ ut' = Append(ut, t)
        BY DEF t
    <2> QED
        BY <1>1, <2>1, OccType, OccAppend
<1>5. its[t].live = TRUE
    <2>1. its[t].refs > 0
        BY <1>3, <1>4
    <2> QED
        BY <1>3, <2>1
<1>6. k \in Nat /\ TRUE = (k > 0)
    BY <1>2
<1>7. its' = [its EXCEPT ![t] = With(its[t], k, k > 0, its[t].srp)]
    <2>1. its' = [its EXCEPT ![t].refs = @ + 1]
        OBVIOUS
    <2> HIDE DEF t
    <2>2. its' = [its EXCEPT ![t] = With(its[t], its[t].refs + 1, its[t].live, its[t].srp)]
        BY <1>1, <2>1, AddOne
    <2> QED
        BY <1>5, <1>6, <2>2
<1>8. k = Occ(ut', t) + Occ(rel', t) + (IF vts = t THEN 1 ELSE 0)
    BY <1>3, <1>4
<1>9. ut' \in Seq(Nat) /\ \A i \in DOMAIN ut' : ut'[i] \in DOMAIN its
    <2> HIDE DEF t
    <2>1. ut' = Append(ut, t)
        BY DEF t
    <2>2. /\ ut' \in Seq(Nat) /\ Len(ut') = Len(ut) + 1 /\ Len(ut) \in Nat
          /\ \A i \in 1 .. Len(ut) : ut'[i] = ut[i]
          /\ ut'[Len(ut) + 1] = t
        BY <1>1, <2>1, AppendProperties
    <2>3. DOMAIN ut' = 1 .. Len(ut) + 1 /\ DOMAIN ut = 1 .. Len(ut)
        BY <1>1, <2>2
    <2> QED
        BY <1>1, <2>2, <2>3
<1>10. \A u \in DOMAIN its : u # t =>
           Occ(ut', u) + Occ(rel', u) = Occ(ut, u) + Occ(rel, u)
    BY <1>4
<1>11. k = 0 => its[t].srp = <<>>
    BY <1>6
<1>12. rel' \in Seq(Nat) /\ (\A i \in DOMAIN rel' : rel'[i] \in DOMAIN its)
       /\ pgcs' = pgcs /\ vts' = vts
    BY <1>1
<1> HIDE DEF t, k
<1>13. Recount(t, k)
    BY <1>7, <1>8, <1>9, <1>10, <1>11, <1>12 DEF Recount
<1> QED
    BY <1>1, <1>6, <1>13, CountStep

\* ifoFree_PGCIT_internal() of a table: it has one reference less, and is gone when
\* that was the last and it has no entries left.
LEMMA OneLess ==
    ASSUME Core, rel # <<>>, NEW t, t = Head(rel), rel' = Tail(rel), UNCHANGED <<pgcs, ut, vts>>,
           \/ its[t].refs > 1 /\ its' = [its EXCEPT ![t].refs = @ - 1]
           \/ /\ ~ (its[t].refs > 1) /\ its[t].srp = <<>>
              /\ its' = [its EXCEPT ![t].refs = 0, ![t].live = FALSE]
    PROVE  Core'
<1> DEFINE k == its[t].refs - 1
<1>1. /\ its \in Seq(ItRec) /\ ut \in Seq(Nat) /\ rel \in Seq(Nat)
      /\ \A i \in DOMAIN ut : ut[i] \in DOMAIN its
      /\ \A i \in DOMAIN rel : rel[i] \in DOMAIN its
    BY DEF Core, Shapes, Linked
<1>2. /\ rel' \in Seq(Nat) /\ Len(rel') = Len(rel) - 1 /\ Len(rel) \in Nat /\ Len(rel) >= 1
      /\ DOMAIN rel = 1 .. Len(rel) /\ DOMAIN rel' = 1 .. Len(rel) - 1
      /\ \A i \in 1 .. Len(rel) - 1 : rel'[i] = rel[i + 1]
      /\ t = rel[1]
    <2>1. Len(rel) \in Nat /\ Len(rel) >= 1 /\ DOMAIN rel = 1 .. Len(rel) /\ t = rel[1]
        BY <1>1
    <2>2. /\ rel' \in Seq(Nat) /\ Len(rel') = Len(rel) - 1
          /\ \A i \in 1 .. Len(rel') : rel'[i] = rel[i + 1]
        BY <1>1, HeadTailProperties
    <2>3. DOMAIN rel' = 1 .. Len(rel')
        BY <2>2
    <2>4. DOMAIN rel' = 1 .. Len(rel) - 1
        BY <2>2, <2>3
    <2> QED
        BY <2>1, <2>2, <2>4, Zenon
<1>3. t \in DOMAIN its /\ \A i \in DOMAIN rel' : rel'[i] \in DOMAIN its
    <2>1. 1 \in DOMAIN rel
        BY <1>2
    <2>2. ASSUME NEW i \in DOMAIN rel'
          PROVE  rel'[i] \in DOMAIN its
        <3>1. i + 1 \in DOMAIN rel /\ rel'[i] = rel[i + 1]
            BY <1>2, <2>2
        <3> QED
            BY <1>1, <3>1
    <2>3. t \in DOMAIN its
        BY <1>1, <1>2, <2>1
    <2> QED
        BY <2>2, <2>3
<1>4. /\ its[t].refs \in Nat /\ its[t].live \in BOOLEAN
      /\ its[t] = [refs |-> its[t].refs, live |-> its[t].live, want |-> its[t].want,
                   srp |-> its[t].srp]
    BY <1>1, <1>3, ItType
<1>5. /\ its[t].refs = Occ(ut, t) + Occ(rel, t) + (IF vts = t THEN 1 ELSE 0)
      /\ its[t].live = (its[t].refs > 0)
    BY <1>3 DEF Core, Tallied
<1>6. \A u : /\ Occ(rel, u) = Occ(rel', u) + (IF u = t THEN 1 ELSE 0)
             /\ Occ(rel', u) \in Nat /\ Occ(ut, u) \in Nat
    <2>1. \A u : Occ(rel, u) = Occ(rel', u) + (IF u = Head(rel) THEN 1 ELSE 0)
        BY <1>1, OccTail
    <2>2. \A u : Occ(rel', u) \in Nat /\ Occ(ut, u) \in Nat
        BY <1>1, <1>2, OccType
    <2> QED
        BY <2>1, <2>2
<1>7. its[t].refs >= 1 /\ its[t].live = TRUE /\ k \in Nat
      /\ k = Occ(ut, t) + Occ(rel', t) + (IF vts = t THEN 1 ELSE 0)
    <2>1. its[t].refs = Occ(ut, t) + (Occ(rel', t) + 1) + (IF vts = t THEN 1 ELSE 0)
          /\ Occ(ut, t) \in Nat /\ Occ(rel', t) \in Nat
        BY <1>5, <1>6
    <2>2. its[t].refs >= 1 /\ its[t].refs > 0
        BY <2>1
    <2>3. its[t].live = TRUE
        BY <1>5, <2>2
    <2>4. k \in Nat /\ k = Occ(ut, t) + Occ(rel', t) + (IF vts = t THEN 1 ELSE 0)
        BY <2>1
    <2> QED
        BY <2>2, <2>3, <2>4
<1>8. \A u \in DOMAIN its : u # t =>
          Occ(ut', u) + Occ(rel', u) = Occ(ut, u) + Occ(rel, u)
    BY <1>6
<1>9. CASE its[t].refs > 1 /\ its' = [its EXCEPT ![t].refs = @ - 1]
    <2>1. TRUE = (k > 0) /\ k # 0
        BY <1>4, <1>9
    <2>2. its' = [its EXCEPT ![t] = With(its[t], k, k > 0, its[t].srp)]
        <3>1. its' = [its EXCEPT ![t] = With(its[t], k, TRUE, its[t].srp)]
            <4>1. [its EXCEPT ![t].refs = @ - 1] =
                      [its EXCEPT ![t] = With(its[t], its[t].refs - 1, its[t].live, its[t].srp)]
                BY <1>1, <1>3, TakeOne
            <4> QED
                BY <1>7, <1>9, <4>1
        <3> QED
            BY <2>1, <3>1
    <2> HIDE DEF k
    <2>3. Recount(t, k)
        BY <1>1, <1>2, <1>3, <1>7, <1>8, <2>1, <2>2 DEF Recount
    <2> QED
        BY <1>3, <1>7, <2>3, CountStep
<1>10. CASE /\ ~ (its[t].refs > 1) /\ its[t].srp = <<>>
            /\ its' = [its EXCEPT ![t].refs = 0, ![t].live = FALSE]
    <2>1. k = 0
        BY <1>4, <1>7, <1>10
    <2>2. its' = [its EXCEPT ![t] = With(its[t], k, k > 0, its[t].srp)]
        <3>1. its' = [its EXCEPT ![t] = With(its[t], 0, FALSE, its[t].srp)]
            BY <1>1, <1>3, <1>10, Gone
        <3>2. FALSE = (k > 0)
            BY <2>1
        <3> QED
            BY <2>1, <3>1, <3>2
    <2> HIDE DEF k
    <2>3. Recount(t, k)
        BY <1>1, <1>2, <1>3, <1>7, <1>8, <1>10, <2>2 DEF Recount
    <2> QED
        BY <1>3, <1>7, <2>3, CountStep
<1> QED
    BY <1>9, <1>10

\* The entries of one table change, and with them the counts of PGCs.
EnterAt(t, s) ==
    /\ its[t].live /\ s \in Seq(Nat) /\ Len(s) <= Len(its[t].want)
    /\ \A i \in DOMAIN s : s[i] \in 0 .. Len(pgcs')
    /\ its' = [its EXCEPT ![t] = With(its[t], its[t].refs, its[t].live, s)]
    /\ UNCHANGED <<ut, rel, vts>>
    /\ pgcs' \in Seq(PgcRec) /\ Len(pgcs) <= Len(pgcs')
    /\ \A p \in DOMAIN pgcs' : /\ pgcs'[p].refs = Uses(its', p)
                               /\ pgcs'[p].live = (pgcs'[p].refs > 0)

\* What EnterAt() does to the tables.
LEMMA Entered ==
    ASSUME Core, NEW t \in DOMAIN its, NEW s \in Seq(Nat),
           its' = [its EXCEPT ![t] = With(its[t], its[t].refs, its[t].live, s)]
    PROVE  /\ its \in Seq(ItRec) /\ its' \in Seq(ItRec)
           /\ DOMAIN its' = DOMAIN its /\ Len(its') = Len(its)
           /\ \A u \in DOMAIN its : u # t => its'[u] = its[u]
           /\ its'[t].srp = s
           /\ its'[t].refs = its[t].refs /\ its'[t].live = its[t].live
           /\ its'[t].want = its[t].want
<1> DEFINE r == With(its[t], its[t].refs, its[t].live, s)
<1>1. its \in Seq(ItRec)
    BY DEF Core, Shapes
<1>2. r \in ItRec
    <2>1. its[t].want \in Seq(Ids) /\ its[t].refs \in Nat /\ its[t].live \in BOOLEAN
        BY <1>1, ItType
    <2> QED
        BY <2>1 DEF ItRec, With
<1>3. r.refs = its[t].refs /\ r.live = its[t].live /\ r.want = its[t].want /\ r.srp = s
    BY DEF With
<1> HIDE DEF r
<1>4. its' = [its EXCEPT ![t] = r]
    BY DEF r
<1>5. /\ its' \in Seq(ItRec) /\ DOMAIN its' = DOMAIN its /\ Len(its') = Len(its) /\ its'[t] = r
      /\ \A u \in DOMAIN its : u # t => its'[u] = its[u]
    BY <1>1, <1>2, <1>4, ItSet
<1> QED
    BY <1>1, <1>3, <1>5

LEMMA EnterStep ==
    ASSUME Core, NEW t \in DOMAIN its, NEW s, EnterAt(t, s)
    PROVE  Core'
<1>0. /\ its[t].live /\ s \in Seq(Nat) /\ Len(s) <= Len(its[t].want)
      /\ \A i \in DOMAIN s : s[i] \in 0 .. Len(pgcs')
      /\ its' = [its EXCEPT ![t] = With(its[t], its[t].refs, its[t].live, s)]
      /\ UNCHANGED <<ut, rel, vts>>
      /\ pgcs' \in Seq(PgcRec) /\ Len(pgcs) <= Len(pgcs')
      /\ \A p \in DOMAIN pgcs' : /\ pgcs'[p].refs = Uses(its', p)
                                 /\ pgcs'[p].live = (pgcs'[p].refs > 0)
    BY DEF EnterAt
<1>1. /\ its \in Seq(ItRec) /\ its' \in Seq(ItRec)
      /\ DOMAIN its' = DOMAIN its /\ Len(its') = Len(its)
      /\ \A u \in DOMAIN its : u # t => its'[u] = its[u]
      /\ its'[t].srp = s
      /\ its'[t].refs = its[t].refs /\ its'[t].live = its[t].live
      /\ its'[t].want = its[t].want
    BY <1>0, Entered
<1>2. Shapes'
    BY <1>0, <1>1 DEF Core, Shapes
<1>3. Linked'
    <2>1. ASSUME NEW u \in DOMAIN its'
          PROVE  /\ Len(its'[u].want) <= MaxSrps /\ Len(its'[u].srp) <= Len(its'[u].want)
                 /\ \A i \in DOMAIN its'[u].srp : its'[u].srp[i] \in 0 .. Len(pgcs')
        <3>1. CASE u = t
            <4>1. Len(its[t].want) <= MaxSrps
                BY DEF Core, Linked
            <4> QED
                BY <1>0, <1>1, <3>1, <4>1
        <3>2. CASE u # t
            <4>1. u \in DOMAIN its /\ its'[u] = its[u]
                BY <1>1, <3>2
            <4>2. /\ Len(its[u].want) <= MaxSrps /\ Len(its[u].srp) <= Len(its[u].want)
                  /\ \A i \in DOMAIN its[u].srp : its[u].srp[i] \in 0 .. Len(pgcs)
                BY <4>1 DEF Core, Linked
            <4>3. 0 .. Len(pgcs) \subseteq 0 .. Len(pgcs')
                <5>1. Len(pgcs) \in Nat /\ Len(pgcs') \in Nat /\ Len(pgcs) <= Len(pgcs')
                    BY <1>0 DEF Core, Shapes
                <5> QED
                    BY <5>1
            <4> QED
                BY <4>1, <4>2, <4>3
        <3> QED
            BY <3>1, <3>2
    <2>2. vts' \in 0 .. Len(its')
        BY <1>0, <1>1 DEF Core, Linked
    <2>3. /\ \A i \in DOMAIN ut' : ut'[i] \in DOMAIN its'
          /\ \A i \in DOMAIN rel' : rel'[i] \in DOMAIN its'
        BY <1>0, <1>1 DEF Core, Linked
    <2> QED
        BY <2>1, <2>2, <2>3 DEF Linked
<1>4. Tallied'
    <2> SUFFICES ASSUME NEW u \in DOMAIN its'
                 PROVE  /\ its'[u].refs = Occ(ut', u) + Occ(rel', u) + (IF vts' = u THEN 1 ELSE 0)
                        /\ its'[u].live = (its'[u].refs > 0)
                        /\ ~its'[u].live => its'[u].srp = <<>>
        BY DEF Tallied
    <2>1. u \in DOMAIN its
        BY <1>1
    <2>2. /\ its[u].refs = Occ(ut, u) + Occ(rel, u) + (IF vts = u THEN 1 ELSE 0)
          /\ its[u].live = (its[u].refs > 0)
          /\ ~its[u].live => its[u].srp = <<>>
        BY <2>1 DEF Core, Tallied
    <2>3. its'[u].refs = its[u].refs /\ its'[u].live = its[u].live
        BY <1>1, <2>1
    <2>4. Occ(ut', u) = Occ(ut, u) /\ Occ(rel', u) = Occ(rel, u) /\ vts' = vts
        BY <1>0
    <2>5. ~its'[u].live => its'[u].srp = <<>>
        <3>1. CASE u = t
            BY <1>0, <1>1, <3>1
        <3>2. CASE u # t
            BY <1>1, <2>1, <2>2, <3>2
        <3> QED
            BY <3>1, <3>2
    <2> QED
        BY <2>2, <2>3, <2>4, <2>5
<1>5. Shared'
    BY <1>0 DEF Shared
<1> QED
    BY <1>2, <1>3, <1>4, <1>5 DEF Core

\* A PGC with another count.
WithCount(r, k) == [refs |-> k, live |-> k > 0, is |-> r.is]

LEMMA PgcFields ==
    ASSUME NEW T \in Seq(PgcRec), NEW p \in DOMAIN T
    PROVE  /\ T[p].live = TRUE =>
                [T EXCEPT ![p].refs = @ + 1] = [T EXCEPT ![p] = WithCount(T[p], T[p].refs + 1)]
           /\ [T EXCEPT ![p].refs = @ - 1, ![p].live = T[p].refs > 1] =
                [T EXCEPT ![p] = WithCount(T[p], T[p].refs - 1)]
<1>1. PICK w, x, y : T[p] = [refs |-> w, live |-> x, is |-> y]
    BY PgcType
<1>2. T[p].refs = w /\ T[p].live = x /\ T[p].is = y /\ w \in Nat
    <2>1. T[p].refs = w /\ T[p].live = x /\ T[p].is = y
        BY <1>1
    <2> QED
        BY <2>1, PgcType
<1>3. ASSUME NEW k
      PROVE  [T[p] EXCEPT !.refs = k] = [refs |-> k, live |-> x, is |-> y]
    BY <1>1, SMT
<1>4. ASSUME NEW k, NEW b
      PROVE  [[refs |-> k, live |-> x, is |-> y] EXCEPT !.live = b]
                 = [refs |-> k, live |-> b, is |-> y]
    BY SMT
<1>5. ASSUME T[p].live = TRUE
      PROVE  [T EXCEPT ![p].refs = @ + 1] = [T EXCEPT ![p] = WithCount(T[p], T[p].refs + 1)]
    <2>1. [T[p] EXCEPT !.refs = w + 1] = [refs |-> w + 1, live |-> TRUE, is |-> y]
        BY <1>2, <1>3, <1>5
    <2>2. TRUE = (w + 1 > 0)
        BY <1>2
    <2>3. [T[p] EXCEPT !.refs = w + 1] = WithCount(T[p], w + 1)
        BY <1>2, <2>1, <2>2 DEF WithCount
    <2> QED
        BY <1>2, <2>3
<1>6. [T EXCEPT ![p].refs = @ - 1, ![p].live = T[p].refs > 1] =
          [T EXCEPT ![p] = WithCount(T[p], T[p].refs - 1)]
    <2>1. [[T[p] EXCEPT !.refs = w - 1] EXCEPT !.live = w > 1]
              = [refs |-> w - 1, live |-> w > 1, is |-> y]
        BY <1>3, <1>4
    <2>2. (w > 1) = (w - 1 > 0)
        BY <1>2
    <2>3. [[T[p] EXCEPT !.refs = w - 1] EXCEPT !.live = w > 1] = WithCount(T[p], w - 1)
        BY <1>2, <2>1, <2>2 DEF WithCount
    <2>4. [T EXCEPT ![p].refs = @ - 1, ![p].live = T[p].refs > 1] =
              [T EXCEPT ![p] = [[T[p] EXCEPT !.refs = w - 1] EXCEPT !.live = w > 1]]
        BY <1>2
    <2> QED
        BY <1>2, <2>3, <2>4
<1> QED
    BY <1>5, <1>6

\* The counts after p's has become k.
LEMMA Recounted ==
    ASSUME NEW T \in Seq(PgcRec), NEW p \in DOMAIN T, NEW k \in Nat
    PROVE  LET U == [T EXCEPT ![p] = WithCount(T[p], k)]
           IN  /\ U \in Seq(PgcRec) /\ DOMAIN U = DOMAIN T /\ Len(U) = Len(T)
               /\ U[p].refs = k /\ U[p].live = (k > 0)
               /\ \A q \in DOMAIN T : q # p => U[q] = T[q]
<1> DEFINE r == WithCount(T[p], k)
<1>1. r \in PgcRec /\ r.refs = k /\ r.live = (k > 0)
    <2>1. T[p].is \in Results
        BY PgcType
    <2> HIDE DEF Results
    <2> QED
        BY <2>1 DEF WithCount, PgcRec
<1> HIDE DEF r
<1> QED
    BY <1>1, PgcSet DEF r

\* One more entry of table t.
Room(t) == its[t].live /\ Len(its[t].srp) < Len(its[t].want)

LEMMA AppendAt ==
    ASSUME Core, NEW t \in DOMAIN its, Room(t), NEW q \in Nat,
           its' = [its EXCEPT ![t].srp = Append(@, q)]
    PROVE  LET s == Append(its[t].srp, q)
           IN  /\ its' = [its EXCEPT ![t] = With(its[t], its[t].refs, its[t].live, s)]
               /\ its[t].live /\ s \in Seq(Nat) /\ Len(s) <= Len(its[t].want)
               /\ \A i \in DOMAIN s : s[i] \in 0 .. Len(pgcs) \/ s[i] = q
               /\ OneMore(its, its', q)
<1> DEFINE o == its[t].srp  s == Append(o, q)
<1>1. /\ its \in Seq(ItRec) /\ o \in Seq(Nat) /\ its[t].want \in Seq(Ids)
      /\ Len(its[t].want) <= MaxSrps
      /\ \A i \in DOMAIN o : o[i] \in 0 .. Len(pgcs)
    <2>1. its \in Seq(ItRec)
        BY DEF Core, Shapes
    <2>2. o \in Seq(Nat) /\ its[t].want \in Seq(Ids)
        BY <2>1, ItType
    <2> QED
        BY <2>1, <2>2 DEF Core, Linked
<1>2. its' = [its EXCEPT ![t] = With(its[t], its[t].refs, its[t].live, s)]
    <2>1. its' = [its EXCEPT ![t].srp = Append(@, q)]
        OBVIOUS
    <2>2. EnterIn(its, t, q) =
              [its EXCEPT ![t] = With(its[t], its[t].refs, its[t].live, Append(its[t].srp, q))]
        <3> HIDE DEF o, s
        <3>1. its \in Seq(ItRec) /\ t \in DOMAIN its
            BY <1>1
        <3> QED
            BY <3>1, OneEntered
    <2> QED
        BY <2>1, <2>2 DEF EnterIn
<1>3. /\ s \in Seq(Nat) /\ Len(s) = Len(o) + 1 /\ DOMAIN s = 1 .. Len(o) + 1
      /\ DOMAIN o = 1 .. Len(o) /\ Len(o) \in Nat
      /\ \A i \in 1 .. Len(o) : s[i] = o[i]
      /\ s[Len(o) + 1] = q
    <2> HIDE DEF o
    <2>1. /\ s \in Seq(Nat) /\ Len(s) = Len(o) + 1 /\ Len(o) \in Nat
          /\ \A i \in 1 .. Len(o) : s[i] = o[i]
          /\ s[Len(o) + 1] = q
        BY <1>1, AppendProperties
    <2> QED
        BY <1>1, <2>1
<1>4. Len(o) < Len(its[t].want) /\ Len(its[t].want) \in Nat /\ its[t].live
    BY <1>1 DEF Room
<1>5. \A i \in DOMAIN s : s[i] \in 0 .. Len(pgcs) \/ s[i] = q
    <2> SUFFICES ASSUME NEW i \in 1 .. Len(o) + 1
                 PROVE  s[i] \in 0 .. Len(pgcs) \/ s[i] = q
        BY <1>3
    <2>1. i = Len(o) + 1 \/ i \in 1 .. Len(o)
        BY <1>3
    <2> HIDE DEF o, s
    <2> QED
        BY <1>1, <1>3, <2>1
<1>6. Len(s) <= Len(its[t].want)
    BY <1>3, <1>4
<1>7. OneMore(its, its', q)
    <2>1. /\ its' \in Seq(ItRec) /\ DOMAIN its' = DOMAIN its /\ its'[t].srp = s
          /\ \A u \in DOMAIN its : u # t => its'[u] = its[u]
        <3> HIDE DEF s
        <3> QED
            BY <1>2, <1>3, Entered
    <2>2. Len(o) < MaxSrps
        <3>1. MaxSrps \in Nat
            BY DvdIfoAssumption
        <3> QED
            BY <1>1, <1>3, <1>4, <3>1
    <2>3. \A u \in DOMAIN its : u # t => its'[u].srp = its[u].srp
        BY <2>1
    <2>4. its'[t].srp = Append(its[t].srp, q) /\ Len(its[t].srp) < MaxSrps
        BY <2>1, <2>2
    <2>5. its \in Seq(ItRec) /\ its' \in Seq(ItRec) /\ DOMAIN its' = DOMAIN its
        BY <1>1, <2>1
    <2> HIDE DEF o, s
    <2>6. Added(its, its', t, q)
        BY <2>3, <2>4, <2>5 DEF Added
    <2> QED
        BY <2>5, <2>6, UsesEnter
<1> QED
    BY <1>2, <1>3, <1>4, <1>5, <1>6, <1>7

\* The entry of a PGC that cannot be read.
LEMMA EnterNull ==
    ASSUME Core, NEW t \in DOMAIN its, Room(t), UNCHANGED <<pgcs, ut, rel, vts>>,
           its' = [its EXCEPT ![t].srp = Append(@, Null)]
    PROVE  Core'
<1> DEFINE s == Append(its[t].srp, Null)
<1>1. /\ its' = [its EXCEPT ![t] = With(its[t], its[t].refs, its[t].live, s)]
      /\ its[t].live /\ s \in Seq(Nat) /\ Len(s) <= Len(its[t].want)
      /\ \A i \in DOMAIN s : s[i] \in 0 .. Len(pgcs) \/ s[i] = 0
      /\ OneMore(its, its', 0)
    <2>1. Null \in Nat /\ Null = 0
        BY DEF Null
    <2> QED
        BY <2>1, AppendAt
<1>2. /\ pgcs \in Seq(PgcRec) /\ Len(pgcs) \in Nat /\ DOMAIN pgcs = 1 .. Len(pgcs)
      /\ its \in Seq(ItRec)
    BY DEF Core, Shapes
<1> HIDE DEF s
<1>3. ASSUME NEW p \in DOMAIN pgcs'
      PROVE  pgcs'[p].refs = Uses(its', p) /\ pgcs'[p].live = (pgcs'[p].refs > 0)
    <2>1. p \in DOMAIN pgcs /\ p # 0
        BY <1>2
    <2>2. Uses(its', p) = Uses(its, p) /\ Uses(its, p) \in Nat
        <3>1. Uses(its, p) \in Nat
            BY <1>2, UsesType
        <3>2. Uses(its', p) = Uses(its, p)
            BY <1>1, <2>1 DEF OneMore
        <3> QED
            BY <3>1, <3>2
    <2> QED
        BY <2>1, <2>2 DEF Core, Shared
<1>4. EnterAt(t, s)
    <2>1. \A i \in DOMAIN s : s[i] \in 0 .. Len(pgcs')
        BY <1>1, <1>2
    <2>2. Len(pgcs) <= Len(pgcs') /\ pgcs' \in Seq(PgcRec)
        BY <1>2
    <2> QED
        BY <1>1, <1>3, <2>1, <2>2 DEF EnterAt
<1> QED
    BY <1>4, EnterStep

\* The entry of a PGC that has been read.
LEMMA EnterNew ==
    ASSUME Core, NEW t \in DOMAIN its, Room(t), UNCHANGED <<ut, rel, vts>>, NEW r \in Results,
           its' = [its EXCEPT ![t].srp = Append(@, Len(pgcs) + 1)],
           pgcs' = Append(pgcs, [refs |-> 1, live |-> TRUE, is |-> r])
    PROVE  Core'
<1> DEFINE n == Len(pgcs)  s == Append(its[t].srp, n + 1)
           new == [refs |-> 1, live |-> TRUE, is |-> r]
<1>1. /\ pgcs \in Seq(PgcRec) /\ n \in Nat /\ DOMAIN pgcs = 1 .. n /\ its \in Seq(ItRec)
    BY DEF Core, Shapes
<1>2. /\ its' = [its EXCEPT ![t] = With(its[t], its[t].refs, its[t].live, s)]
      /\ its[t].live /\ s \in Seq(Nat) /\ Len(s) <= Len(its[t].want)
      /\ \A i \in DOMAIN s : s[i] \in 0 .. n \/ s[i] = n + 1
      /\ OneMore(its, its', n + 1)
    <2>1. n + 1 \in Nat
        BY <1>1
    <2> HIDE DEF n
    <2>2. its' = [its EXCEPT ![t].srp = Append(@, n + 1)]
        BY DEF n
    <2> QED
        BY <2>1, <2>2, AppendAt DEF n
<1>3. /\ pgcs' \in Seq(PgcRec) /\ Len(pgcs') = n + 1 /\ DOMAIN pgcs' = 1 .. n + 1
      /\ \A p \in 1 .. n : pgcs'[p] = pgcs[p]
      /\ pgcs'[n + 1] = new
    <2>1. new \in PgcRec
        BY DEF PgcRec
    <2> HIDE DEF new, PgcRec
    <2>2. pgcs' = Append(pgcs, new)
        BY DEF new
    <2> QED
        BY <1>1, <2>1, <2>2, AppendProperties
<1>4. Uses(its, n + 1) = 0
    <2>1. Entry(its, n + 1) = {}
        <3> SUFFICES ASSUME NEW e \in Entry(its, n + 1)
                     PROVE  FALSE
            OBVIOUS
        <3>1. e[1] \in DOMAIN its /\ e[2] \in DOMAIN its[e[1]].srp
              /\ its[e[1]].srp[e[2]] = n + 1
            BY DEF Entry
        <3>2. its[e[1]].srp[e[2]] \in 0 .. n
            BY <3>1 DEF Core, Linked
        <3> QED
            BY <1>1, <3>1, <3>2
    <2> QED
        BY <2>1, FS_EmptySet DEF Uses
<1> HIDE DEF s
<1>5. ASSUME NEW p \in DOMAIN pgcs'
      PROVE  pgcs'[p].refs = Uses(its', p) /\ pgcs'[p].live = (pgcs'[p].refs > 0)
    <2>1. CASE p = n + 1
        <3>1. Uses(its', p) = 1
            <4>1. Uses(its', p) = Uses(its, p) + 1
                BY <1>2, <2>1 DEF OneMore
            <4>2. Uses(its, p) = 0
                BY <1>4, <2>1
            <4> QED
                BY <2>1, <4>1, <4>2
        <3>2. pgcs'[p].refs = 1 /\ pgcs'[p].live = TRUE
            BY <1>3, <2>1
        <3>3. (pgcs'[p].refs > 0) = TRUE
            BY <3>2
        <3> QED
            BY <3>1, <3>2, <3>3
    <2>2. CASE p # n + 1
        <3>1. p \in DOMAIN pgcs /\ pgcs'[p] = pgcs[p]
            BY <1>1, <1>3, <2>2
        <3>2. Uses(its', p) = Uses(its, p)
            BY <1>2, <2>2 DEF OneMore
        <3> QED
            BY <3>1, <3>2 DEF Core, Shared
    <2> QED
        BY <2>1, <2>2
<1>6. EnterAt(t, s)
    <2>1. \A i \in DOMAIN s : s[i] \in 0 .. Len(pgcs')
        <3>1. ASSUME NEW i \in DOMAIN s
              PROVE  s[i] \in 0 .. n + 1
            BY <1>1, <1>2
        <3> QED
            BY <1>3, <3>1
    <2>2. Len(pgcs) <= Len(pgcs')
        BY <1>1, <1>3
    <2> QED
        BY <1>2, <1>3, <1>5, <2>1, <2>2 DEF EnterAt
<1> QED
    BY <1>6, EnterStep

\* The entry of a PGC that another entry refers to.
LEMMA EnterShared ==
    ASSUME Core, NEW t \in DOMAIN its, Room(t), UNCHANGED <<ut, rel, vts>>,
           NEW d \in DOMAIN its[t].srp, its[t].srp[d] # Null,
           its' = [its EXCEPT ![t].srp = Append(@, its[t].srp[d])],
           pgcs' = Counted(its[t].srp[d])
    PROVE  Core'
<1> DEFINE q == its[t].srp[d]  s == Append(its[t].srp, q)
<1>1. /\ pgcs \in Seq(PgcRec) /\ Len(pgcs) \in Nat /\ DOMAIN pgcs = 1 .. Len(pgcs)
      /\ its \in Seq(ItRec)
    BY DEF Core, Shapes
<1>2. q \in DOMAIN pgcs /\ q \in Nat
    <2>1. q \in 0 .. Len(pgcs)
        BY DEF Core, Linked
    <2> QED
        BY <1>1, <2>1 DEF Null
<1>3. /\ its' = [its EXCEPT ![t] = With(its[t], its[t].refs, its[t].live, s)]
      /\ its[t].live /\ s \in Seq(Nat) /\ Len(s) <= Len(its[t].want)
      /\ \A i \in DOMAIN s : s[i] \in 0 .. Len(pgcs) \/ s[i] = q
      /\ OneMore(its, its', q)
    <2> HIDE DEF q
    <2>1. its' = [its EXCEPT ![t].srp = Append(@, q)]
        BY DEF q
    <2> QED
        BY <1>2, <2>1, AppendAt
<1>4. Uses(its, q) >= 1
    <2>1. Short(its)
        <3> SUFFICES ASSUME NEW u \in DOMAIN its
                     PROVE  Len(its[u].srp) <= MaxSrps
            BY DEF Short
        <3>1. its[u].srp \in Seq(Nat) /\ its[u].want \in Seq(Ids)
            BY <1>1, ItType
        <3>2. Len(its[u].srp) \in Nat /\ Len(its[u].want) \in Nat /\ MaxSrps \in Nat
            BY <3>1, DvdIfoAssumption
        <3>3. Len(its[u].want) <= MaxSrps /\ Len(its[u].srp) <= Len(its[u].want)
            BY DEF Core, Linked
        <3> QED
            BY <3>2, <3>3
    <2> QED
        BY <1>1, <2>1, UsesType
<1>5. /\ pgcs[q].refs = Uses(its, q) /\ pgcs[q].live = (pgcs[q].refs > 0)
      /\ pgcs[q].refs \in Nat
    BY <1>1, <1>2, PgcType DEF Core, Shared
<1>6. pgcs[q].live = TRUE
    <2>1. (pgcs[q].refs > 0) = TRUE
        BY <1>4, <1>5
    <2> QED
        BY <1>5, <2>1
<1> DEFINE k == pgcs[q].refs + 1
<1>7. pgcs' = [pgcs EXCEPT ![q] = WithCount(pgcs[q], k)]
    <2> HIDE DEF q
    <2>1. pgcs' = [pgcs EXCEPT ![q].refs = @ + 1]
        BY DEF q, Counted
    <2> QED
        BY <1>1, <1>2, <1>6, <2>1, PgcFields
<1> HIDE DEF q, s, k
<1>8. /\ pgcs' \in Seq(PgcRec) /\ DOMAIN pgcs' = DOMAIN pgcs /\ Len(pgcs') = Len(pgcs)
      /\ pgcs'[q].refs = k /\ pgcs'[q].live = (k > 0)
      /\ \A p \in DOMAIN pgcs : p # q => pgcs'[p] = pgcs[p]
    <2>1. k \in Nat
        BY <1>5 DEF k
    <2> QED
        BY <1>1, <1>2, <1>7, <2>1, Recounted
<1>9. ASSUME NEW p \in DOMAIN pgcs'
      PROVE  pgcs'[p].refs = Uses(its', p) /\ pgcs'[p].live = (pgcs'[p].refs > 0)
    <2>1. CASE p = q
        <3>1. Uses(its', q) = Uses(its, q) + 1
            BY <1>3 DEF OneMore
        <3>2. pgcs'[q].refs = Uses(its', q)
            BY <1>5, <1>8, <3>1 DEF k
        <3> QED
            BY <1>8, <2>1, <3>2
    <2>2. CASE p # q
        <3>1. p \in DOMAIN pgcs /\ pgcs'[p] = pgcs[p]
            BY <1>8, <2>2
        <3>2. Uses(its', p) = Uses(its, p)
            BY <1>3, <2>2 DEF OneMore
        <3> QED
            BY <3>1, <3>2 DEF Core, Shared
    <2> QED
        BY <2>1, <2>2
<1>10. EnterAt(t, s)
    <2>1. \A i \in DOMAIN s : s[i] \in 0 .. Len(pgcs')
        BY <1>1, <1>2, <1>3, <1>8
    <2>2. Len(pgcs) <= Len(pgcs')
        BY <1>1, <1>8
    <2> QED
        BY <1>3, <1>8, <1>9, <2>1, <2>2 DEF EnterAt
<1> QED
    BY <1>3, <1>10, EnterStep

\* ifoFree_PGC(), of the first of the remaining entries.
LEMMA DropStep ==
    ASSUME Core, NEW t \in DOMAIN its, its[t].srp # <<>>, UNCHANGED <<ut, rel, vts>>,
           its' = [its EXCEPT ![t].srp = Tail(@)], pgcs' = DropPgc(t)
    PROVE  Core'
<1> DEFINE o == its[t].srp  s == Tail(o)  q == Head(o)
<1>1. /\ pgcs \in Seq(PgcRec) /\ Len(pgcs) \in Nat /\ DOMAIN pgcs = 1 .. Len(pgcs)
      /\ its \in Seq(ItRec)
    BY DEF Core, Shapes
<1>2. /\ o \in Seq(Nat) /\ its[t].want \in Seq(Ids)
      /\ Len(its[t].want) <= MaxSrps /\ Len(o) <= Len(its[t].want)
      /\ \A i \in DOMAIN o : o[i] \in 0 .. Len(pgcs)
      /\ its[t].live
    BY <1>1, ItType DEF Core, Linked, Tallied
<1>3. /\ s \in Seq(Nat) /\ Len(s) = Len(o) - 1 /\ DOMAIN s = 1 .. Len(o) - 1
      /\ DOMAIN o = 1 .. Len(o) /\ Len(o) \in Nat /\ Len(o) >= 1
      /\ \A i \in 1 .. Len(o) - 1 : s[i] = o[i + 1]
      /\ q = o[1]
    <2> HIDE DEF o
    <2>0. o # <<>>
        BY DEF o
    <2>1. Len(o) \in Nat /\ Len(o) >= 1 /\ DOMAIN o = 1 .. Len(o) /\ q = o[1]
        BY <1>2, <2>0
    <2>2. /\ s \in Seq(Nat) /\ Len(s) = Len(o) - 1
          /\ \A i \in 1 .. Len(s) : s[i] = o[i + 1]
        BY <1>2, <2>0, HeadTailProperties
    <2>3. DOMAIN s = 1 .. Len(s)
        BY <2>2
    <2>4. DOMAIN s = 1 .. Len(o) - 1
        BY <2>2, <2>3
    <2> QED
        BY <2>1, <2>2, <2>4, Zenon
<1>4. q \in 0 .. Len(pgcs)
    <2>1. 1 \in DOMAIN o
        BY <1>3
    <2> QED
        BY <1>2, <1>3, <2>1
<1>5. its' = [its EXCEPT ![t] = With(its[t], its[t].refs, its[t].live, s)]
    BY <1>1, OneDropped
<1> HIDE DEF s
<1>6. /\ its' \in Seq(ItRec) /\ DOMAIN its' = DOMAIN its /\ its'[t].srp = s
      /\ \A u \in DOMAIN its : u # t => its'[u] = its[u]
    BY <1>3, <1>5, Entered
<1>7. OneMore(its', its, q)
    <2>1. Len(o) <= MaxSrps
        <3>1. MaxSrps \in Nat /\ Len(its[t].want) \in Nat
            BY <1>2, DvdIfoAssumption
        <3> QED
            BY <1>2, <1>3, <3>1
    <2>2. Dropped(its, its', t)
        BY <1>6, <2>1 DEF Dropped, s
    <2> QED
        BY <1>1, <1>6, <2>2, UsesDrop
<1>8. \A i \in DOMAIN s : s[i] \in 0 .. Len(pgcs)
    <2> SUFFICES ASSUME NEW i \in 1 .. Len(o) - 1
                 PROVE  s[i] \in 0 .. Len(pgcs)
        BY <1>3
    <2>1. i + 1 \in DOMAIN o /\ s[i] = o[i + 1]
        BY <1>3
    <2> QED
        BY <1>2, <2>1
<1>9. Len(s) <= Len(its[t].want)
    <2>1. Len(its[t].want) \in Nat
        BY <1>2
    <2> QED
        BY <1>2, <1>3, <2>1
<1> HIDE DEF o, q
<1>10. CASE q = Null
    <2>1. pgcs' = pgcs
        BY <1>10 DEF DropPgc, q, o
    <2>2. ASSUME NEW p \in DOMAIN pgcs'
          PROVE  pgcs'[p].refs = Uses(its', p) /\ pgcs'[p].live = (pgcs'[p].refs > 0)
        <3>1. p \in DOMAIN pgcs /\ p # q
            BY <1>1, <1>10, <2>1 DEF Null
        <3>2. Uses(its', p) = Uses(its, p)
            BY <1>7, <3>1 DEF OneMore
        <3> QED
            BY <2>1, <3>1, <3>2 DEF Core, Shared
    <2>3. Len(pgcs) <= Len(pgcs') /\ pgcs' \in Seq(PgcRec)
        BY <1>1, <2>1
    <2>4. EnterAt(t, s)
        BY <1>2, <1>3, <1>5, <1>8, <1>9, <2>1, <2>2, <2>3 DEF EnterAt
    <2> QED
        BY <2>4, EnterStep
<1>11. CASE q # Null
    <2> DEFINE k == pgcs[q].refs - 1
    <2>1. q \in DOMAIN pgcs
        BY <1>1, <1>4, <1>11 DEF Null
    <2>2. /\ pgcs[q].refs \in Nat /\ pgcs[q].refs = Uses(its, q)
          /\ Uses(its, q) = Uses(its', q) + 1 /\ Uses(its', q) \in Nat
        BY <1>1, <1>6, <1>7, <2>1, PgcType, UsesType DEF Core, Shared, OneMore
    <2>3. k \in Nat /\ k = Uses(its', q)
        BY <2>2
    <2>4. pgcs' = [pgcs EXCEPT ![q] = WithCount(pgcs[q], k)]
        <3>1. pgcs' = [pgcs EXCEPT ![q].refs = @ - 1, ![q].live = pgcs[q].refs > 1]
            BY <1>11 DEF DropPgc, q, o
        <3> QED
            BY <1>1, <2>1, <3>1, PgcFields
    <2> HIDE DEF k
    <2>5. /\ pgcs' \in Seq(PgcRec) /\ DOMAIN pgcs' = DOMAIN pgcs /\ Len(pgcs') = Len(pgcs)
          /\ pgcs'[q].refs = k /\ pgcs'[q].live = (k > 0)
          /\ \A p \in DOMAIN pgcs : p # q => pgcs'[p] = pgcs[p]
        <3>1. pgcs \in Seq(PgcRec) /\ q \in DOMAIN pgcs /\ k \in Nat
            BY <1>1, <2>1, <2>3
        <3> QED
            BY <2>4, <3>1, Recounted
    <2>6. ASSUME NEW p \in DOMAIN pgcs'
          PROVE  pgcs'[p].refs = Uses(its', p) /\ pgcs'[p].live = (pgcs'[p].refs > 0)
        <3>1. CASE p = q
            BY <2>3, <2>5, <3>1
        <3>2. CASE p # q
            <4>1. p \in DOMAIN pgcs /\ pgcs'[p] = pgcs[p]
                BY <2>5, <3>2
            <4>2. Uses(its', p) = Uses(its, p)
                BY <1>7, <3>2 DEF OneMore
            <4> QED
                BY <4>1, <4>2 DEF Core, Shared
        <3> QED
            BY <3>1, <3>2
    <2>7. EnterAt(t, s)
        <3>1. Len(pgcs) <= Len(pgcs')
            BY <1>1, <2>5
        <3> QED
            BY <1>2, <1>3, <1>5, <1>8, <1>9, <2>5, <2>6, <3>1 DEF EnterAt
    <2> QED
        BY <1>3, <2>7, EnterStep
<1> QED
    BY <1>10, <1>11

\* ifoClose() hands the tables of the handle over to the release.
LEMMA CloseStep ==
    ASSUME Core, rel = <<>>, rel' = ut \o (IF vts = Null THEN <<>> ELSE <<vts>>),
           ut' = <<>>, vts' = Null, UNCHANGED <<its, pgcs>>
    PROVE  Core'
<1>1. /\ its \in Seq(ItRec) /\ ut \in Seq(Nat) /\ vts \in Nat /\ vts \in 0 .. Len(its)
      /\ \A i \in DOMAIN ut : ut[i] \in DOMAIN its
      /\ DOMAIN its = 1 .. Len(its) /\ Len(its) \in Nat
    BY DEF Core, Shapes, Linked
<1>2. CASE vts = Null
    <2>1. rel' = ut
        BY <1>1, <1>2, ConcatEmptySeq
    <2>2. ASSUME NEW t \in DOMAIN its
          PROVE  /\ Occ(ut', t) + Occ(rel', t) + (IF vts' = t THEN 1 ELSE 0)
                    = Occ(ut, t) + Occ(rel, t) + (IF vts = t THEN 1 ELSE 0)
        <3>1. Occ(ut, t) \in Nat /\ Occ(<<>>, t) = 0 /\ t # Null
            BY <1>1, OccType, OccEmpty DEF Null
        <3> QED
            BY <1>2, <2>1, <3>1
    <2>3. Shapes' /\ Linked'
        BY <1>2, <2>1 DEF Core, Shapes, Linked
    <2>4. Tallied'
        BY <2>2 DEF Core, Tallied
    <2>5. Shared'
        BY DEF Core, Shared
    <2> QED
        BY <2>3, <2>4, <2>5 DEF Core
<1>3. CASE vts # Null
    <2>1. rel' = Append(ut, vts)
        BY <1>1, <1>3
    <2>2. /\ rel' \in Seq(Nat) /\ \A i \in DOMAIN rel' : rel'[i] \in DOMAIN its
        <3>1. /\ rel' \in Seq(Nat) /\ Len(rel') = Len(ut) + 1 /\ Len(ut) \in Nat
              /\ \A i \in 1 .. Len(ut) : rel'[i] = ut[i]
              /\ rel'[Len(ut) + 1] = vts
            BY <1>1, <2>1, AppendProperties
        <3>2. DOMAIN rel' = 1 .. Len(ut) + 1 /\ DOMAIN ut = 1 .. Len(ut)
            BY <1>1, <3>1
        <3>3. vts \in DOMAIN its
            BY <1>1, <1>3 DEF Null
        <3> QED
            BY <1>1, <3>1, <3>2, <3>3
    <2>3. ASSUME NEW t \in DOMAIN its
          PROVE  /\ Occ(ut', t) + Occ(rel', t) + (IF vts' = t THEN 1 ELSE 0)
                    = Occ(ut, t) + Occ(rel, t) + (IF vts = t THEN 1 ELSE 0)
        <3>1. /\ Occ(ut, t) \in Nat /\ Occ(<<>>, t) = 0 /\ t # Null
              /\ Occ(rel', t) = Occ(ut, t) + (IF t = vts THEN 1 ELSE 0)
            <4>1. Occ(rel', t) = Occ(ut, t) + (IF t = vts THEN 1 ELSE 0)
                <5>1. Occ(Append(ut, vts), t) = Occ(ut, t) + (IF t = vts THEN 1 ELSE 0)
                    BY <1>1, OccAppend
                <5> QED
                    BY <2>1, <5>1
            <4>2. Occ(ut, t) \in Nat /\ Occ(<<>>, t) = 0 /\ t # Null
                BY <1>1, OccType, OccEmpty DEF Null
            <4> QED
                BY <4>1, <4>2
        <3> QED
            BY <3>1
    <2>4. Shapes' /\ Linked'
        BY <2>2 DEF Core, Shapes, Linked, Null
    <2>5. Tallied'
        BY <2>3 DEF Core, Tallied
    <2>6. Shared'
        BY DEF Core, Shared
    <2> QED
        BY <2>4, <2>5, <2>6 DEF Core
<1> QED
    BY <1>2, <1>3

\* Nothing has been read of a new file.
Nothing == its = <<>> /\ pgcs = <<>> /\ ut = <<>> /\ rel = <<>> /\ vts = Null

LEMMA NothingRead == Nothing => Core
<1> SUFFICES ASSUME Nothing
             PROVE  Core
    OBVIOUS
<1> USE DEF Nothing
<1>1. DOMAIN <<>> = {} /\ Len(<<>>) = 0
    OBVIOUS
<1>2. Shapes
    BY DEF Shapes, Null
<1>3. Linked
    BY <1>1 DEF Linked, Null
<1>4. Tallied /\ Shared
    BY <1>1 DEF Tallied, Shared
<1> QED
    BY <1>2, <1>3, <1>4 DEF Core

\* The order in which tables are read, and what is left of it.
LEMMA OrderIs ==
    ASSUME NEW title
    PROVE  Order(title) \in Seq(Names) /\ Distinct(Order(title))
<1>1. Names = Range(Vmg) \cup Range(Vts)
    BY DEF Names, NoTables
<1>2. Vmg \in Seq(Range(Vmg)) /\ Vts \in Seq(Range(Vts))
    <2>1. DOMAIN Vmg = 1 .. 8 /\ Len(Vmg) = 8 /\ DOMAIN Vts = 1 .. 8 /\ Len(Vts) = 8
        BY DEF Vmg, Vts
    <2>2. Vmg = [i \in 1 .. 8 |-> Vmg[i]] /\ Vts = [i \in 1 .. 8 |-> Vts[i]]
        BY DEF Vmg, Vts
    <2>3. Vmg \in [1 .. 8 -> Range(Vmg)] /\ Vts \in [1 .. 8 -> Range(Vts)]
        BY <2>1, <2>2 DEF Range
    <2>4. ASSUME NEW S, NEW f \in [1 .. 8 -> S] PROVE f \in Seq(S)
        BY SeqDef
    <2>5. Vmg \in Seq(Range(Vmg))
        BY <2>3, <2>4
    <2>6. Vts \in Seq(Range(Vts))
        BY <2>3, <2>4
    <2> QED
        BY <2>5, <2>6
<1>3. Vmg \in Seq(Names) /\ Vts \in Seq(Names)
    BY <1>1, <1>2
<1>4. Distinct(Vmg) /\ Distinct(Vts)
    BY DEF Distinct, Vmg, Vts
<1> QED
    BY <1>3, <1>4 DEF Order

LEMMA TailIs ==
    ASSUME NEW s \in Seq(Names), Distinct(s), s # <<>>
    PROVE  /\ Tail(s) \in Seq(Names) /\ Distinct(Tail(s))
           /\ \A i \in DOMAIN Tail(s) : /\ i + 1 \in DOMAIN s /\ Tail(s)[i] = s[i + 1]
                                        /\ Tail(s)[i] # Head(s)
           /\ \A i \in DOMAIN s : s[i] # Head(s) => i - 1 \in DOMAIN Tail(s)
                                                    /\ Tail(s)[i - 1] = s[i]
<1> DEFINE n == Len(s)  t == Tail(s)
<1> HIDE DEF Names
<1>1. n \in Nat /\ n >= 1 /\ DOMAIN s = 1 .. n /\ Head(s) = s[1]
    OBVIOUS
<1>2. /\ t \in Seq(Names) /\ Len(t) = n - 1 /\ DOMAIN t = 1 .. Len(t)
      /\ \A i \in 1 .. Len(t) : t[i] = s[i + 1]
    BY HeadTailProperties
<1>3. DOMAIN t = 1 .. n - 1 /\ \A i \in 1 .. n - 1 : t[i] = s[i + 1]
    BY <1>2
<1> HIDE DEF n, t
<1>4. ASSUME NEW i \in DOMAIN t
      PROVE  i + 1 \in DOMAIN s /\ t[i] = s[i + 1] /\ t[i] # Head(s)
    <2>1. i + 1 \in DOMAIN s /\ t[i] = s[i + 1] /\ i + 1 # 1 /\ 1 \in DOMAIN s
        BY <1>1, <1>3
    <2> QED
        BY <1>1, <2>1 DEF Distinct
<1>5. Distinct(t)
    <2> SUFFICES ASSUME NEW i \in DOMAIN t, NEW j \in DOMAIN t, t[i] = t[j]
                 PROVE  i = j
        BY DEF Distinct
    <2>1. i + 1 \in DOMAIN s /\ t[i] = s[i + 1] /\ j + 1 \in DOMAIN s /\ t[j] = s[j + 1]
        BY <1>4
    <2>2. i + 1 = j + 1
        BY <2>1 DEF Distinct
    <2> QED
        BY <1>1, <1>3, <2>2
<1>6. ASSUME NEW i \in DOMAIN s, s[i] # Head(s)
      PROVE  i - 1 \in DOMAIN t /\ t[i - 1] = s[i]
    <2>1. i \in 2 .. n
        BY <1>1, <1>6
    <2>2. i - 1 \in 1 .. n - 1 /\ (i - 1) + 1 = i
        BY <1>1, <2>1
    <2> QED
        BY <1>3, <2>2
<1> QED
    BY <1>2, <1>4, <1>5, <1>6 DEF t

LEMMA PlanTail ==
    ASSUME Plan, todo # <<>>, todo' = Tail(todo), pc' \notin {"pgcs", "lus"}, vts' = vts
    PROVE  Plan'
<1>1. todo \in Seq(Names) /\ Distinct(todo)
    BY DEF Plan
<1>2. todo' \in Seq(Names) /\ Distinct(todo')
      /\ \A i \in DOMAIN todo' : i + 1 \in DOMAIN todo /\ todo'[i] = todo[i + 1]
                                 /\ todo'[i] # Head(todo)
    BY <1>1, TailIs
<1>3. ASSUME vts # Null, NEW i \in DOMAIN todo', todo'[i] = "PGCIT"
      PROVE  FALSE
    <2>1. i + 1 \in DOMAIN todo /\ todo[i + 1] = "PGCIT" /\ Head(todo) # "PGCIT"
        BY <1>2, <1>3
    <2>2. pc = "pgcs" /\ vts = Len(its)
        BY <1>3, <2>1 DEF Plan
    <2> QED
        BY <2>1, <2>2 DEF Plan
<1> QED
    BY <1>2, <1>3 DEF Plan

LEMMA PlanSame ==
    ASSUME Plan, todo' = todo, vts' = vts, pc # "pgcs", pc' \notin {"pgcs", "lus"}
    PROVE  Plan'
BY DEF Plan

\* Nothing is to be read, or all is.
LEMMA PlanNew ==
    ASSUME pc' \notin {"pgcs", "lus"}, vts' = Null, NEW title, todo' \in {<<>>, Order(title)}
    PROVE  Plan'
<1>1. <<>> \in Seq(Names) /\ Distinct(<<>>)
    BY DEF Distinct
<1>2. todo' \in Seq(Names) /\ Distinct(todo')
    BY <1>1, OrderIs
<1> QED
    BY <1>2 DEF Plan

LEMMA UnitsSame ==
    ASSUME Units, call' = call, lus' = lus, pc' # "idle" => call.title \in Titles,
           pc' \in {"idle", "null", "open", "failed"}
              \/ pc \notin {"idle", "null", "open", "failed"}
    PROVE  Units'
<1>1. LuIds' = LuIds
    BY DEF LuIds, Content
<1> QED
    BY <1>1 DEF Units

\* The program has not died, and does not in this step.
Lives == RefInv /\ pc # "died" /\ pc' # "died"

\* The same for the call and what it has allocated.
LEMMA CallStep ==
    ASSUME Lives, NEW kind, NEW title \in Titles, Call(kind, title)
    PROVE  RefInv'
<1>1. Core /\ Handle /\ Plan /\ Units
    BY DEF Lives, RefInv
<1>2. /\ pc \in {"idle", "null"} /\ pc' = "open" /\ call' = [kind |-> kind, title |-> title]
      /\ UNCHANGED <<todo, tables, pgcs, its, vts, ut, lus, rel, after>>
    BY DEF Call, data
<1>3. Core'
    BY <1>1, <1>2, RestStep
<1>4. Plan'
    BY <1>1, <1>2, PlanSame
<1>5. Handle'
    BY <1>1, <1>2 DEF Handle
<1>6. Units'
    <2>1. call'.title = title
        BY <1>2
    <2> QED
        BY <1>2, <2>1 DEF Units
<1> QED
    BY <1>3, <1>4, <1>5, <1>6 DEF RefInv

LEMMA OpenFileStep ==
    ASSUME Lives, OpenFile
    PROVE  RefInv'
<1>1. Core /\ Handle /\ Plan /\ Units
    BY DEF Lives, RefInv
<1>2. /\ pc = "open" /\ pc' \in {"failed", "vts", "vmg"} /\ pgcs' = <<>> /\ its' = <<>>
      /\ lus' = <<>> /\ UNCHANGED <<call, todo, tables, vts, ut, rel, after>>
    BY DEF OpenFile
<1>3. Core'
    <2>1. Nothing'
        BY <1>1, <1>2 DEF Nothing, Handle
    <2>2. Nothing' => Core'
        BY NothingRead, PTL
    <2> QED
        BY <2>1, <2>2
<1>4. Plan'
    BY <1>1, <1>2, PlanSame
<1>5. Handle'
    BY <1>1, <1>2 DEF Handle
<1>6. Units'
    BY <1>1, <1>2 DEF Units
<1> QED
    BY <1>3, <1>4, <1>5, <1>6 DEF RefInv

\* A step that leaves the objects and the call alone, and begins, gives up or goes on.
Onward == /\ UNCHANGED <<call, pgcs, its, vts, ut, lus, rel>>
          /\ pc \in {"vmg", "vts", "tables"}
          /\ \/ pc \in {"vmg", "vts"} /\ pc' = "tables" /\ todo' = Order(call.title)
             \/ pc' \in {"have", "vts"} /\ pc \in {"vmg", "vts"} /\ todo' = todo
             \/ pc' = "close" /\ after' = "failed" /\ todo' = todo
             \/ pc = "tables" /\ todo # <<>> /\ pc' = "tables" /\ todo' = Tail(todo)

LEMMA OnwardStep ==
    ASSUME Lives, Onward
    PROVE  RefInv'
<1>1. Core /\ Handle /\ Plan /\ Units
    BY DEF Lives, RefInv
<1>2. /\ UNCHANGED <<call, pgcs, its, vts, ut, lus, rel>>
      /\ pc \in {"vmg", "vts", "tables"} /\ pc' \in {"have", "vts", "close", "tables"}
      /\ pc' = "close" => after' = "failed"
    BY DEF Onward
<1>3. Core'
    BY <1>1, <1>2, RestStep
<1>4. Plan'
    <2>1. CASE pc \in {"vmg", "vts"} /\ pc' = "tables" /\ todo' = Order(call.title)
        <3>1. vts' = Null
            BY <1>1, <1>2, <2>1 DEF Handle
        <3> QED
            BY <1>2, <2>1, <3>1, PlanNew
    <2>2. CASE todo' = todo
        BY <1>1, <1>2, <2>2, PlanSame
    <2>3. CASE todo # <<>> /\ todo' = Tail(todo)
        BY <1>1, <1>2, <2>3, PlanTail
    <2> QED
        BY <2>1, <2>2, <2>3 DEF Onward
<1>5. Handle'
    <2>1. pc' = "vts" => pc \in {"vmg", "vts"}
        BY DEF Onward
    <2> QED
        BY <1>1, <1>2, <2>1 DEF Handle
<1>6. Units'
    BY <1>1, <1>2, UnitsSame DEF Units
<1> QED
    BY <1>3, <1>4, <1>5, <1>6 DEF RefInv

LEMMA HeaderStep ==
    ASSUME Lives, ReadVMG \/ ReadVTS
    PROVE  RefInv'
<1>1. UNCHANGED <<call, tables, pgcs, its, vts, ut, lus, rel>>
    BY DEF ReadVMG, ReadVTS
<1>2. pc \in {"vmg", "vts"} /\ (Begin \/ GiveUp \/ (pc' = "vts" /\ UNCHANGED <<todo, after>>))
    BY DEF ReadVMG, ReadVTS
<1>3. Onward
    BY <1>1, <1>2 DEF Onward, Begin, GiveUp
<1> QED
    BY <1>3, OnwardStep

LEMMA SimpleStep ==
    ASSUME Lives, ReadTable \/ ReadFP
    PROVE  RefInv'
<1>1. UNCHANGED <<call, pgcs, its, vts, ut, lus, rel>> /\ pc = "tables" /\ todo # <<>>
    BY DEF ReadTable, ReadFP, NextIs
<1>2. GiveUp \/ GoOn
    BY DEF ReadTable, ReadFP, Lives
<1>3. Onward
    BY <1>1, <1>2 DEF Onward, GiveUp, GoOn
<1> QED
    BY <1>3, OnwardStep

\* The first of the tables still to be read.
LEMMA HeadTodo ==
    ASSUME Plan, todo # <<>>
    PROVE  1 \in DOMAIN todo /\ todo[1] = Head(todo)
<1>1. todo \in Seq(Names)
    BY DEF Plan
<1> HIDE DEF Names
<1> QED
    BY <1>1

LEMMA PgcitStep ==
    ASSUME Lives, ReadPGCIT
    PROVE  RefInv'
<1>1. Core /\ Handle /\ Plan /\ Units
    BY DEF Lives, RefInv
<1>2. /\ pc = "tables" /\ todo # <<>> /\ Head(todo) = "PGCIT"
      /\ UNCHANGED <<call, tables, pgcs, ut, lus, rel>>
    BY DEF ReadPGCIT, NextIs
<1>3. CASE GiveUp /\ UNCHANGED <<its, vts>>
    <2>1. Onward
        BY <1>2, <1>3 DEF Onward, GiveUp
    <2> QED
        BY <2>1, OnwardStep
<1>4. CASE ~ (GiveUp /\ UNCHANGED <<its, vts>>)
    <2>1. "PGCIT" \in DOMAIN Content
        BY <1>4 DEF ReadPGCIT
    <2>2. PICK r \in Entries(File, Content["PGCIT"]) :
             /\ its' = Append(its, NewTable(r.want)) /\ vts' = Len(its) + 1
             /\ pc' = "pgcs" /\ UNCHANGED <<todo, after>>
        BY <1>4, <2>1 DEF ReadPGCIT
    <2>3. call.title \in Titles
        BY <1>1, <1>2 DEF Units
    <2>4. Listed(r)
        <3>1. WellFormed(Content, call.title)
            BY <2>3, DvdIfoAssumption DEF Content
        <3>2. /\ Content["PGCIT"].pgcs \in Seq(DOMAIN Content.pgcs)
              /\ Len(Content["PGCIT"].pgcs) <= MaxSrps
            BY <2>1, <3>1 DEF WellFormed
        <3>3. DOMAIN Content.pgcs \subseteq Ids
            BY <2>3 DEF Ids, Content
        <3>4. Content["PGCIT"].pgcs \in Seq(Ids)
            BY <3>2, <3>3
        <3> QED
            BY <3>2, <3>4, EntriesIs
    <2>5. vts = Null
        BY <1>1, <1>2, HeadTodo DEF Plan
    <2>6. Core' /\ its' # <<>> /\ its'[Len(its')].live /\ Len(its') = Len(its) + 1
        BY <1>1, <1>2, <2>2, <2>4, <2>5, NewTableStep
    <2>7. Plan'
        <3>1. vts' = Len(its')
            BY <2>2, <2>6
        <3> QED
            BY <1>1, <1>2, <2>2, <2>6, <3>1 DEF Plan
    <2>8. Handle'
        BY <1>1, <1>2, <2>2 DEF Handle
    <2>9. Units'
        BY <1>1, <1>2, <2>2, <2>3, UnitsSame
    <2> QED
        BY <2>6, <2>7, <2>8, <2>9 DEF RefInv
<1> QED
    BY <1>3, <1>4

\* The table whose entries are read: its entries are read in order, a duplicate refers
\* to one before.
LEMMA EntryRead ==
    ASSUME Lives, pc = "pgcs", NEW t, t = Len(its), NEW i, i = Len(its[t].srp) + 1
    PROVE  /\ t \in DOMAIN its /\ i \in Nat
           /\ ~(i > Len(its[t].want)) => Room(t)
           /\ FindDup(its[t].want, i) # 0 => FindDup(its[t].want, i) \in DOMAIN its[t].srp
<1>1. Core /\ Plan
    BY DEF Lives, RefInv
<1>2. its \in Seq(ItRec) /\ its # <<>>
    BY <1>1 DEF Core, Shapes, Plan
<1>3. t \in DOMAIN its /\ its[t].live
    <2>1. t \in DOMAIN its
        <3> HIDE DEF ItRec
        <3> QED
            BY <1>2
    <2> QED
        BY <1>1, <2>1 DEF Plan
<1> DEFINE o == its[t].srp  w == its[t].want
<1>4. o \in Seq(Nat) /\ w \in Seq(Ids)
    BY <1>2, <1>3, ItType
<1> HIDE DEF Ids, o, w
<1>5. Len(o) \in Nat /\ Len(w) \in Nat /\ DOMAIN o = 1 .. Len(o) /\ i = Len(o) + 1
    BY <1>4 DEF o
<1>6. FindDup(w, i) \in 0 .. i - 1
    BY <1>5, FindDupIs
<1>7. i \in Nat /\ (~(i > Len(w)) => Len(o) < Len(w))
    BY <1>5
<1>8. FindDup(w, i) # 0 => FindDup(w, i) \in DOMAIN o
    BY <1>5, <1>6
<1> QED
    BY <1>3, <1>7, <1>8 DEF Room, o, w

\* Its entry leaves the plan alone.
LEMMA EntryPlan ==
    ASSUME Lives, pc = "pgcs", NEW t, t = Len(its), Room(t), NEW q \in Nat,
           its' = [its EXCEPT ![t].srp = Append(@, q)], UNCHANGED <<pc, todo, vts>>
    PROVE  Plan'
<1>1. Core /\ Plan
    BY DEF Lives, RefInv
<1>2. t \in DOMAIN its
    BY EntryRead
<1> DEFINE s == Append(its[t].srp, q)
<1>3. s \in Seq(Nat) /\ its' = [its EXCEPT ![t] = With(its[t], its[t].refs, its[t].live, s)]
    BY <1>1, <1>2, AppendAt
<1>4. /\ DOMAIN its' = DOMAIN its /\ Len(its') = Len(its) /\ its'[t].live = its[t].live
      /\ its' \in Seq(ItRec)
    <2> HIDE DEF s
    <2> QED
        BY <1>1, <1>2, <1>3, Entered
<1>5. its' # <<>> /\ its'[Len(its')].live
    <2>1. DOMAIN <<>> = {}
        OBVIOUS
    <2> QED
        BY <1>2, <1>4, <2>1 DEF Room
<1> QED
    BY <1>1, <1>4, <1>5 DEF Plan

\* The entries of the table are read: the title's or those of a language unit.
LEMMA EntriesRead ==
    ASSUME Lives, pc = "pgcs", UNCHANGED <<call, its, pgcs, tables, vts, ut, lus, rel>>,
           \/ vts = Len(its) /\ GoOn
           \/ vts # Len(its) /\ pc' = "lus" /\ UNCHANGED <<todo, after>>
    PROVE  RefInv'
<1>1. Core /\ Handle /\ Plan /\ Units /\ todo # <<>>
    BY DEF Lives, RefInv, Plan
<1>2. Core'
    BY <1>1, RestStep
<1>3. pc' \in {"tables", "lus"} /\ UNCHANGED <<after>>
    BY DEF GoOn
<1>4. Plan'
    <2>1. CASE GoOn
        BY <1>1, <2>1, PlanTail DEF GoOn
    <2>2. CASE vts # Len(its) /\ pc' = "lus" /\ UNCHANGED <<todo, after>>
        BY <1>1, <2>2 DEF Plan
    <2> QED
        BY <2>1, <2>2
<1>5. Handle'
    BY <1>1, <1>3 DEF Handle
<1>6. Units'
    BY <1>1, <1>3, UnitsSame DEF Units
<1> QED
    BY <1>2, <1>4, <1>5, <1>6 DEF RefInv

LEMMA SrpStep ==
    ASSUME Lives, ReadSrp
    PROVE  RefInv'
<1>1. Core /\ Handle /\ Plan /\ Units
    BY DEF Lives, RefInv
<1>2. /\ pc = "pgcs" /\ pc' # "died" /\ UNCHANGED <<call, tables, vts, ut, lus, rel>>
    BY DEF ReadSrp, Lives
<1> DEFINE t == Len(its)  i == Len(its[t].srp) + 1  d == FindDup(its[t].want, i)
           p == its[t].srp[d]
<1>3. /\ t \in DOMAIN its /\ i \in Nat
      /\ ~(i > Len(its[t].want)) => Room(t)
      /\ d # 0 => d \in DOMAIN its[t].srp
    BY <1>2, EntryRead
<1>4. CASE i > Len(its[t].want)
    <2>1. /\ UNCHANGED <<its, pgcs>>
          /\ \/ vts = t /\ GoOn
             \/ vts # t /\ pc' = "lus" /\ UNCHANGED <<todo, after>>
        BY <1>4 DEF ReadSrp
    <2> QED
        BY <1>2, <2>1, EntriesRead
<1>5. CASE ~(i > Len(its[t].want))
    <2>1. Room(t) /\ UNCHANGED <<pc, todo, after>>
        <3>1. UNCHANGED <<todo, after>> /\ (pc' = pc \/ pc' = "died")
            BY <1>5 DEF ReadSrp
        <3> QED
            BY <1>2, <1>3, <1>5, <3>1
    <2>2. Core' /\ \E q \in Nat : its' = [its EXCEPT ![t].srp = Append(@, q)]
        <3>1. CASE d # 0
            <4>1. /\ p # Null /\ its' = [its EXCEPT ![t].srp = Append(@, p)]
                  /\ pgcs' = Counted(p)
                BY <1>2, <1>5, <3>1 DEF ReadSrp
            <4>2. Core'
                <5> HIDE DEF t, i, d
                <5> QED
                    BY <1>1, <1>2, <1>3, <2>1, <3>1, <4>1, EnterShared
            <4>3. p \in Nat
                BY <1>1, <1>3, <3>1 DEF Core, Linked
            <4> QED
                BY <4>1, <4>2, <4>3
        <3>2. CASE d = 0
            <4>1. PICK r \in PgcOf(File, its[t].want[i]) :
                     \/ /\ its' = [its EXCEPT ![t].srp = Append(@, Null)]
                        /\ pgcs' = pgcs
                     \/ /\ its' = [its EXCEPT ![t].srp = Append(@, Len(pgcs) + 1)]
                        /\ pgcs' = Append(pgcs, [refs |-> 1, live |-> TRUE, is |-> r])
                BY <1>5, <3>2 DEF ReadSrp
            <4>2. r \in Results
                BY PgcOfIs
            <4>3. Null \in Nat /\ Len(pgcs) + 1 \in Nat
                BY <1>1 DEF Core, Shapes, Null
            <4> HIDE DEF t, i, d
            <4>4. CASE /\ its' = [its EXCEPT ![t].srp = Append(@, Null)]
                       /\ pgcs' = pgcs
                <5>1. Core'
                    BY <1>1, <1>2, <1>3, <2>1, <4>4, EnterNull
                <5> QED
                    BY <4>3, <4>4, <5>1
            <4>5. CASE /\ its' = [its EXCEPT ![t].srp = Append(@, Len(pgcs) + 1)]
                       /\ pgcs' = Append(pgcs, [refs |-> 1, live |-> TRUE, is |-> r])
                <5>1. Core'
                    BY <1>1, <1>2, <1>3, <2>1, <4>2, <4>5, EnterNew
                <5> QED
                    BY <4>3, <4>5, <5>1
            <4> QED
                BY <4>1, <4>4, <4>5
        <3> QED
            BY <3>1, <3>2
    <2>3. Plan'
        BY <1>2, <2>1, <2>2, EntryPlan
    <2>4. Handle'
        BY <1>1, <1>2, <2>1 DEF Handle
    <2>5. Units'
        BY <1>1, <1>2, <2>1, UnitsSame DEF Units
    <2> QED
        BY <2>2, <2>3, <2>4, <2>5 DEF RefInv
<1> QED
    BY <1>4, <1>5

LEMMA UtStep ==
    ASSUME Lives, ReadUT
    PROVE  RefInv'
<1>1. Core /\ Handle /\ Plan /\ Units
    BY DEF Lives, RefInv
<1>2. /\ pc = "tables" /\ todo # <<>> /\ Head(todo) = "PGCI_UT"
      /\ UNCHANGED <<call, tables, pgcs, its, vts, ut, rel>>
    BY DEF ReadUT, NextIs
<1>3. CASE GoOn /\ UNCHANGED lus
    <2>1. Onward
        BY <1>2, <1>3 DEF Onward, GoOn
    <2> QED
        BY <2>1, OnwardStep
<1>4. CASE ~ (GoOn /\ UNCHANGED lus)
    <2>1. "PGCI_UT" \in DOMAIN Content
        BY <1>4 DEF ReadUT
    <2> DEFINE c == Content["PGCI_UT"]
    <2>2. /\ lus' = c.lus \/ lus' = [i \in 1 .. Len(c.lus) |-> Garbage]
          /\ pc' = "lus" /\ UNCHANGED <<todo, after>>
        BY <1>4, <2>1 DEF ReadUT
    <2>3. call.title \in Titles
        BY <1>1, <1>2 DEF Units
    <2>4. lus' \in Seq(LuIds)
        <3>1. WellFormed(Content, call.title)
            BY <2>3, DvdIfoAssumption DEF Content
        <3>2. c.lus \in Seq(DOMAIN Content.its)
            BY <2>1, <3>1 DEF WellFormed
        <3>3. DOMAIN Content.its \subseteq LuIds /\ Garbage \in LuIds
            BY DEF LuIds
        <3> HIDE DEF c, LuIds
        <3>4. c.lus \in Seq(LuIds) /\ Len(c.lus) \in Nat
            BY <3>2, <3>3
        <3>5. [i \in 1 .. Len(c.lus) |-> Garbage] \in Seq(LuIds)
            BY <3>3, <3>4
        <3> QED
            BY <2>2, <3>4, <3>5
    <2>5. Core'
        BY <1>1, <1>2, RestStep
    <2>6. Plan'
        BY <1>1, <1>2, <2>2 DEF Plan
    <2>7. Handle'
        BY <1>1, <1>2, <2>2 DEF Handle
    <2>8. Units'
        <3>1. LuIds' = LuIds
            BY <1>2 DEF LuIds, Content
        <3> QED
            BY <1>2, <2>3, <2>4, <3>1 DEF Units
    <2> QED
        BY <2>5, <2>6, <2>7, <2>8 DEF RefInv
<1> QED
    BY <1>3, <1>4

\* A language unit: it shares the table of another, or has one of its own, which is
\* read next or given up together with those before.
LEMMA LuStep ==
    ASSUME Lives, ReadLu
    PROVE  RefInv'
<1>1. Core /\ Handle /\ Plan /\ Units
    BY DEF Lives, RefInv
<1>2. /\ pc = "lus" /\ pc' # "died" /\ UNCHANGED <<call, tables, pgcs, vts, lus>>
      /\ todo # <<>> /\ Head(todo) = "PGCI_UT" /\ rel = <<>>
    BY <1>1 DEF ReadLu, Lives, Plan, Handle
<1> DEFINE i == Len(ut) + 1  d == FindDup(lus, i)
<1>3. /\ ut \in Seq(Nat) /\ Len(ut) \in Nat /\ DOMAIN ut = 1 .. Len(ut)
      /\ lus \in Seq(LuIds) /\ Len(its) \in Nat /\ vts \in 0 .. Len(its)
    BY <1>1, <1>2 DEF Core, Shapes, Linked, Units
<1>4. CASE i > Len(lus)
    <2>1. GoOn /\ UNCHANGED <<its, ut, rel>>
        BY <1>4 DEF ReadLu
    <2>2. Core'
        BY <1>1, <1>2, <2>1, RestStep
    <2>3. Plan'
        BY <1>1, <1>2, <2>1, PlanTail DEF GoOn
    <2>4. Handle'
        BY <1>1, <1>2, <2>1 DEF Handle, GoOn
    <2>5. Units'
        BY <1>1, <1>2, <2>1, UnitsSame DEF Units, GoOn
    <2> QED
        BY <2>2, <2>3, <2>4, <2>5 DEF RefInv
<1>5. CASE ~ (i > Len(lus)) /\ d # 0
    <2>1. /\ ut' = Append(ut, ut[d]) /\ its' = [its EXCEPT ![ut[d]].refs = @ + 1]
          /\ UNCHANGED <<pc, todo, after, rel>>
        BY <1>5 DEF ReadLu
    <2>2. d \in DOMAIN ut
        <3>1. d \in 0 .. i - 1
            BY <1>3, FindDupIs
        <3> HIDE DEF d
        <3> QED
            BY <1>3, <1>5, <3>1
    <2>3. Core'
        <3> HIDE DEF d, i
        <3> QED
            BY <1>1, <1>2, <2>1, <2>2, SharedLu
    <2>4. Plan'
        BY <1>1, <1>2, <2>1 DEF Plan
    <2>5. Handle'
        BY <1>1, <1>2, <2>1 DEF Handle
    <2>6. Units'
        BY <1>1, <1>2, <2>1, UnitsSame DEF Units
    <2> QED
        BY <2>3, <2>4, <2>5, <2>6 DEF RefInv
<1>6. CASE ~ (i > Len(lus)) /\ d = 0
    <2>1. PICK r \in EntriesOf(File, lus[i]) :
             /\ its' = Append(its, NewTable(r.want))
             /\ \/ Unwind(Append(ut, Len(its) + 1))
                \/ /\ ut' = Append(ut, Len(its) + 1) /\ pc' = "pgcs"
                   /\ UNCHANGED <<todo, after, rel>>
        BY <1>2, <1>6 DEF ReadLu
    <2>2. Listed(r)
        <3>1. lus[i] \in LuIds
            <4> HIDE DEF LuIds
            <4> QED
                BY <1>3, <1>6
        <3>2. call.title \in Titles
            BY <1>1, <1>2 DEF Units
        <3> QED
            BY <3>1, <3>2, EntriesOfIs
    <2>3. CASE Unwind(Append(ut, Len(its) + 1))
        <3>1. /\ pc' = "release" /\ rel' = Append(ut, Len(its) + 1) /\ after' = "tables"
              /\ ut' = <<>> /\ todo' = Tail(todo)
            BY <2>3 DEF Unwind
        <3>2. Core'
            BY <1>1, <1>2, <2>1, <2>2, <3>1, NewTableStep
        <3>3. Plan'
            BY <1>1, <1>2, <3>1, PlanTail
        <3>4. Handle'
            BY <1>1, <1>2, <3>1 DEF Handle
        <3>5. Units'
            BY <1>1, <1>2, <3>1, UnitsSame DEF Units
        <3> QED
            BY <3>2, <3>3, <3>4, <3>5 DEF RefInv
    <2>4. CASE /\ ut' = Append(ut, Len(its) + 1) /\ pc' = "pgcs"
               /\ UNCHANGED <<todo, after, rel>>
        <3>1. Core' /\ its' # <<>> /\ its'[Len(its')].live /\ Len(its') = Len(its) + 1
            BY <1>1, <1>2, <2>1, <2>2, <2>4, NewTableStep
        <3>2. Plan'
            <4>1. vts' # Len(its')
                BY <1>2, <1>3, <3>1
            <4> QED
                BY <1>1, <1>2, <2>4, <3>1, <4>1 DEF Plan
        <3>3. Handle'
            BY <1>1, <1>2, <2>4 DEF Handle
        <3>4. Units'
            BY <1>1, <1>2, <2>4, UnitsSame DEF Units
        <3> QED
            BY <3>1, <3>2, <3>3, <3>4 DEF RefInv
    <2> QED
        BY <2>1, <2>3, <2>4
<1> QED
    BY <1>4, <1>5, <1>6

\* Steps that leave the objects alone, without a table to be read.
LEMMA ReturnStep ==
    ASSUME Lives, Return \/ UserClose \/ Failed
    PROVE  RefInv'
<1>1. Core /\ Handle /\ Plan /\ Units
    BY DEF Lives, RefInv
<1>2. /\ UNCHANGED <<call, todo, tables, pgcs, its, vts, ut, lus, rel>>
      /\ \/ pc = "tables" /\ pc' = "have" /\ after' = after
         \/ pc = "have" /\ pc' = "close" /\ after' = "idle"
         \/ pc = "failed" /\ pc' \in {"open", "null"} /\ after' = after
    BY DEF Return, UserClose, Failed, data
<1>3. Core'
    BY <1>1, <1>2, RestStep
<1>4. Plan'
    BY <1>1, <1>2, PlanSame
<1>5. Handle'
    BY <1>1, <1>2 DEF Handle
<1>6. Units'
    BY <1>1, <1>2, UnitsSame DEF Units
<1> QED
    BY <1>3, <1>4, <1>5, <1>6 DEF RefInv

LEMMA CloseAll ==
    ASSUME Lives, Close
    PROVE  RefInv'
<1>1. Core /\ Handle /\ Plan /\ Units
    BY DEF Lives, RefInv
<1>2. /\ pc = "close" /\ pc' = "release" /\ todo' = <<>>
      /\ rel' = ut \o (IF vts = Null THEN <<>> ELSE <<vts>>)
      /\ ut' = <<>> /\ vts' = Null /\ UNCHANGED <<call, pgcs, its, lus, after>>
    BY DEF Close, Lives
<1>3. Core'
    BY <1>1, <1>2, CloseStep DEF Handle
<1>4. Plan'
    BY <1>2, PlanNew
<1>5. Handle'
    BY <1>1, <1>2 DEF Handle
<1>6. Units'
    BY <1>1, <1>2, UnitsSame DEF Units
<1> QED
    BY <1>3, <1>4, <1>5, <1>6 DEF RefInv

LEMMA ReleaseStep ==
    ASSUME Lives, Release
    PROVE  RefInv'
<1>1. Core /\ Handle /\ Plan /\ Units
    BY DEF Lives, RefInv
<1>2. /\ pc = "release" /\ UNCHANGED <<call, todo, tables, vts, ut, lus, after>>
    BY DEF Release
<1>3. CASE rel = <<>>
    <2>1. pc' = after /\ UNCHANGED <<its, pgcs, rel>>
        BY <1>3 DEF Release
    <2>2. pc' \in {"idle", "failed", "tables"} /\ (pc' # "tables" => vts = Null) /\ ut = <<>>
        BY <1>1, <1>2, <2>1 DEF Handle
    <2>3. Core'
        BY <1>1, <1>2, <2>1, RestStep
    <2>4. Plan'
        BY <1>1, <1>2, <2>2, PlanSame
    <2>5. Handle'
        BY <1>2, <1>3, <2>1, <2>2 DEF Handle
    <2>6. Units'
        BY <1>1, <1>2, <2>2, UnitsSame DEF Units
    <2> QED
        BY <2>3, <2>4, <2>5, <2>6 DEF RefInv
<1>4. CASE rel # <<>>
    <2> DEFINE t == Head(rel)
    <2>1. pc' = "release"
        BY <1>2, <1>4 DEF Release
    <2>2. t \in DOMAIN its
        <3>1. rel \in Seq(Nat) /\ \A i \in DOMAIN rel : rel[i] \in DOMAIN its
            BY <1>1 DEF Core, Shapes, Linked
        <3>2. 1 \in DOMAIN rel /\ t = rel[1]
            BY <1>4, <3>1
        <3> QED
            BY <3>1, <3>2
    <2>3. Core'
        <3>1. CASE its[t].refs > 1
            <4>1. its' = [its EXCEPT ![t].refs = @ - 1] /\ rel' = Tail(rel) /\ UNCHANGED pgcs
                BY <1>4, <3>1 DEF Release
            <4> QED
                BY <1>1, <1>2, <1>4, <3>1, <4>1, OneLess
        <3>2. CASE ~ (its[t].refs > 1) /\ ~Drained(t)
            <4>1. /\ pgcs' = DropPgc(t) /\ its' = [its EXCEPT ![t].srp = Tail(@)]
                  /\ UNCHANGED rel
                BY <1>4, <3>2 DEF Release
            <4>2. its[t].srp # <<>>
                BY <3>2 DEF Drained
            <4> HIDE DEF t
            <4> QED
                BY <1>1, <1>2, <2>2, <4>1, <4>2, DropStep
        <3>3. CASE ~ (its[t].refs > 1) /\ Drained(t)
            <4>1. /\ its' = [its EXCEPT ![t].refs = 0, ![t].live = FALSE]
                  /\ rel' = Tail(rel) /\ UNCHANGED pgcs
                BY <1>4, <3>3 DEF Release
            <4>2. its[t].srp = <<>>
                BY <3>3 DEF Drained
            <4> QED
                BY <1>1, <1>2, <1>4, <3>3, <4>1, <4>2, OneLess
        <3> QED
            BY <3>1, <3>2, <3>3
    <2>4. Plan'
        BY <1>1, <1>2, <2>1, PlanSame
    <2>5. Handle'
        BY <1>1, <1>2, <2>1 DEF Handle
    <2>6. Units'
        BY <1>1, <1>2, <2>1, UnitsSame DEF Units
    <2> QED
        BY <2>3, <2>4, <2>5, <2>6 DEF RefInv
<1> QED
    BY <1>3, <1>4

LEMMA RefInit == Init => RefInv
<1> SUFFICES ASSUME Init
             PROVE  RefInv
    OBVIOUS
<1>1. /\ pc = "idle" /\ its = <<>> /\ pgcs = <<>> /\ ut = <<>> /\ rel = <<>> /\ vts = Null
      /\ todo = <<>>
    BY DEF Init
<1>2. Core
    BY <1>1, NothingRead DEF Nothing
<1>3. Plan
    <2>1. <<>> \in Seq(Names) /\ Distinct(<<>>)
        BY DEF Distinct
    <2> QED
        BY <1>1, <2>1 DEF Plan
<1>4. Handle /\ Units
    BY <1>1 DEF Handle, Units
<1> QED
    BY <1>2, <1>3, <1>4 DEF RefInv

LEMMA RefStep == RefInv /\ [Next]_vars => RefInv'
<1> SUFFICES ASSUME RefInv, [Next]_vars
             PROVE  RefInv'
    OBVIOUS
<1>1. CASE UNCHANGED vars
    <2>1. UNCHANGED <<call, pc, todo, pgcs, its, vts, ut, lus, rel, after>>
        BY <1>1 DEF vars, data
    <2>2. ASSUME pc # "died"
          PROVE  RefInv'
        <3>1. Core /\ Handle /\ Plan /\ Units
            BY <2>2 DEF RefInv
        <3>2. Core'
            BY <2>1, <3>1, RestStep
        <3>3. Handle' /\ Plan'
            BY <2>1, <3>1 DEF Handle, Plan
        <3>4. Units'
            BY <2>1, <3>1 DEF Units, LuIds, Content
        <3> QED
            BY <3>2, <3>3, <3>4 DEF RefInv
    <2> QED
        BY <2>1, <2>2 DEF RefInv
<1>2. CASE Next
    <2>1. CASE pc' = "died"
        BY <2>1 DEF RefInv
    <2>2. CASE pc' # "died"
        <3>1. pc # "died"
            BY <1>2 DEF Next, Call, OpenFile, ReadVMG, ReadVTS, ReadTable, ReadFP, ReadPGCIT,
                        ReadSrp, ReadUT, ReadLu, Return, UserClose, Close, Release, Failed,
                        NextIs
        <3>2. Lives
            BY <2>2, <3>1 DEF Lives
        <3>3. CASE \E kind \in {"ifoOpen", "ifoOpenVMGI", "ifoOpenVTSI"}, title \in Titles :
                      Call(kind, title)
            BY <3>2, <3>3, CallStep
        <3>4. CASE OpenFile
            BY <3>2, <3>4, OpenFileStep
        <3>5. CASE ReadVMG \/ ReadVTS
            BY <3>2, <3>5, HeaderStep
        <3>6. CASE ReadTable \/ ReadFP
            BY <3>2, <3>6, SimpleStep
        <3>7. CASE ReadPGCIT
            BY <3>2, <3>7, PgcitStep
        <3>8. CASE ReadSrp
            BY <3>2, <3>8, SrpStep
        <3>9. CASE ReadUT
            BY <3>2, <3>9, UtStep
        <3>10. CASE ReadLu
            BY <3>2, <3>10, LuStep
        <3>11. CASE Return \/ UserClose \/ Failed
            BY <3>2, <3>11, ReturnStep
        <3>12. CASE Close
            BY <3>2, <3>12, CloseAll
        <3>13. CASE Release
            BY <3>2, <3>13, ReleaseStep
        <3> QED
            BY <1>2, <3>3, <3>4, <3>5, <3>6, <3>7, <3>8, <3>9, <3>10, <3>11, <3>12, <3>13
               DEF Next
    <2> QED
        BY <2>1, <2>2
<1> QED
    BY <1>1, <1>2

\* With no reference from a handle, and none to be released, nothing is left.
LEMMA AllGone ==
    ASSUME Core, ut = <<>>, rel = <<>>, vts = Null
    PROVE  /\ \A t \in DOMAIN its : ~its[t].live
           /\ \A p \in DOMAIN pgcs : ~pgcs[p].live
<1>1. ASSUME NEW t \in DOMAIN its
      PROVE  ~its[t].live /\ its[t].srp = <<>>
    <2>1. Occ(ut, t) = 0 /\ Occ(rel, t) = 0
        BY OccEmpty
    <2>2. t # Null
        BY DEF Core, Shapes, Null
    <2>3. /\ its[t].refs = Occ(ut, t) + Occ(rel, t) + (IF vts = t THEN 1 ELSE 0)
          /\ its[t].live = (its[t].refs > 0)
          /\ ~its[t].live => its[t].srp = <<>>
        BY DEF Core, Tallied
    <2>4. its[t].refs = 0
        BY <2>1, <2>2, <2>3
    <2>5. (its[t].refs > 0) = FALSE
        BY <2>4
    <2> QED
        BY <2>3, <2>5, Zenon
<1>2. ASSUME NEW p \in DOMAIN pgcs
      PROVE  ~pgcs[p].live
    <2>1. Uses(its, p) = 0
        BY <1>1, UsesNone DEF Core, Shapes
    <2>2. pgcs[p].refs = Uses(its, p) /\ pgcs[p].live = (pgcs[p].refs > 0)
        BY DEF Core, Shared
    <2>3. (pgcs[p].refs > 0) = FALSE
        BY <2>1, <2>2
    <2> QED
        BY <2>2, <2>3, Zenon
<1> QED
    BY <1>1, <1>2

LEMMA RefCounts == RefInv => RefsCounted
<1> SUFFICES ASSUME RefInv
             PROVE  RefsCounted
    OBVIOUS
<1>1. pc # "died" => Core /\ Handle
    BY DEF RefInv
<1>2. Counts
    <2> SUFFICES ASSUME pc # "died"
                 PROVE  /\ \A t \in DOMAIN its : /\ its[t].refs = TableRefs(t)
                                                 /\ its[t].live = (its[t].refs > 0)
                        /\ \A p \in DOMAIN pgcs : /\ pgcs[p].refs = PgcRefs(p)
                                                  /\ pgcs[p].live = (pgcs[p].refs > 0)
        BY DEF Counts
    <2>1. \A t : TableRefs(t) = Occ(ut, t) + Occ(rel, t) + (IF vts = t THEN 1 ELSE 0)
        BY DEF TableRefs, Occ, Places
    <2>2. \A p : PgcRefs(p) = Uses(its, p)
        BY DEF PgcRefs, Uses, Entry
    <2> QED
        BY <1>1, <2>1, <2>2 DEF Core, Tallied, Shared
<1>3. NothingLeft
    BY <1>1, AllGone DEF Handle, NothingLeft
<1> QED
    BY <1>2, <1>3 DEF RefsCounted

\* The reference count of every shared PGC and PGCI table is the number of the entries,
\* language units and handles that refer to it, and none is left when a handle has been
\* closed or an open has failed: for any discs and any contents, whatever is damaged,
\* wherever an open gives up (ifoRead_PGCIT_internal(), ifoRead_PGCI_UT(),
\* ifoFree_PGCIT_internal(), ifoFree_PGC(), ifoClose()).
THEOREM RefsAreCounted == Spec => []RefsCounted
BY RefInit, RefStep, RefCounts, PTL DEF Spec

-------------------------------------------------------------------------------
(***************************************************************************)
(* A handle has its mandatory tables                                       *)
(***************************************************************************)
\* One table has been read, or another is next.
LEMMA HeadsOn ==
    ASSUME Plan, HeadsSoFar, todo # <<>>, todo' = Tail(todo), call' = call,
           \A n \in Names : n # Head(todo) => tables'[n] = tables[n],
           Head(todo) \in Heads => tables'[Head(todo)] \in {"whole", "torn"}
    PROVE  HeadsSoFar'
<1>1. todo \in Seq(Names) /\ Distinct(todo)
    BY DEF Plan
<1>2. \A i \in DOMAIN todo : todo[i] # Head(todo) => /\ i - 1 \in DOMAIN todo'
                                                     /\ todo'[i - 1] = todo[i]
    BY <1>1, TailIs
<1> SUFFICES ASSUME NEW n \in Range(Order(call.title)) \cap Heads
             PROVE  ToRead(n)' \/ tables'[n] \in {"whole", "torn"}
    BY DEF HeadsSoFar
<1>3. ToRead(n) \/ tables[n] \in {"whole", "torn"}
    BY DEF HeadsSoFar
<1>4. n \in Names
    BY DEF Heads, Mandatory, Names, NoTables, Range, Vmg, Vts
<1>5. CASE n = Head(todo)
    BY <1>5
<1>6. CASE n # Head(todo) /\ ToRead(n)
    BY <1>2, <1>6 DEF ToRead
<1>7. CASE n # Head(todo) /\ tables[n] \in {"whole", "torn"}
    BY <1>4, <1>7
<1> QED
    BY <1>3, <1>5, <1>6, <1>7

LEMMA TableIs ==
    ASSUME NEW f, NEW c, NEW cut, NEW zero
    PROVE  Table(f, c, cut, zero) \subseteq {cut, zero, "none", "torn", "whole"}
<1> SUFFICES ASSUME NEW r \in Table(f, c, cut, zero)
             PROVE  r \in {cut, zero, "none", "torn", "whole"}
    OBVIOUS
<1>1. PICK h \in Got(f, c.head), b \in Got(f, c.body) :
         r = IF h = "short" THEN cut
             ELSE IF h = "lost" THEN zero
             ELSE IF b = "short" THEN "none"
             ELSE IF b = "lost" THEN "torn"
             ELSE "whole"
    BY DEF Table
<1> QED
    BY <1>1

\* A mandatory table that has been accepted has a head.
LEMMA SimpleIs ==
    ASSUME NEW f, NEW n
    PROVE  /\ SimpleTable(f, n) \subseteq Results
           /\ n \in Heads => SimpleTable(f, n) \subseteq {"none", "stale", "torn", "whole"}
<1>1. CASE n \notin DOMAIN Content
    BY <1>1 DEF SimpleTable, Results
<1>2. CASE n \in DOMAIN Content
    <2> DEFINE c == Content[n]
    <2>1. SimpleTable(f, n) =
            CASE n = "TT_SRPT"      -> TT_SRPT(f, c)
              [] n = "VTS_ATRT"     -> VTS_ATRT(f, c)
              [] n = "VTS_PTT_SRPT" -> VTS_PTT_SRPT(f, c)
              [] n = "VTS_TMAPT"    -> VTS_TMAPT(f, c)
              [] n = "PTL_MAIT"     -> PTL_MAIT(f, c)
              [] n = "TXTDT_MGI"    -> TXTDT_MGI(f, c)
              [] n \in {"C_ADT", "TITLE_C_ADT"} -> C_ADT(f, c)
              [] OTHER -> VOBU_ADMAP(f, c)
        BY <1>2 DEF SimpleTable
    <2> DEFINE S == {"none", "stale", "torn", "whole"}
    <2>2. /\ TT_SRPT(f, c) \subseteq S /\ VTS_ATRT(f, c) \subseteq S
          /\ VTS_PTT_SRPT(f, c) \subseteq S /\ VTS_TMAPT(f, c) \subseteq S
          /\ C_ADT(f, c) \subseteq S /\ VOBU_ADMAP(f, c) \subseteq S
        <3> HIDE DEF c
        <3>1. /\ Table(f, c, "stale", "none") \subseteq S
              /\ Table(f, c, "none", "none") \subseteq S
            BY TableIs
        <3> HIDE DEF S
        <3> QED
            BY <3>1 DEF TT_SRPT, VTS_ATRT, VTS_PTT_SRPT, VTS_TMAPT, C_ADT, VOBU_ADMAP
    <2>3. PTL_MAIT(f, c) \subseteq Results /\ TXTDT_MGI(f, c) \subseteq Results
        <3> HIDE DEF c
        <3>1. Table(f, c, "none", "empty") \subseteq Results
            BY TableIs DEF Results
        <3> QED
            BY <3>1 DEF PTL_MAIT, TXTDT_MGI
    <2>4. S \subseteq Results
        BY DEF Results
    <2>5. n \in Heads => n \notin {"PTL_MAIT", "TXTDT_MGI"}
        BY DEF Heads, Mandatory
    <2> HIDE DEF c, S
    <2>6. n \in {"PTL_MAIT", "TXTDT_MGI"} => SimpleTable(f, n) \subseteq Results
        BY <2>1, <2>3
    <2>7. n \notin {"PTL_MAIT", "TXTDT_MGI"} => SimpleTable(f, n) \subseteq S
        BY <2>1, <2>2
    <2> QED
        BY <2>4, <2>5, <2>6, <2>7 DEF S
<1> QED
    BY <1>1, <1>2

\* Nothing happens to the tables, and none is taken off the list.
LEMMA HeadsSame ==
    ASSUME HeadInv, UNCHANGED <<call, tables, todo>>, Filling' => Filling,
           pc' = "have" => todo = <<>> \/ call.kind # "ifoOpen"
    PROVE  HeadInv'
BY DEF HeadInv, HeadsSoFar, ToRead

\* A step that goes on to the next table.
LEMMA HeadsGoOn ==
    ASSUME HeadInv, Plan, Filling, todo # <<>>, todo' = Tail(todo), call' = call,
           pc' # "have", tables' = tables, Head(todo) \notin Heads
    PROVE  HeadInv'
<1>1. call.kind = "ifoOpen" => HeadsSoFar
    BY DEF HeadInv
<1>2. HeadsSoFar => HeadsSoFar'
    BY HeadsOn
<1> QED
    BY <1>1, <1>2 DEF HeadInv

\* A step after which no handle is being filled.
LEMMA HeadsDone ==
    ASSUME HeadInv, tables' \in [Names -> Results], ~(call'.kind = "ifoOpen" /\ Filling')
    PROVE  HeadInv'
BY DEF HeadInv

LEMMA HeadInit == Init => HeadInv
<1> SUFFICES ASSUME Init
             PROVE  HeadInv
    OBVIOUS
<1>1. pc = "idle" /\ tables = NoTables
    BY DEF Init
<1>2. NoTables \in [Names -> Results]
    BY DEF NoTables, Names, Results
<1> QED
    BY <1>1, <1>2 DEF HeadInv, Filling

LEMMA HeadTable ==
    ASSUME HeadInv, Plan, ReadTable \/ ReadFP
    PROVE  HeadInv'
<1>1. /\ pc = "tables" /\ todo # <<>> /\ call' = call /\ Filling
    BY DEF ReadTable, ReadFP, NextIs, Filling
<1>2. tables \in [Names -> Results] /\ (call.kind = "ifoOpen" => HeadsSoFar)
    BY <1>1 DEF HeadInv
<1>3. CASE ReadTable
    <2>0. PICK n \in DOMAIN tables : \E r \in SimpleTable(File, n) :
             /\ Head(todo) = n /\ tables' = [tables EXCEPT ![n] = r]
             /\ IF r \in {"none", "stale"} /\ n \in Mandatory THEN GiveUp ELSE GoOn
        BY <1>3 DEF ReadTable, NextIs
    <2>1. PICK r \in SimpleTable(File, n) :
             /\ Head(todo) = n /\ tables' = [tables EXCEPT ![n] = r]
             /\ IF r \in {"none", "stale"} /\ n \in Mandatory THEN GiveUp ELSE GoOn
        BY <2>0
    <2>2. /\ r \in Results /\ n \in Names
          /\ n \in Heads => r \in {"none", "stale", "torn", "whole"} /\ n \in Mandatory
        BY <1>2, <2>1, SimpleIs DEF Heads
    <2>3. tables' \in [Names -> Results] /\ tables'[n] = r
          /\ \A m \in Names : m # n => tables'[m] = tables[m]
        <3> HIDE DEF Names, Results
        <3> QED
            BY <1>2, <2>1, <2>2
    <2>4. CASE GiveUp
        BY <2>3, <2>4, HeadsDone DEF GiveUp, Filling
    <2>5. CASE GoOn /\ ~(r \in {"none", "stale"} /\ n \in Mandatory)
        <3>1. pc' = "tables" /\ todo' = Tail(todo)
            BY <2>5 DEF GoOn
        <3>2. n \in Heads => tables'[n] \in {"torn", "whole"}
            BY <2>2, <2>3, <2>5
        <3>3. HeadsSoFar => HeadsSoFar'
            BY <1>1, <2>1, <2>3, <3>1, <3>2, HeadsOn
        <3> QED
            BY <1>1, <1>2, <2>3, <3>1, <3>3 DEF HeadInv
    <2> QED
        BY <2>1, <2>4, <2>5
<1>4. CASE ReadFP
    <2>0. Head(todo) = "FP_PGC" /\ "FP_PGC" \notin Heads
        BY <1>4 DEF ReadFP, NextIs, Heads
    <2>1. PICK r \in Results \cup {tables["FP_PGC"]} : tables' = [tables EXCEPT !["FP_PGC"] = r]
        <3>1. CASE "FP_PGC" \notin DOMAIN Content
            <4>1. tables' = tables
                BY <1>4, <3>1 DEF ReadFP
            <4>2. tables = [tables EXCEPT !["FP_PGC"] = tables["FP_PGC"]]
                BY <1>2
            <4> QED
                BY <4>1, <4>2
        <3>2. CASE "FP_PGC" \in DOMAIN Content
            <4>1. PICK r \in PGC(File, Content["FP_PGC"]) :
                     tables' = [tables EXCEPT !["FP_PGC"] = IF r = "stale" THEN "none" ELSE r]
                BY <1>4, <3>2 DEF ReadFP
            <4>2. r \in Results /\ "none" \in Results
                BY PgcIs DEF Results
            <4> HIDE DEF Results
            <4> QED
                BY <4>1, <4>2
        <3> QED
            BY <3>1, <3>2
    <2>2. "FP_PGC" \in Names
        BY DEF Names, NoTables, Range, Vmg, Vts
    <2>3. /\ tables' \in [Names -> Results]
          /\ \A m \in Names : m # "FP_PGC" => tables'[m] = tables[m]
        <3> HIDE DEF Names, Results
        <3>1. r \in Results
            BY <1>2, <2>1, <2>2
        <3> QED
            BY <1>2, <2>1, <2>2, <3>1
    <2>4. pc' = "died" \/ GiveUp \/ GoOn
        BY <1>4 DEF ReadFP
    <2>5. CASE pc' = "died" \/ GiveUp
        BY <2>3, <2>5, HeadsDone DEF GiveUp, Filling
    <2>6. CASE GoOn
        <3>1. pc' = "tables" /\ todo' = Tail(todo)
            BY <2>6 DEF GoOn
        <3>2. HeadsSoFar => HeadsSoFar'
            BY <1>1, <2>0, <2>3, <3>1, HeadsOn
        <3> QED
            BY <1>1, <1>2, <2>3, <3>1, <3>2 DEF HeadInv
    <2> QED
        BY <2>4, <2>5, <2>6
<1> QED
    BY <1>3, <1>4

LEMMA HeadStep == RefInv /\ HeadInv /\ [Next]_vars => HeadInv'
<1> SUFFICES ASSUME RefInv, HeadInv, [Next]_vars
             PROVE  HeadInv'
    OBVIOUS
<1>0. pc # "died" => Plan /\ Handle
    BY DEF RefInv
<1>t. tables \in [Names -> Results]
    BY DEF HeadInv
<1>1. CASE \E kind \in Kinds, title \in Titles : Call(kind, title)
    <2>1. pc' = "open" /\ tables' = tables
        BY <1>1 DEF Call, data
    <2> QED
        BY <1>t, <2>1, HeadsDone DEF Filling
<1>2. CASE OpenFile \/ UserClose \/ Failed
    <2>1. tables' = tables /\ pc' \in {"failed", "vts", "vmg", "close", "open", "null"}
        BY <1>2 DEF OpenFile, UserClose, Failed, data
    <2> QED
        BY <1>t, <2>1, HeadsDone DEF Filling
<1>3. CASE ReadVMG \/ ReadVTS
    <2>1. UNCHANGED <<call, tables>> /\ (Begin \/ pc' \in {"close", "vts"})
        BY <1>3 DEF ReadVMG, ReadVTS, GiveUp
    <2>2. CASE Begin /\ call.kind = "ifoOpen"
        <3>1. pc' = "tables" /\ todo' = Order(call.title)
            BY <2>2 DEF Begin
        <3>2. HeadsSoFar'
            BY <2>1, <3>1 DEF HeadsSoFar, ToRead, Range
        <3> QED
            BY <1>t, <2>1, <3>1, <3>2 DEF HeadInv
    <2>3. CASE call.kind # "ifoOpen" \/ pc' \in {"close", "vts"}
        BY <1>t, <2>1, <2>3, HeadsDone DEF Filling
    <2> QED
        BY <2>1, <2>2, <2>3
<1>4. CASE ReadTable \/ ReadFP
    BY <1>0, <1>4, HeadTable DEF ReadTable, ReadFP, NextIs
<1>5. CASE ReadPGCIT
    <2>1. /\ UNCHANGED <<call, tables, todo>> /\ pc = "tables" /\ pc' \in {"close", "pgcs"}
        BY <1>5 DEF ReadPGCIT, NextIs, GiveUp
    <2> QED
        BY <2>1, HeadsSame DEF Filling
<1>6. CASE ReadSrp
    <2>1. /\ UNCHANGED <<call, tables>> /\ pc = "pgcs"
          /\ \/ vts = Len(its) /\ GoOn
             \/ pc' \in {"lus", "pgcs"} /\ todo' = todo
             \/ pc' = "died"
        BY <1>6 DEF ReadSrp
    <2>2. CASE vts = Len(its) /\ GoOn
        <3>1. todo # <<>> /\ Head(todo) = "PGCIT" /\ "PGCIT" \notin Heads /\ Plan
            BY <1>0, <2>1, <2>2 DEF Plan, Heads
        <3> QED
            BY <2>1, <2>2, <3>1, HeadsGoOn DEF GoOn, Filling
    <2>3. CASE pc' \in {"lus", "pgcs"} /\ todo' = todo
        BY <2>1, <2>3, HeadsSame DEF Filling
    <2>4. CASE pc' = "died"
        BY <1>t, <2>1, <2>4, HeadsDone DEF Filling
    <2> QED
        BY <2>1, <2>2, <2>3, <2>4
<1>7. CASE ReadUT \/ ReadLu
    <2>1. /\ UNCHANGED <<call, tables>> /\ pc \in {"tables", "lus"}
          /\ \/ pc' \in {"tables", "release"} /\ todo' = Tail(todo)
             \/ pc' \in {"lus", "pgcs"} /\ todo' = todo
             \/ pc' = "died"
        BY <1>7 DEF ReadUT, ReadLu, NextIs, GoOn, Unwind
    <2>2. CASE pc' \in {"tables", "release"} /\ todo' = Tail(todo)
        <3>1. todo # <<>> /\ Head(todo) = "PGCI_UT" /\ "PGCI_UT" \notin Heads /\ Plan
            BY <1>0, <1>7 DEF Plan, Heads, Mandatory, ReadUT, ReadLu, NextIs
        <3> QED
            BY <2>1, <2>2, <3>1, HeadsGoOn DEF Filling
    <2>3. CASE pc' \in {"lus", "pgcs"} /\ todo' = todo
        BY <2>1, <2>3, HeadsSame DEF Filling
    <2>4. CASE pc' = "died"
        BY <1>t, <2>1, <2>4, HeadsDone DEF Filling
    <2> QED
        BY <2>1, <2>2, <2>3, <2>4
<1>8. CASE Return
    BY <1>8, HeadsSame DEF Return, data, Filling
<1>9. CASE Close
    <2>1. /\ pc = "close" /\ pc' \in {"release", "died"} /\ tables' = NoTables
          /\ after' = after
        BY <1>9 DEF Close
    <2>2. NoTables \in [Names -> Results]
        BY DEF NoTables, Names, Results
    <2>3. after # "tables"
        BY <1>0, <2>1 DEF Handle
    <2> QED
        BY <2>1, <2>2, <2>3, HeadsDone DEF Filling
<1>10. CASE Release
    <2>1. /\ pc = "release" /\ UNCHANGED <<call, tables, todo, after>>
          /\ pc' = "release" \/ pc' = after
        BY <1>10 DEF Release
    <2>2. after \in {"idle", "failed", "tables"}
        BY <1>0, <2>1 DEF Handle
    <2> QED
        BY <2>1, <2>2, HeadsSame DEF Filling
<1>11. CASE UNCHANGED vars
    <2>1. UNCHANGED <<call, tables, todo, pc, after>>
        BY <1>11 DEF vars, data
    <2>2. Filling' = Filling
        BY <2>1 DEF Filling
    <2>3. pc' = "have" => todo = <<>> \/ call.kind # "ifoOpen"
        BY <2>1 DEF HeadInv, Filling
    <2> QED
        BY <2>1, <2>2, <2>3, HeadsSame
<1> QED
    BY <1>1, <1>2, <1>3, <1>4, <1>5, <1>6, <1>7, <1>8, <1>9, <1>10, <1>11 DEF Next, Kinds

LEMMA HeadsKept == HeadInv => HeadsRead
<1> SUFFICES ASSUME HeadInv, pc = "have", call.kind = "ifoOpen",
                    NEW n \in Range(Order(call.title)) \cap Heads
             PROVE  tables[n] \in {"whole", "torn"}
    BY DEF HeadsRead, Heads
<1>1. todo = <<>> /\ (ToRead(n) \/ tables[n] \in {"whole", "torn"})
    BY DEF HeadInv, Filling, HeadsSoFar
<1>2. ~ToRead(n)
    BY <1>1 DEF ToRead
<1> QED
    BY <1>1, <1>2

-------------------------------------------------------------------------------
(***************************************************************************)
(* A copy that is not damaged is read                                      *)
(***************************************************************************)
\* The file has all sectors of its title and all of them can be read; what can be read
\* at the places P.
Clean(f, title) == f.len \in Int /\ ~Damaged(f, title)
Reads(f, P) == Got(f, P) = {"read"}

LEMMA CleanGot ==
    ASSUME NEW title \in Titles, NEW f, Clean(f, title),
           NEW P, P \subseteq 0 .. Contents[title].size - 1
    PROVE  Reads(f, P)
<1>1. Contents[title].size \in Nat
    BY DvdIfoAssumption DEF WellFormed
<1>2. f.len \in Int /\ ~ (f.len < Contents[title].size) /\ f.bad = {}
    BY DEF Clean, Damaged, Size
<1> DEFINE n == Contents[title].size
<1>3. \A s \in P : s \in 0 .. n - 1
    OBVIOUS
<1>4. \A s \in P : ~ (s >= f.len)
    <2> HIDE DEF n
    <2>1. n \in Nat
        BY <1>1 DEF n
    <2> QED
        BY <1>2, <1>3, <2>1 DEF n
<1>5. P \cap f.bad = {}
    BY <1>2
<1> QED
    BY <1>4, <1>5 DEF Got, Reads

LEMMA CleanTable ==
    ASSUME NEW f, NEW c, Reads(f, c.head), Reads(f, c.body), NEW cut, NEW zero
    PROVE  Table(f, c, cut, zero) = {"whole"}
BY DEF Table, Reads

LEMMA CleanSimple ==
    ASSUME NEW f, NEW n \in DOMAIN Content,
           Reads(f, Content[n].head), Reads(f, Content[n].body)
    PROVE  SimpleTable(f, n) = {"whole"}
<1> DEFINE c == Content[n]
<1>1. \A cut, zero : Table(f, c, cut, zero) = {"whole"}
    BY CleanTable
<1> HIDE DEF c
<1>2. /\ TT_SRPT(f, c) = {"whole"} /\ VTS_ATRT(f, c) = {"whole"}
      /\ VTS_PTT_SRPT(f, c) = {"whole"} /\ VTS_TMAPT(f, c) = {"whole"}
      /\ C_ADT(f, c) = {"whole"} /\ VOBU_ADMAP(f, c) = {"whole"}
      /\ PTL_MAIT(f, c) = {"whole"} /\ TXTDT_MGI(f, c) = {"whole"}
    BY <1>1 DEF TT_SRPT, VTS_ATRT, VTS_PTT_SRPT, VTS_TMAPT, C_ADT, VOBU_ADMAP, PTL_MAIT,
                TXTDT_MGI
<1> QED
    BY <1>2 DEF SimpleTable, c

LEMMA CleanPgc ==
    ASSUME NEW f, NEW c, Reads(f, c.head), Reads(f, c.commands), Reads(f, c.arrays),
           Reads(f, c.maps)
    PROVE  PGC(f, c) = {"whole"}
<1>1. CommandTable(f, c) = {"whole"}
    BY DEF CommandTable, Reads
<1> QED
    BY <1>1 DEF PGC, Maps, Reads

LEMMA CleanEntries ==
    ASSUME NEW f, NEW c, Reads(f, c.head), Reads(f, c.body), NEW r \in Entries(f, c)
    PROVE  r.is = "whole"
BY DEF Entries, Reads

\* The file that is read, and what has been found out about it.
LEMMA FileLen ==
    ASSUME Copies, call.title \in Titles
    PROVE  File.len \in Int
BY DvdIfoAssumption DEF Copies, File

\* The identifier is at the start of the file.
LEMMA HeaderReads ==
    ASSUME NEW title \in Titles, NEW f, Clean(f, title)
    PROVE  Reads(f, {0})
<1>1. Contents[title].size \in Nat /\ Contents[title].size > 0
    BY DvdIfoAssumption DEF WellFormed
<1> DEFINE n == Contents[title].size
<1>2. {0} \subseteq 0 .. n - 1
    <2> HIDE DEF n
    <2>1. n \in Nat /\ n > 0
        BY <1>1 DEF n
    <2> QED
        BY <2>1
<1> QED
    BY <1>2, CleanGot

\* No reader of a table gives up a copy that is not damaged.
LEMMA TableBlamed ==
    ASSUME Copies, call.title \in Titles, NEW n \in Range(Order(call.title)),
           n \in Mandatory \ {"FP_PGC", "PGCIT"},
           NEW r \in SimpleTable(File, n), r \in {"none", "stale"}
    PROVE  Damaged(File, call.title)
<1> SUFFICES ASSUME Clean(File, call.title)
             PROVE  FALSE
    BY FileLen DEF Clean
<1>1. WellFormed(Content, call.title)
    BY DvdIfoAssumption DEF Content
<1>2. n \in DOMAIN Content
    BY <1>1 DEF WellFormed
<1>3. n \in DOMAIN NoTables \ {"FP_PGC"}
    BY DEF NoTables, Mandatory, Range, Vmg, Vts
<1>4. Content[n].head \cup Content[n].body \subseteq 0 .. Content.size - 1
    BY <1>1, <1>2, <1>3 DEF WellFormed
<1>5. Reads(File, Content[n].head) /\ Reads(File, Content[n].body)
    BY <1>4, CleanGot DEF Content
<1>6. SimpleTable(File, n) = {"whole"}
    BY <1>2, <1>5, CleanSimple
<1> QED
    BY <1>6

LEMMA FpBlamed ==
    ASSUME Copies, call.title \in Titles, "FP_PGC" \in DOMAIN Content,
           NEW r \in PGC(File, Content["FP_PGC"]), r \in {"none", "stale"}
    PROVE  Damaged(File, call.title)
<1> SUFFICES ASSUME Clean(File, call.title)
             PROVE  FALSE
    BY FileLen DEF Clean
<1> DEFINE c == Content["FP_PGC"]
<1>1. WellFormed(Content, call.title)
    BY DvdIfoAssumption DEF Content
<1>2. UNION {c.head, c.commands, c.arrays, c.maps} \subseteq 0 .. Content.size - 1
    BY <1>1 DEF WellFormed
<1>3. \A P \in {c.head, c.commands, c.arrays, c.maps} : P \subseteq 0 .. Content.size - 1
    <2> DEFINE Q == {c.head, c.commands, c.arrays, c.maps}  S == 0 .. Content.size - 1
    <2>1. UNION Q \subseteq S
        BY <1>2
    <2> HIDE DEF Q, S
    <2>2. \A P \in Q : P \subseteq S
        BY <2>1
    <2> QED
        BY <2>2 DEF Q, S
<1>4. /\ Reads(File, c.head) /\ Reads(File, c.commands) /\ Reads(File, c.arrays)
      /\ Reads(File, c.maps)
    BY <1>3, CleanGot DEF Content
<1>5. PGC(File, c) = {"whole"}
    BY <1>4, CleanPgc
<1> QED
    BY <1>5

LEMMA PgcitBlamed ==
    ASSUME Copies, call.title \in Titles, "PGCIT" \in Range(Order(call.title))
    PROVE  /\ "PGCIT" \in DOMAIN Content
           /\ \A r \in Entries(File, Content["PGCIT"]) :
                 r.is \in {"none", "broken"} => Damaged(File, call.title)
<1> DEFINE c == Content["PGCIT"]
<1>1. WellFormed(Content, call.title)
    BY DvdIfoAssumption DEF Content
<1>2. "PGCIT" \in DOMAIN Content
    BY <1>1 DEF WellFormed, Mandatory
<1>3. ASSUME NEW r \in Entries(File, c), r.is \in {"none", "broken"}
      PROVE  Damaged(File, call.title)
    <2> SUFFICES ASSUME Clean(File, call.title)
                 PROVE  FALSE
        BY FileLen DEF Clean
    <2>1. "PGCIT" \in DOMAIN NoTables \ {"FP_PGC"}
        BY DEF NoTables, Range, Vmg, Vts
    <2>2. c.head \cup c.body \subseteq 0 .. Content.size - 1
        BY <1>1, <1>2, <2>1 DEF WellFormed
    <2>3. Reads(File, c.head) /\ Reads(File, c.body)
        BY <2>2, CleanGot DEF Content
    <2>4. r.is = "whole"
        BY <2>3, CleanEntries
    <2> QED
        BY <1>3, <2>4
<1> QED
    BY <1>2, <1>3

-------------------------------------------------------------------------------
(***************************************************************************)
(* An open fails only if both copies are damaged                           *)
(***************************************************************************)
\* No two titles of the disc share a flag of ifoBUPflags.  Titles 1 and 33 do: after
\* ifoOpen() has used title 1's BUP it reads title 33's BUP only, and fails if that is
\* damaged, with a good IFO beside it.
FlagsApart == \A s, t \in Titles : FlagOf(s) = FlagOf(t) => s = t

LEMMA CopyInit == Init => CopyInv
<1> SUFFICES ASSUME Init
             PROVE  CopyInv
    OBVIOUS
<1>1. /\ disc \in Discs /\ flags = {} /\ call = [kind |-> "ifoOpen", title |-> 0]
      /\ backup = FALSE /\ second = FALSE /\ pc = "idle"
    BY DEF Init
<1>2. Copies
    BY <1>1 DEF Copies, Kinds, Reading
<1>3. Blame
    BY <1>1 DEF Blame, GivenUp
<1> QED
    BY <1>2, <1>3 DEF CopyInv

\* A step of an open or a close that stays with its copy.
Stays == /\ UNCHANGED <<disc, flags, call, backup, second>>
         /\ pc' = "vmg" => call.kind # "ifoOpenVTSI"
         /\ Reading' => Listing'
         /\ pc' = "vts" /\ call.title = 0 => Damaged(File, 0)
         /\ GivenUp' => Damaged(File, call.title)
         /\ pc' # "null"

LEMMA StaysStep ==
    ASSUME CopyInv, Stays
    PROVE  CopyInv'
<1>1. UNCHANGED <<disc, flags, call, backup, second>>
    BY DEF Stays
<1>2. Copies /\ Blame
    BY DEF CopyInv
<1>3. Copies'
    BY <1>1, <1>2 DEF Copies, Stays
<1>4. File' = File /\ \A t : BadIfo(t)' = BadIfo(t)
    BY <1>1 DEF File, BadIfo, Damaged, Size
<1>5. \A t : Damaged(File, t)' = Damaged(File, t)
    BY <1>4 DEF Damaged, Size
<1>6. Blame'
    BY <1>1, <1>2, <1>4, <1>5 DEF Blame, Stays
<1> QED
    BY <1>3, <1>6 DEF CopyInv

\* What is left of the list is on it.
LEMMA ListingOn ==
    ASSUME Plan, Listing, todo # <<>>, todo' \in {todo, Tail(todo)}, call' = call
    PROVE  Listing'
<1>1. todo \in Seq(Names) /\ Distinct(todo)
    BY DEF Plan
<1>2. \A i \in DOMAIN Tail(todo) : i + 1 \in DOMAIN todo /\ Tail(todo)[i] = todo[i + 1]
    BY <1>1, TailIs
<1>3. CASE todo' = todo
    BY <1>3 DEF Listing
<1>4. CASE todo' = Tail(todo)
    BY <1>2, <1>4 DEF Listing
<1> QED
    BY <1>3, <1>4

LEMMA CallCopy ==
    ASSUME CopyInv, NEW kind \in Kinds, NEW title \in Titles, Call(kind, title), FlagsApart
    PROVE  CopyInv'
<1>1. /\ kind = "ifoOpenVMGI" => title = 0
      /\ kind = "ifoOpenVTSI" => title # 0
      /\ call' = [kind |-> kind, title |-> title]
      /\ backup' = (FlagOf(title) \in flags) /\ second' = FALSE /\ pc' = "open"
      /\ UNCHANGED <<disc, flags>>
    BY DEF Call
<1>2. Copies /\ Blame
    BY DEF CopyInv
<1>3. call'.kind = kind /\ call'.title = title
    BY <1>1
<1>4. Copies'
    <2>1. backup' \in BOOLEAN /\ second' \in BOOLEAN
        <3>1. (FlagOf(title) \in flags) \in BOOLEAN
            OBVIOUS
        <3>2. backup' = (FlagOf(title) \in flags) /\ second' = FALSE
            BY <1>1
        <3> QED
            BY <3>1, <3>2, Zenon
    <2>2. /\ call'.kind \in Kinds
          /\ call'.kind = "ifoOpenVMGI" => call'.title = 0
          /\ call'.kind = "ifoOpenVTSI" => call'.title # 0
        BY <1>1, <1>3
    <2>3. /\ disc' \in Discs /\ ~second' /\ pc' # "vmg" /\ ~Reading'
        BY <1>1, <1>2 DEF Copies, Reading
    <2> QED
        BY <2>1, <2>2, <2>3 DEF Copies
<1>5. \A t : BadIfo(t)' = BadIfo(t)
    BY <1>1 DEF BadIfo, Damaged, Size
<1>6. \A t \in Titles : FlagOf(t) \in flags => BadIfo(t)
    BY <1>2 DEF Blame
<1>7. Blame'
    BY <1>1, <1>3, <1>5, <1>6 DEF Blame, GivenUp
<1> QED
    BY <1>4, <1>7 DEF CopyInv

\* Opening the file and reading its identifier.
LEMMA HeaderCopy ==
    ASSUME CopyInv, call.title \in Titles, OpenFile \/ ReadVMG \/ ReadVTS
    PROVE  CopyInv'
<1>1. Copies /\ Blame /\ UNCHANGED <<disc, flags, call, backup, second>>
    BY DEF CopyInv, OpenFile, ReadVMG, ReadVTS
<1>2. File.len \in Int
    BY <1>1, FileLen
<1>3. ASSUME NEW r \in Got(File, {0}), r # "read"
      PROVE  Damaged(File, call.title)
    BY <1>2, <1>3, HeaderReads DEF Clean, Reads
<1>4. CASE OpenFile
    <2>1. /\ pc' = IF File.len = Missing THEN "failed"
                   ELSE IF call.kind = "ifoOpenVTSI" THEN "vts"
                   ELSE "vmg"
        BY <1>4 DEF OpenFile
    <2>2. ~Reading' /\ (GivenUp' => pc' = "failed") /\ pc' # "null"
        BY <2>1 DEF Reading, GivenUp
    <2>3. pc' = "failed" => Damaged(File, call.title)
        <3>1. ASSUME File.len = Missing
              PROVE  Damaged(File, call.title)
            <4>1. Contents[call.title].size \in Nat
                BY DvdIfoAssumption DEF WellFormed
            <4>2. File.len < Contents[call.title].size
                BY <1>2, <3>1, <4>1 DEF Missing
            <4> QED
                BY <4>2 DEF Damaged, Size
        <3> QED
            BY <2>1, <3>1
    <2>4. pc' = "vts" => call.title # 0
        BY <1>1, <2>1 DEF Copies
    <2>5. pc' = "vmg" => call.kind # "ifoOpenVTSI"
        BY <2>1
    <2> QED
        BY <1>1, <2>2, <2>3, <2>4, <2>5, StaysStep DEF Stays
<1>5. ASSUME Begin
      PROVE  CopyInv'
    <2>1. ~GivenUp' /\ pc' \in {"tables", "have"}
        BY <1>5 DEF Begin, GivenUp
    <2>2. Reading' => todo' = Order(call.title)
        BY <1>5 DEF Begin, Reading
    <2>3. Reading' => Listing'
        BY <1>1, <2>2 DEF Listing, Range
    <2> QED
        BY <1>1, <2>1, <2>3, StaysStep DEF Stays
<1>6. ASSUME GiveUp, Damaged(File, call.title)
      PROVE  CopyInv'
    <2>1. pc' = "close" /\ ~Reading'
        BY <1>6 DEF GiveUp, Reading
    <2> QED
        BY <1>1, <1>6, <2>1, StaysStep DEF Stays
<1>7. CASE ReadVMG
    <2>1. PICK r \in Got(File, {0}) :
             IF r = "read" /\ call.title = 0 THEN Begin
             ELSE IF call.kind = "ifoOpen"
               THEN pc' = "vts" /\ UNCHANGED <<todo, after>>
               ELSE GiveUp
        BY <1>7 DEF ReadVMG
    <2>2. CASE r = "read" /\ call.title = 0
        BY <1>5, <2>1, <2>2
    <2>3. CASE ~(r = "read" /\ call.title = 0) /\ call.kind = "ifoOpen"
        <3>1. pc' = "vts"
            BY <2>1, <2>3
        <3>2. ~Reading' /\ ~GivenUp'
            BY <3>1 DEF Reading, GivenUp
        <3>3. call.title = 0 => Damaged(File, 0)
            BY <1>3, <2>3
        <3> QED
            BY <1>1, <3>1, <3>2, <3>3, StaysStep DEF Stays
    <2>4. CASE ~(r = "read" /\ call.title = 0) /\ call.kind # "ifoOpen"
        <3>1. pc = "vmg" /\ call.title = 0
            BY <1>1, <1>7, <2>4 DEF Copies, Kinds, ReadVMG
        <3>2. Damaged(File, call.title)
            BY <1>3, <2>4, <3>1
        <3> QED
            BY <1>6, <2>1, <2>4, <3>2
    <2> QED
        BY <2>2, <2>3, <2>4
<1>8. CASE ReadVTS
    <2>1. PICK r \in Got(File, {0}) : IF r = "read" /\ call.title # 0 THEN Begin ELSE GiveUp
        BY <1>8 DEF ReadVTS
    <2>2. CASE r = "read" /\ call.title # 0
        BY <1>5, <2>1, <2>2
    <2>3. CASE r # "read"
        BY <1>3, <1>6, <2>1, <2>3
    <2>4. CASE call.title = 0
        <3>1. Damaged(File, call.title)
            BY <1>1, <1>8, <2>4 DEF Blame, ReadVTS
        <3> QED
            BY <1>6, <2>1, <2>4, <3>1
    <2> QED
        BY <2>2, <2>3, <2>4
<1> QED
    BY <1>4, <1>7, <1>8

\* A table that makes the open fail is damaged; going on leaves the list in order.
LEMMA TablesCopy ==
    ASSUME CopyInv, Plan, call.title \in Titles,
           ReadTable \/ ReadFP \/ ReadPGCIT \/ ReadUT \/ ReadLu \/ ReadSrp
    PROVE  CopyInv'
<1>1. Copies /\ Blame /\ UNCHANGED <<disc, flags, call, backup, second>>
    BY DEF CopyInv, ReadTable, ReadFP, ReadPGCIT, ReadUT, ReadLu, ReadSrp
<1>2. pc \in {"tables", "pgcs", "lus"} /\ todo # <<>>
    BY DEF Plan, ReadTable, ReadFP, ReadPGCIT, ReadUT, ReadLu, ReadSrp, NextIs
<1>3. Listing
    BY <1>1, <1>2 DEF Copies, Reading
<1>4. ASSUME pc' \in {"tables", "pgcs", "lus"} \/ (pc' = "release" /\ after' = "tables"),
             todo' \in {todo, Tail(todo)}
      PROVE  CopyInv'
    <2>1. Listing'
        BY <1>1, <1>2, <1>3, <1>4, ListingOn
    <2>2. ~GivenUp' /\ pc' \notin {"vmg", "vts", "null"}
        BY <1>4 DEF GivenUp
    <2> QED
        BY <1>1, <2>1, <2>2, StaysStep DEF Stays
<1>5. ASSUME GiveUp, Damaged(File, call.title)
      PROVE  CopyInv'
    <2>1. pc' = "close" /\ ~Reading'
        BY <1>5 DEF GiveUp, Reading
    <2> QED
        BY <1>1, <1>5, <2>1, StaysStep DEF Stays
<1>6. ASSUME pc' = "died"
      PROVE  CopyInv'
    <2>1. ~Reading' /\ ~GivenUp'
        BY <1>6 DEF Reading, GivenUp
    <2> QED
        BY <1>1, <1>6, <2>1, StaysStep DEF Stays
<1>7. ASSUME GoOn
      PROVE  CopyInv'
    BY <1>4, <1>7 DEF GoOn
<1>8. Head(todo) \in Range(Order(call.title))
    <2>1. 1 \in DOMAIN todo /\ todo[1] = Head(todo)
        BY <1>2, HeadTodo
    <2> QED
        BY <1>3, <2>1 DEF Listing
<1>9. CASE ReadTable
    <2>1. PICK n \in DOMAIN tables \ {"FP_PGC", "PGCI_UT", "PGCIT"} :
             /\ Head(todo) = n
             /\ \E r \in SimpleTable(File, n) :
                   IF r \in {"none", "stale"} /\ n \in Mandatory THEN GiveUp ELSE GoOn
        BY <1>9 DEF ReadTable, NextIs
    <2>2. PICK r \in SimpleTable(File, n) :
             IF r \in {"none", "stale"} /\ n \in Mandatory THEN GiveUp ELSE GoOn
        BY <2>1
    <2>3. CASE r \in {"none", "stale"} /\ n \in Mandatory
        <3>1. Damaged(File, call.title)
            BY <1>1, <1>8, <2>1, <2>3, TableBlamed
        <3> QED
            BY <1>5, <2>2, <2>3, <3>1
    <2> QED
        BY <1>7, <2>2, <2>3
<1>10. CASE ReadFP
    <2>1. CASE "FP_PGC" \notin DOMAIN Content
        BY <1>7, <1>10, <2>1 DEF ReadFP
    <2>2. CASE "FP_PGC" \in DOMAIN Content
        <3>1. PICK r \in PGC(File, Content["FP_PGC"]) :
                 \/ pc' = "died"
                 \/ r \in {"none", "stale"} /\ GiveUp
                 \/ GoOn
            BY <1>10, <2>2 DEF ReadFP
        <3>2. CASE r \in {"none", "stale"} /\ GiveUp
            <4>1. Damaged(File, call.title)
                BY <1>1, <2>2, <3>2, FpBlamed
            <4> QED
                BY <1>5, <3>2, <4>1
        <3> QED
            BY <1>6, <1>7, <3>1, <3>2
    <2> QED
        BY <2>1, <2>2
<1>11. CASE ReadPGCIT
    <2>1. Head(todo) = "PGCIT"
        BY <1>11 DEF ReadPGCIT, NextIs
    <2>2. /\ "PGCIT" \in DOMAIN Content
          /\ \A r \in Entries(File, Content["PGCIT"]) :
                r.is \in {"none", "broken"} => Damaged(File, call.title)
        BY <1>1, <1>8, <2>1, PgcitBlamed
    <2>3. PICK r \in Entries(File, Content["PGCIT"]) :
             \/ r.is \in {"none", "broken"} /\ GiveUp
             \/ pc' = "pgcs" /\ UNCHANGED <<todo, after>>
        BY <1>11, <2>2 DEF ReadPGCIT
    <2>4. CASE r.is \in {"none", "broken"} /\ GiveUp
        BY <1>5, <2>2, <2>4
    <2>5. CASE pc' = "pgcs" /\ UNCHANGED <<todo, after>>
        BY <1>4, <2>5
    <2> QED
        BY <2>3, <2>4, <2>5
<1>12. CASE ReadUT \/ ReadLu
    <2>1. \/ pc' = "died"
          \/ GoOn
          \/ pc' \in {"lus", "pgcs"} /\ todo' = todo
          \/ pc' = "release" /\ after' = "tables" /\ todo' = Tail(todo)
        BY <1>12 DEF ReadUT, ReadLu, Unwind
    <2> QED
        BY <1>4, <1>6, <1>7, <2>1
<1>13. CASE ReadSrp
    <2>1. \/ pc' = "died"
          \/ GoOn
          \/ pc' \in {"lus", "pgcs"} /\ todo' = todo
        BY <1>13 DEF ReadSrp
    <2> QED
        BY <1>4, <1>6, <1>7, <2>1
<1> QED
    BY <1>9, <1>10, <1>11, <1>12, <1>13

\* Closing a handle, or giving up a copy.
LEMMA CloseCopy ==
    ASSUME CopyInv, Plan, Handle, UserClose \/ Close \/ Release
    PROVE  CopyInv'
<1>1. Copies /\ Blame /\ UNCHANGED <<disc, flags, call, backup, second>>
    BY DEF CopyInv, UserClose, Close, Release
<1>2. CASE UserClose
    <2>1. pc' = "close" /\ after' = "idle"
        BY <1>2 DEF UserClose
    <2>2. ~Reading' /\ ~GivenUp'
        BY <2>1 DEF Reading, GivenUp
    <2> QED
        BY <1>1, <2>1, <2>2, StaysStep DEF Stays
<1>3. CASE Close
    <2>1. pc = "close" /\ pc' \in {"release", "died"} /\ after' = after
        BY <1>3 DEF Close
    <2>2. ~Reading' /\ (GivenUp' => GivenUp)
        BY <2>1 DEF Reading, GivenUp, Handle
    <2> QED
        BY <1>1, <2>1, <2>2, StaysStep DEF Stays, Blame
<1>4. CASE Release
    <2>1. /\ pc = "release" /\ UNCHANGED <<todo, after>> /\ (pc' = "release" \/ pc' = after)
          /\ after \in {"idle", "failed", "tables"}
        BY <1>4 DEF Release, Handle
    <2>2. GivenUp' => GivenUp
        BY <2>1 DEF GivenUp
    <2>3. Reading' => Reading
        BY <2>1 DEF Reading
    <2>4. Reading' => Listing'
        BY <1>1, <2>1, <2>3 DEF Copies, Listing
    <2> QED
        BY <1>1, <2>1, <2>2, <2>4, StaysStep DEF Stays, Blame
<1> QED
    BY <1>2, <1>3, <1>4

\* The flag of a title whose second attempt succeeds is set.
LEMMA ReturnCopy ==
    ASSUME CopyInv, Return, FlagsApart, call.title \in Titles
    PROVE  CopyInv'
<1>1. /\ UNCHANGED <<disc, call, backup, second>> /\ pc' = "have"
      /\ flags' = IF second THEN flags \cup {FlagOf(call.title)} ELSE flags
    BY DEF Return
<1>2. Copies /\ Blame
    BY DEF CopyInv
<1>3. Copies'
    BY <1>1, <1>2 DEF Copies, Reading
<1>4. \A t : BadIfo(t)' = BadIfo(t)
    BY <1>1 DEF BadIfo, Damaged, Size
<1>5. ASSUME NEW t \in Titles, FlagOf(t) \in flags'
      PROVE  BadIfo(t)
    <2>1. CASE FlagOf(t) \in flags
        BY <1>2, <2>1 DEF Blame
    <2>2. CASE second /\ FlagOf(t) = FlagOf(call.title)
        <3>1. t = call.title
            BY <2>2 DEF FlagsApart
        <3> QED
            BY <1>2, <2>2, <3>1 DEF Copies, Blame
    <2> QED
        BY <1>1, <1>5, <2>1, <2>2
<1>6. Blame'
    BY <1>1, <1>2, <1>4, <1>5 DEF Blame, GivenUp
<1> QED
    BY <1>3, <1>6 DEF CopyInv

\* A copy has failed: the other one is tried, or both have been.
LEMMA FailedCopy ==
    ASSUME CopyInv, Failed
    PROVE  CopyInv'
<1>1. /\ pc = "failed" /\ UNCHANGED <<disc, flags, call>>
      /\ IF Retries THEN backup' = TRUE /\ second' = (call.kind = "ifoOpen") /\ pc' = "open"
         ELSE pc' = "null" /\ UNCHANGED <<backup, second>>
    BY DEF Failed
<1>2. Copies /\ Blame
    BY DEF CopyInv
<1>3. Copies'
    BY <1>1, <1>2 DEF Copies, Reading
<1>4. \A t : BadIfo(t)' = BadIfo(t)
    BY <1>1 DEF BadIfo, Damaged, Size
<1>5. Damaged(File, call.title)
    BY <1>1, <1>2 DEF Blame, GivenUp
<1>6. BadIfo(call.title)
    <2>1. CASE backup
        BY <1>2, <2>1 DEF Blame
    <2>2. CASE ~backup
        BY <1>5, <2>2 DEF File, BadIfo
    <2> QED
        BY <2>1, <2>2
<1>7. CASE Retries
    <2>1. Blame'
        BY <1>1, <1>2, <1>4, <1>6, <1>7 DEF Blame, GivenUp
    <2> QED
        BY <1>3, <2>1 DEF CopyInv
<1>8. CASE ~Retries
    <2>1. pc' = "null" /\ UNCHANGED <<backup, second>>
        BY <1>1, <1>8
    <2>2. call.kind # "ifoOpenVMGI" => backup
        BY <1>2, <1>8 DEF Copies, Kinds, Retries
    <2>3. call.kind # "ifoOpenVMGI" => Damaged(disc[call.title]["BUP"], call.title)
        BY <1>5, <2>2 DEF File
    <2>4. FallsBack'
        BY <1>1, <1>6, <2>3 DEF FallsBack, BadIfo, Damaged, Size
    <2>5. Blame'
        BY <1>1, <1>2, <1>4, <2>1, <2>4 DEF Blame, GivenUp
    <2> QED
        BY <1>3, <2>5 DEF CopyInv
<1> QED
    BY <1>3, <1>7, <1>8 DEF CopyInv

LEMMA CopyStep ==
    ASSUME FlagsApart
    PROVE  RefInv /\ CopyInv /\ [Next]_vars => CopyInv'
<1> SUFFICES ASSUME RefInv, CopyInv, [Next]_vars
             PROVE  CopyInv'
    OBVIOUS
<1>0. pc # "died" => Plan /\ Handle /\ (pc = "idle" \/ call.title \in Titles)
    BY DEF RefInv, Units
<1>1. CASE \E kind \in Kinds, title \in Titles : Call(kind, title)
    BY <1>1, CallCopy
<1>2. CASE OpenFile \/ ReadVMG \/ ReadVTS
    <2>1. call.title \in Titles
        BY <1>0, <1>2 DEF OpenFile, ReadVMG, ReadVTS
    <2> QED
        BY <1>2, <2>1, HeaderCopy
<1>3. CASE ReadTable \/ ReadFP \/ ReadPGCIT \/ ReadUT \/ ReadLu \/ ReadSrp
    <2>1. pc \in {"tables", "pgcs", "lus"}
        BY <1>3 DEF ReadTable, ReadFP, ReadPGCIT, ReadUT, ReadLu, ReadSrp, NextIs
    <2> QED
        BY <1>0, <1>3, <2>1, TablesCopy
<1>4. CASE UserClose \/ Close \/ Release
    BY <1>0, <1>4, CloseCopy DEF UserClose, Close, Release
<1>5. CASE Return
    BY <1>0, <1>5, ReturnCopy DEF Return
<1>6. CASE Failed
    BY <1>6, FailedCopy
<1>7. CASE UNCHANGED vars
    <2>1. UNCHANGED <<disc, flags, call, backup, second, pc, todo, after>>
        BY <1>7 DEF vars, data
    <2>2. CASE pc # "null"
        BY <2>1, <2>2, StaysStep DEF Stays, CopyInv, Copies, Blame, Reading, Listing, GivenUp
    <2>3. CASE pc = "null"
        BY <2>1, <2>3 DEF CopyInv, Copies, Blame, Reading, GivenUp, BadIfo, Damaged, Size,
                          FallsBack
    <2> QED
        BY <2>2, <2>3
<1> QED
    BY <1>1, <1>2, <1>3, <1>4, <1>5, <1>6, <1>7 DEF Next, Kinds

\* A handle that ifoOpen() returns has been read at least in the heads of its mandatory
\* tables, and an open fails only if both copies are damaged: for any discs, whatever
\* was opened before and however often reads of a bad sector succeed, as long as no two
\* titles share a flag in ifoBUPflags.
THEOREM OpensRightly ==
    ASSUME FlagsApart
    PROVE  Spec => []OpensRight
<1>1. RefInv /\ HeadInv /\ CopyInv => OpensRight
    <2> SUFFICES ASSUME HeadInv, CopyInv
                 PROVE  HeadsRead /\ FallsBack
        BY DEF OpensRight
    <2>1. HeadsRead
        BY HeadsKept
    <2>2. FallsBack
        <3>1. pc = "null" => FallsBack
            BY DEF CopyInv, Blame
        <3> QED
            BY <3>1 DEF FallsBack
    <2> QED
        BY <2>1, <2>2
<1>2. RefInv /\ CopyInv /\ [Next]_vars => CopyInv'
    BY CopyStep
<1> QED
    BY <1>1, <1>2, RefInit, RefStep, HeadInit, HeadStep, CopyInit, PTL DEF Spec

===============================================================================
