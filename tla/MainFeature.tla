------------------------------ MODULE MainFeature ------------------------------
(***************************************************************************)
(* Which title set of a disc dvdbackup takes for the main feature:         *)
(* DVDGetInfo() and its helpers (dvdbackup.c).  A disc is                  *)
(*   sets    what the Video Manager says of each title set: its aspect     *)
(*           ratio and its streams; and the size of its VOBs, 0 where they *)
(*           cannot be opened;                                             *)
(*   titles  the title set and the number of chapters of each title.       *)
(***************************************************************************)
EXTENDS Integers, Sequences, FiniteSetsExt, SequencesExt

\* CheckSizeArray(): the reference is not half as big again as the target.
Similar(reference, target) ==
    /\ target # 0
    /\ reference \div target = 1
    /\ (reference * 2 - target) \div target = 1
    /\ (reference % target) * 3 < reference

\* Mutant: only the values change places, not the title sets they belong to.
ExchangeKeys(a, i, j) ==
    IF a[i].key > a[j].key THEN [a EXCEPT ![i].key = a[j].key, ![j].key = a[i].key] ELSE a

Exchange(a, i, j) == IF a[i].key > a[j].key THEN [a EXCEPT ![i] = a[j], ![j] = a[i]] ELSE a

\* bsort_max_to_min(): what is at i is compared with every other.
Pass(a, i) ==
    LET b[j \in 0 .. Len(a)] == IF j = 0 THEN a ELSE Exchange(b[j - 1], i, j)
    IN  b[Len(a)]
Sorted(a) ==
    LET b[i \in 0 .. Len(a)] == IF i = 0 THEN a ELSE Pass(b[i - 1], i)
    IN  b[Len(a)]

\* The title sets of the disc with one of their figures, the largest first.
Ranked(d, figure) ==
    Sorted([s \in 1 .. Len(d.sets) |-> [key |-> d.sets[s][figure], set |-> s]])
BySize(d)     == Ranked(d, "size")
ByAudio(d)    == Ranked(d, "audio")
BySub(d)      == Ranked(d, "sub")
ByChannels(d) == Ranked(d, "channels")
ByChapters(d) == Sorted([t \in 1 .. Len(d.titles) |->
                            [key |-> d.titles[t].chapters, set |-> d.titles[t].set]])

\* CheckAudioSubChannels(): of how many of the three figures no set has more.
IsFirst(ranked, c) == \E i \in 1 .. Len(ranked) : /\ ranked[i].key >= ranked[1].key
                                                  /\ ranked[i].set = c
Found(d, c) == Cardinality({r \in {1, 2, 3} : IsFirst(<<ByAudio(d), BySub(d), ByChannels(d)>>[r], c)})

\* The place of a title set among the four titles with most chapters.
ChapterPlace(d, c) ==
    LET places == {i \in 1 .. Len(d.titles) : i <= 4 /\ ByChapters(d)[i].set = c}
    IN  IF places = {} THEN 6 ELSE Min(places)

\* The most chapters of a title of the set.
Chapters(d, s) == Max({0} \cup {d.titles[t].chapters : t \in {u \in 1 .. Len(d.titles) : d.titles[u].set = s}})

\* The two biggest title sets may both be features.
Twins(d) == Len(d.sets) > 1 /\ Similar(BySize(d)[1].key, BySize(d)[2].key)
First(d)  == BySize(d)[1].set
Second(d) == BySize(d)[2].set
Aspect(d, s) == d.sets[s].aspect
Multi(d) == Twins(d) /\ Aspect(d, First(d)) = Aspect(d, Second(d))
Dual(d)  == /\ Twins(d) /\ ~Multi(d)
            /\ Chapters(d, First(d)) = Chapters(d, Second(d))

Candidate(d, aspect) ==
    IF Dual(d) /\ Aspect(d, First(d)) # aspect /\ Aspect(d, Second(d)) = aspect
      THEN Second(d) ELSE First(d)

\* How many sets from the biggest one on are of similar size.  The last comparison
\* is with what lies behind the array, if all of them are: it may come out either way.
NumbersOfMulti(d) ==
    LET size == BySize(d)
        n    == Len(size)
        ends == {i \in 1 .. n - 1 : ~Similar(size[1].key, size[i + 1].key)}
    IN  IF ends = {} THEN {n - 1, n} ELSE {Min(ends) - 1}

\* Of several episodes, the one with the title of most chapters, if the number of
\* its title set is low enough.
Episode(d, multi) ==
    LET c == ByChapters(d)[1].set
    IN  IF c \in 1 .. multi THEN c ELSE First(d)

Accepted(d, c) == /\ Found(d, c) = 3
                  /\ \/ ChapterPlace(d, c) = 1 /\ ~Dual(d) /\ ~Multi(d)
                     \/ ChapterPlace(d, c) < 3 /\ Dual(d)

\* DVDGetInfo(): the title sets it may name.  After the two attempts all branches
\* return the biggest one.
MainTitleSets(d, aspect) ==
    LET c == Candidate(d, aspect)
    IN  IF Accepted(d, c) THEN {c}
        ELSE IF Multi(d)
          THEN {IF Found(d, Episode(d, multi)) = 3 THEN Episode(d, multi) ELSE First(d) :
                  multi \in NumbersOfMulti(d)}
          ELSE {First(d)}
===============================================================================
