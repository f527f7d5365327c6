---------------------------- MODULE DvdReaderProofs ----------------------------
(***************************************************************************)
(* libdvdread's lookups, copies and keys, for every image, also one whose  *)
(* file entries are missing, every number of failed reads and of open      *)
(* files: RightPlace, CopyCovers and KeyIsOwn; and its answers on a sound  *)
(* image: RightAnswer.                                                     *)
(***************************************************************************)
EXTENDS DvdReader, FiniteSetTheorems, WellFoundedInduction, TLAPS

Specials == {Root, VideoTs, Nowhere, Lost}

\* What the cache may hold: an ICB of the disc leads to itself, and the root ICB is
\* there only with the right partition.
CacheInv == /\ level \in {0, 1}
            /\ rooticb # "none" => partition = "right"
            /\ DOMAIN maps = Places \cup {Nowhere}
            /\ \A p \in Places : maps[p] = Nowhere \/ (maps[p] = p /\ p \notin Broken)

\* A lookup none of whose reads has failed is on the way from the root directory
\* through VIDEO_TS to the file.
Shaped == find = [at |-> find.at, name |-> find.name, token |-> find.token,
                  icb |-> find.icb, file |-> find.file, fails |-> find.fails]
OnWay  ==
    /\ find.at = "map" =>
         \/ find.token = Root
         \/ find.token = VideoTs /\ find.icb = VideoTs /\ find.file = Root
         \/ /\ find.token = find.name /\ find.icb = find.name /\ find.name \in Entries
            /\ find.file = VideoTs
    /\ find.at = "scan" => \/ find.token = VideoTs /\ find.file = Root
                           \/ find.token = find.name /\ find.file = VideoTs
    /\ find.at = "done" =>
         /\ find.file \in {find.name, Nowhere}
         /\ find.file = find.name => find.name \in Present
         /\ find.name \in Present /\ Broken \cap Entries = {} => find.file = find.name
FindInv == /\ Shaped
           /\ find.fails \in Nat
           /\ find.at # "idle" => find.name \notin Specials
           /\ find.fails = 0 => OnWay

UdfInv == CacheInv /\ FindInv

-------------------------------------------------------------------------------
LEMMA Distinct == /\ Root # VideoTs /\ Root # Nowhere /\ Root # Lost
                  /\ VideoTs # Nowhere /\ VideoTs # Lost /\ Nowhere # Lost
BY DEF Root, VideoTs, Nowhere, Lost

LEMMA PlacesOfDisc == /\ Nowhere \notin Places /\ Root \in Places /\ VideoTs \in Places
                      /\ Root \notin Broken /\ VideoTs \notin Broken
                      /\ Entries \subseteq Names /\ Entries \subseteq Places
<1>1. Entries \subseteq Names
  BY DiscAssumption DEF Entries, Range
<1>2. Nowhere \notin Places
  BY DiscAssumption, Distinct DEF Places, Dirs
<1>3. Broken \subseteq Names /\ Names \cap {Root, VideoTs} = {}
  BY DiscAssumption
<1> QED BY <1>1, <1>2, <1>3 DEF Places, Dirs

\* Places are only ever changed by Onward().
LEMMA OnwardEffect ==
    ASSUME Shaped, NEW at, NEW token, NEW icb, NEW file, NEW k, Onward(at, token, icb, file, k)
    PROVE  find' = [at |-> at, name |-> find.name, token |-> token, icb |-> icb,
                    file |-> file, fails |-> find.fails + k]
<1>1. find' = [find EXCEPT !.at = at, !.token = token, !.icb = icb, !.file = file, !.fails = @ + k]
  BY DEF Onward
<1> QED BY <1>1 DEF Shaped

\* A step with a failed read need not be looked at any further.
LEMMA FailedStep ==
    ASSUME FindInv, NEW at, NEW token, NEW icb, NEW file, NEW k \in Nat \ {0},
           find.at # "idle", Onward(at, token, icb, file, k)
    PROVE  FindInv'
<1>1. find' = [at |-> at, name |-> find.name, token |-> token, icb |-> icb,
               file |-> file, fails |-> find.fails + k]
  BY OnwardEffect DEF FindInv
<1>2. find.fails + k \in Nat /\ find.fails + k # 0
  BY DEF FindInv
<1> QED BY <1>1, <1>2 DEF FindInv, Shaped

\* One without: where it leads if none has failed before.
LEMMA GoodStep ==
    ASSUME FindInv, NEW at, NEW token, NEW icb, NEW file, NEW k \in Nat, find.at # "idle",
           Onward(at, token, icb, file, k),
           k = 0 /\ find.fails = 0 =>
             /\ at = "map" =>
                  \/ token = Root
                  \/ token = VideoTs /\ icb = VideoTs /\ file = Root
                  \/ /\ token = find.name /\ icb = find.name /\ find.name \in Entries
                     /\ file = VideoTs
             /\ at = "scan" => \/ token = VideoTs /\ file = Root
                               \/ token = find.name /\ file = VideoTs
             /\ at = "done" =>
                  /\ file \in {find.name, Nowhere}
                  /\ file = find.name => find.name \in Present
                  /\ find.name \in Present /\ Broken \cap Entries = {} => file = find.name
    PROVE  FindInv'
<1>1. find' = [at |-> at, name |-> find.name, token |-> token, icb |-> icb,
               file |-> file, fails |-> find.fails + k]
  BY OnwardEffect DEF FindInv
<1>2. find.fails + k \in Nat /\ (find.fails + k = 0 => k = 0 /\ find.fails = 0)
  BY DEF FindInv
<1>3. Shaped' /\ (find.fails \in Nat)' /\ (find.at # "idle" => find.name \notin Specials)'
  BY <1>1, <1>2 DEF FindInv, Shaped
<1>4. (find.fails = 0 => OnWay)'
  BY <1>1, <1>2 DEF OnWay, Present, Entries
<1> QED BY <1>3, <1>4 DEF FindInv

\* The entries of a directory that can be mapped.
LEMMA MappableEntries ==
    ASSUME NEW place
    PROVE  /\ IsFiniteSet(Mappable(place))
           /\ Mappable(place) \cap Broken = {}
           /\ Broken \cap Range(Contents(place)) = {} => Mappable(place) = Range(Contents(place))
           /\ Mappable(place) \subseteq Range(Contents(place))
<1> DEFINE list == Contents(place)
           bad  == {i \in DOMAIN list : list[i] \in Broken}
           good == {j \in DOMAIN list : \A b \in bad : j < b}
<1>1. list \in {<<VideoTs>>, Listing, <<>>}
  BY DEF Contents
<1>2. Mappable(place) = {list[i] : i \in good}
  BY DEF Mappable
<1>3. DOMAIN list = 1 .. Len(list) /\ Len(list) \in Nat
  <2>1. DOMAIN Listing = 1 .. Len(Listing) /\ Len(Listing) \in Nat
    BY DiscAssumption
  <2> HIDE DEF list
  <2> QED BY <1>1, <2>1
<1>4. IsFiniteSet(good)
  <2>1. IsFiniteSet(1 .. Len(list))
    BY <1>3, FS_Interval
  <2>2. good \in SUBSET (1 .. Len(list))
    BY <1>3
  <2> HIDE DEF good, list
  <2> QED BY <2>1, <2>2, FS_Subset
<1>5. IsFiniteSet({list[i] : i \in good})
  <2> DEFINE f == [i \in good |-> list[i]]
             T == {list[i] : i \in good}
  <2>1. f \in Surjection(good, T)
    BY DEF Surjection
  <2> HIDE DEF f, T, good
  <2>2. IsFiniteSet(T)
    BY <2>1, <1>4, FS_Surjection
  <2> QED BY <2>2 DEF T
<1>6. {list[i] : i \in good} \cap Broken = {}
  <2> SUFFICES ASSUME NEW i \in good, list[i] \in Broken PROVE FALSE
    OBVIOUS
  <2>1. i \in bad /\ i \in Nat
    BY <1>3
  <2> QED BY <2>1
<1>7. {list[i] : i \in good} \subseteq Range(list)
  BY DEF Range
<1>8. ASSUME Broken \cap Range(list) = {}
      PROVE  {list[i] : i \in good} = Range(list)
  <2>1. bad = {}
    BY <1>8 DEF Range
  <2> QED BY <2>1 DEF Range
<1> HIDE DEF good, list, bad
<1> QED BY <1>2, <1>5, <1>6, <1>7, <1>8 DEF list

-------------------------------------------------------------------------------
\* The steps of a lookup, one by one.
LEMMA VolumeSteps ==
    ASSUME UdfInv, FromCache \/ FindVolume \/ LoseAnchor \/ LosePartition \/ LoseRoot
    PROVE  UdfInv'
<1>1. find.at # "idle" /\ FindInv /\ CacheInv
  BY DEF UdfInv, FromCache, FindVolume, LoseAnchor, LosePartition, LoseRoot
<1>2. CASE FromCache
  <2>1. partition = "right"
    BY <1>2, <1>1 DEF FromCache, VolumeCached, CacheInv
  <2>2. Onward("map", Root, Nowhere, Nowhere, 0)
    BY <1>2, <2>1 DEF FromCache
  <2>3. FindInv'
    BY <1>1, <2>2, GoodStep
  <2>4. CacheInv'
    BY <1>1, <1>2 DEF FromCache, cache, CacheInv
  <2> QED BY <2>3, <2>4 DEF UdfInv
<1>3. CASE FindVolume
  <2>1. PICK k \in 0 .. 1 : Onward("map", Root, Nowhere, Nowhere, k)
    BY <1>3 DEF FindVolume
  <2>2. FindInv'
    BY <1>1, <2>1, GoodStep
  <2>3. CacheInv'
    BY <1>1, <1>3 DEF FindVolume, Kept, CacheInv
  <2> QED BY <2>2, <2>3 DEF UdfInv
<1>4. CASE LoseAnchor
  <2>1. FindInv'
    BY <1>1, <1>4, FailedStep DEF LoseAnchor, Answer
  <2>2. CacheInv'
    BY <1>1, <1>4 DEF LoseAnchor, VolumeCached, Kept, CacheInv
  <2> QED BY <2>1, <2>2 DEF UdfInv
<1>5. CASE LosePartition
  <2>1. FindInv'
    BY <1>1, <1>5, FailedStep DEF LosePartition, Answer
  <2>2. CacheInv'
    BY <1>1, <1>5 DEF LosePartition, VolumeCached, Kept, CacheInv
  <2> QED BY <2>1, <2>2 DEF UdfInv
<1>6. CASE LoseRoot
  <2>1. FindInv'
    BY <1>1, <1>6, FailedStep DEF LoseRoot, Answer
  <2>2. CacheInv'
    BY <1>1, <1>6 DEF LoseRoot, Kept, CacheInv
  <2> QED BY <2>1, <2>2 DEF UdfInv
<1> QED BY <1>2, <1>3, <1>4, <1>5, <1>6

\* After an ICB has been mapped right.
LEMMA MappedStep ==
    ASSUME FindInv, find.at = "map", NEW file, Mapped(file, 0),
           find.fails = 0 => file = Icb /\ Icb \notin Broken
    PROVE  FindInv'
<1>1. find.name \notin Specials /\ find.at # "idle"
  BY DEF FindInv
<1>2. find.fails = 0 => OnWay
  BY DEF FindInv
<1>3. CASE find.token = Root
  <2>1. Onward("scan", VideoTs, find.icb, file, 0)
    BY <1>3, Distinct DEF Mapped
  <2>2. find.fails = 0 => file = Root
    BY <1>3 DEF Icb
  <2> QED BY <1>1, <2>1, <2>2, GoodStep
<1>4. CASE find.token = VideoTs
  <2>1. Onward("scan", find.name, find.icb, file, 0)
    BY <1>4, Distinct DEF Mapped
  <2>2. find.fails = 0 => file = VideoTs
    BY <1>1, <1>2, <1>4, Distinct DEF Icb, OnWay, Specials
  <2> QED BY <1>1, <2>1, <2>2, GoodStep
<1>5. CASE find.token \notin {Root, VideoTs}
  <2>1. Onward("done", find.token, find.icb, file, 0)
    BY <1>5 DEF Mapped, Answer
  <2>2. find.fails = 0 => file = find.name /\ find.name \in Present
    BY <1>2, <1>5 DEF Icb, OnWay, Present
  <2> QED BY <1>1, <2>1, <2>2, GoodStep
<1> QED BY <1>3, <1>4, <1>5

LEMMA MapStep == ASSUME UdfInv, MapICB \/ MapFails PROVE UdfInv'
<1>1. /\ find.at = "map" /\ find.at # "idle" /\ FindInv /\ CacheInv
      /\ find.name \notin Specials /\ (find.fails = 0 => OnWay)
  BY DEF UdfInv, FindInv, MapICB, MapFails
<1>2. CASE MapFails
  <2>1. FindInv'
    <3>1. CASE find.token # Root /\ Mapped(find.file, 1)
      BY <1>1, <3>1, FailedStep, Distinct DEF Mapped, Answer
    <3>2. CASE Answer(Nowhere, 1)
      BY <1>1, <3>2, FailedStep DEF Answer
    <3>3. CASE find.token = Root /\ Mapped(Root, 1)
      BY <1>1, <3>3, FailedStep, Distinct DEF Mapped, Answer
    <3> QED BY <1>2, <3>1, <3>2, <3>3 DEF MapFails
  <2>2. CacheInv'
    BY <1>1, <1>2 DEF MapFails, cache, CacheInv
  <2> QED BY <2>1, <2>2 DEF UdfInv
<1>3. CASE MapICB
  <2>1. find.fails = 0 => Icb \in Places
    BY <1>1, PlacesOfDisc DEF OnWay, Icb
  <2>2. /\ level' = level /\ rooticb' = rooticb /\ partition' = partition
    BY <1>3 DEF MapICB
  <2>3. CASE level = 1 /\ maps[Icb] # Nowhere
    <3>1. Mapped(maps[Icb], 0) /\ maps' = maps
      BY <1>3, <2>3 DEF MapICB
    <3>2. find.fails = 0 => maps[Icb] = Icb /\ Icb \notin Broken
      BY <1>1, <2>1, <2>3 DEF CacheInv
    <3>3. FindInv'
      BY <1>1, <3>1, <3>2, MappedStep
    <3>4. CacheInv'
      BY <1>1, <2>2, <3>1 DEF CacheInv
    <3> QED BY <3>3, <3>4 DEF UdfInv
  <2>4. CASE ~(level = 1 /\ maps[Icb] # Nowhere) /\ FileOf(Icb) \in Broken
    <3>1. Onward("done", find.token, find.icb, Nowhere, 0) /\ maps' = maps
      BY <1>3, <2>4 DEF MapICB, Answer
    <3>2. find.fails = 0 => FileOf(Icb) = Icb
      BY <2>1, PlacesOfDisc DEF FileOf
    <3>3. find.fails = 0 => find.name \in Broken \cap Entries
      BY <1>1, <2>4, <3>2, PlacesOfDisc DEF OnWay, Icb
    <3>4. Nowhere # find.name
      BY <1>1 DEF Specials
    <3>5. FindInv'
      BY <1>1, <3>1, <3>3, <3>4, GoodStep DEF Present
    <3>6. CacheInv'
      BY <1>1, <2>2, <3>1 DEF CacheInv
    <3> QED BY <3>5, <3>6 DEF UdfInv
  <2>5. CASE ~(level = 1 /\ maps[Icb] # Nowhere) /\ FileOf(Icb) \notin Broken
    <3>1. /\ Mapped(FileOf(Icb), 0)
          /\ maps' = Kept(maps, [maps EXCEPT ![Icb] = FileOf(Icb)])
      BY <1>3, <2>5 DEF MapICB
    <3>2. find.fails = 0 => FileOf(Icb) = Icb /\ Icb \notin Broken
      BY <2>1, <2>5, PlacesOfDisc DEF FileOf
    <3>3. FindInv'
      BY <1>1, <3>1, <3>2, MappedStep
    <3>4. \A p \in Places : p = Icb => FileOf(Icb) = p /\ p \notin Broken
      BY <2>5, PlacesOfDisc DEF FileOf
    <3>5. CacheInv'
      BY <1>1, <2>2, <3>1, <3>4 DEF CacheInv, Kept
    <3> QED BY <3>3, <3>5 DEF UdfInv
  <2> QED BY <2>3, <2>4, <2>5
<1> QED BY <1>2, <1>3

\* What is found in a directory that has been read.
LEMMA FoundStep ==
    ASSUME FindInv, find.at = "scan", NEW k \in Nat,
           \/ /\ find.token \in Range(Contents(find.file))
              /\ Onward("map", find.token, find.token, find.file, k)
           \/ /\ find.token \notin Range(Contents(find.file))
              /\ Answer(Nowhere, k)
    PROVE  FindInv'
<1>1. /\ find.name \notin Specials /\ find.at # "idle"
      /\ find.fails = 0 => \/ find.token = VideoTs /\ find.file = Root
                           \/ find.token = find.name /\ find.file = VideoTs
  BY DEF FindInv, OnWay
<1>2. Contents(VideoTs) = Listing /\ Contents(Root) = <<VideoTs>>
  BY Distinct DEF Contents
<1>3. Range(Contents(VideoTs)) = Entries
  BY <1>2 DEF Entries
<1>4. VideoTs \in Range(Contents(Root))
  BY <1>2 DEF Range
<1>5. CASE /\ find.token \in Range(Contents(find.file))
           /\ Onward("map", find.token, find.token, find.file, k)
  <2>1. find.fails = 0 =>
          \/ find.token = VideoTs /\ find.file = Root
          \/ find.token = find.name /\ find.name \in Entries /\ find.file = VideoTs
    BY <1>1, <1>3, <1>5
  <2> QED BY <1>1, <1>5, <2>1, GoodStep
<1>6. CASE find.token \notin Range(Contents(find.file)) /\ Answer(Nowhere, k)
  <2>1. find.fails = 0 => find.name \notin Entries
    BY <1>1, <1>3, <1>4, <1>6
  <2>2. Nowhere # find.name
    BY <1>1 DEF Specials
  <2> QED BY <1>1, <1>6, <2>1, <2>2, GoodStep DEF Answer, Present
<1> QED BY <1>5, <1>6

LEMMA ScanStep == ASSUME UdfInv, ScanDir \/ ScanFirst \/ ScanFails PROVE UdfInv'
<1>1. /\ find.at = "scan" /\ find.at # "idle" /\ FindInv /\ CacheInv
      /\ find.name \notin Specials /\ (find.fails = 0 => OnWay)
  BY DEF UdfInv, FindInv, ScanDir, ScanFirst, ScanFails
<1>2. CASE ScanDir
  <2>1. FindInv'
    BY <1>1, <1>2, FoundStep DEF ScanDir, Scanned
  <2>2. CacheInv'
    BY <1>1, <1>2 DEF ScanDir, CacheInv
  <2> QED BY <2>1, <2>2 DEF UdfInv
<1>3. CASE ScanFails
  <2>1. FindInv'
    BY <1>1, <1>3, FailedStep DEF ScanFails, Answer
  <2>2. CacheInv'
    BY <1>1, <1>3 DEF ScanFails, cache, CacheInv
  <2> QED BY <2>1, <2>2 DEF UdfInv
<1>4. CASE ScanFirst
  <2> DEFINE M == Mappable(find.file)
             C == Range(Contents(find.file))
  <2>1. PICK lost \in SUBSET {n \in M : maps[n] = Nowhere} :
          /\ IF M # C THEN Answer(Nowhere, Cardinality(lost))
             ELSE IF find.token \in C
               THEN Onward("map", find.token, find.token, find.file, Cardinality(lost))
             ELSE Answer(Nowhere, Cardinality(lost))
          /\ maps' = [p \in DOMAIN maps |-> IF p \in M \ lost THEN p ELSE maps[p]]
    BY <1>4 DEF ScanFirst
  <2>2. /\ IsFiniteSet(M) /\ M \cap Broken = {}
        /\ Broken \cap C = {} => M = C
    BY MappableEntries
  <2>3. Cardinality(lost) \in Nat
    BY <2>1, <2>2, FS_Subset, FS_CardinalityType
  <2>4. CacheInv'
    <3>1. level' = level /\ rooticb' = rooticb /\ partition' = partition
      BY <1>4 DEF ScanFirst
    <3> QED BY <1>1, <2>1, <2>2, <3>1 DEF CacheInv
  <2>5. FindInv'
    <3>1. CASE M = C
      <4>1. \/ /\ find.token \in Range(Contents(find.file))
               /\ Onward("map", find.token, find.token, find.file, Cardinality(lost))
            \/ /\ find.token \notin Range(Contents(find.file))
               /\ Answer(Nowhere, Cardinality(lost))
        BY <2>1, <3>1
      <4> QED BY <1>1, <2>3, <4>1, FoundStep
    <3>2. CASE M # C
      <4>1. Onward("done", find.token, find.icb, Nowhere, Cardinality(lost))
        BY <2>1, <3>2 DEF Answer
      <4>2. find.token # VideoTs
        BY <1>4 DEF ScanFirst, Plain
      <4>3. find.fails = 0 => C = Entries
        BY <1>1, <4>2, Distinct DEF OnWay, Contents, Entries
      <4>4. find.fails = 0 => Broken \cap Entries # {}
        BY <2>2, <3>2, <4>3
      <4>5. Nowhere # find.name
        BY <1>1 DEF Specials
      <4> QED BY <1>1, <2>3, <4>1, <4>4, <4>5, GoodStep
    <3> QED BY <3>1, <3>2
  <2> QED BY <2>4, <2>5 DEF UdfInv
<1> QED BY <1>2, <1>3, <1>4

-------------------------------------------------------------------------------
LEMMA ZeroFails == 0 \in Nat
OBVIOUS

\* Between lookups.
LEMMA NoLookup ==
    ASSUME UdfInv, UNCHANGED <<level, partition, rooticb, maps>>,
           \/ find' = find \/ find' = Idle
           \/ \E name : name \notin Specials /\ find' = [Idle EXCEPT !.at = "volume", !.name = name]
    PROVE  UdfInv'
<1>1. CacheInv'
  BY DEF UdfInv, CacheInv
<1>2. ASSUME find' = find PROVE FindInv'
  BY <1>2 DEF UdfInv, FindInv, Shaped, OnWay, Present, Entries
<1>3. ASSUME find' = Idle PROVE FindInv'
  BY <1>3 DEF Idle, FindInv, Shaped, OnWay
<1>4. ASSUME NEW name, name \notin Specials, find' = [Idle EXCEPT !.at = "volume", !.name = name]
      PROVE  FindInv'
  <2>1. find' = [at |-> "volume", name |-> name, token |-> Root, icb |-> Nowhere,
                 file |-> Nowhere, fails |-> 0]
    BY <1>4 DEF Idle
  <2>2. /\ find'.at = "volume" /\ find'.name = name /\ find'.fails = 0 /\ Shaped'
    BY <2>1 DEF Shaped
  <2>3. OnWay'
    BY <2>2 DEF OnWay
  <2>4. find'.fails \in Nat /\ (find'.at # "idle" => find'.name \notin Specials)
    <3>1. name \notin Specials
      BY <1>4, Zenon
    <3>2. find'.name = name /\ find'.fails = 0
      BY <2>2
    <3>3. find'.name \notin Specials
      BY <3>1, <3>2, Zenon
    <3>4. find'.fails \in Nat
      BY <3>2, ZeroFails, Zenon
    <3> QED BY <3>3, <3>4
  <2> QED BY <2>2, <2>3, <2>4 DEF FindInv, Specials
<1> QED BY <1>1, <1>2, <1>3, <1>4 DEF UdfInv

LEMMA FileNames == \A t, p : Vob(t, p) \notin Specials /\ Ifo(t) \notin Specials
BY DEF Specials, Root, VideoTs, Nowhere, Lost, Vob, Ifo

\* A call of the reader begins or goes on with the lookup of a file, ends, or leaves
\* the lookups alone.
LEMMA CallStep ==
    ASSUME UdfInv,
           \/ OpenVob \/ OpenIfo \/ FileStat \/ DiscID
           \/ NotFound \/ IfoFound \/ VobFound \/ PartFound \/ FinishStat \/ FinishOpen
           \/ BeginKeys \/ KeyFound \/ VmgOpened \/ IdFound
    PROVE  UdfInv'
<1> DEFINE Searches == \E name : name \notin Specials /\ find' = [Idle EXCEPT !.at = "volume", !.name = name]
<1>1. CASE OpenVob \/ OpenIfo \/ FileStat \/ DiscID
  <2>1. PICK op, slot, name, css : Call(op, slot, name, css) /\ name \notin Specials
    BY <1>1, FileNames DEF OpenVob, OpenIfo, FileStat, DiscID
  <2>2. /\ find' = [Idle EXCEPT !.at = "volume", !.name = name]
        /\ UNCHANGED <<level, partition, rooticb, maps>>
    BY <2>1 DEF Call, StartFind, cache
  <2> QED BY <2>1, <2>2, NoLookup
<1>2. CASE NotFound \/ IfoFound \/ FinishStat \/ FinishOpen
  <2>1. find' = Idle /\ UNCHANGED <<level, partition, rooticb, maps>>
    BY <1>2 DEF NotFound, IfoFound, FinishStat, FinishOpen, Return, Same, cache
  <2> QED BY <2>1, NoLookup
<1>3. CASE VobFound \/ PartFound
  <2>1. UNCHANGED <<level, partition, rooticb, maps>>
    BY <1>3 DEF VobFound, PartFound, Same, cache
  <2>2. find' = Idle \/ Searches
    BY <1>3, FileNames DEF VobFound, PartFound, Seek
  <2> QED BY <2>1, <2>2, NoLookup
<1>4. CASE BeginKeys \/ KeyFound
  <2>1. UNCHANGED <<level, partition, rooticb, maps>>
    BY <1>4 DEF BeginKeys, KeyFound, Same, cache
  <2>2. find' = Idle \/ Searches
    BY <1>4, FileNames DEF BeginKeys, KeyFound, Seek
  <2> QED BY <2>1, <2>2, NoLookup
<1>5. CASE VmgOpened \/ IdFound
  <2>1. UNCHANGED <<level, partition, rooticb, maps>>
    BY <1>5 DEF VmgOpened, IdFound, Same, cache
  <2>2. find' = Idle \/ Searches
    BY <1>5, FileNames DEF VmgOpened, IdFound, NextId, Return, Seek
  <2> QED BY <2>1, <2>2, NoLookup
<1> QED BY <1>1, <1>2, <1>3, <1>4, <1>5

\* What is done with the open files.
FileStep(s) == \/ ReadBlocks(s) \/ CloseFile(s)
               \/ \E n \in 0 .. MaxOffset : FileSeek(s, n) \/ ReadBytes(s, n)
               \/ \E n \in 0 .. MaxOffset : FileSeekForce(s, n, -1)

LEMMA UdfInvariance == Init /\ [][Next]_vars => []UdfInv
<1>1. Init => UdfInv
  BY Distinct, DiscAssumption DEF Init, UdfInit, UdfInv, CacheInv, FindInv, Shaped, OnWay, Idle
<1>2. ASSUME UdfInv, [Next]_vars PROVE UdfInv'
  <2>1. CASE UNCHANGED vars
    BY <1>2, <2>1, NoLookup DEF vars, udfVars, cache
  <2>2. CASE Lookup
    BY <1>2, <2>2, VolumeSteps, MapStep, ScanStep DEF Lookup, FindStep
  <2>3. CASE Volume
    <3>1. CASE VolumeInfo
      <4>1. find' = find /\ UNCHANGED <<level, partition, rooticb, maps>>
        BY <3>1 DEF VolumeInfo
      <4> QED BY <1>2, <4>1, NoLookup
    <3>2. CASE CacheLevel
      <4>1. find' = find /\ UNCHANGED <<partition, rooticb, maps>> /\ level' \in {0, 1}
        BY <3>2 DEF CacheLevel, cache
      <4>2. FindInv'
        BY <1>2, <4>1 DEF UdfInv, FindInv, Shaped, OnWay, Present, Entries
      <4>3. CacheInv'
        BY <1>2, <4>1 DEF UdfInv, CacheInv
      <4> QED BY <4>2, <4>3 DEF UdfInv
    <3> QED BY <2>3, <3>1, <3>2 DEF Volume
  <2>4. CASE \E s \in Slots : FileStep(s)
    <3>1. find' = find /\ UNCHANGED <<level, partition, rooticb, maps>>
      BY <2>4 DEF FileStep, ReadBlocks, CloseFile, FileSeek, FileSeekForce, ReadBytes, Move, Same, cache
    <3> QED BY <1>2, <3>1, NoLookup
  <2>5. CASE Reopen
    <3>1. find' = find /\ level' = 1 /\ partition' = "none" /\ rooticb' = "none"
          /\ maps' = [p \in DOMAIN maps |-> Nowhere]
      BY <2>5 DEF Reopen
    <3>2. FindInv'
      BY <1>2, <3>1 DEF UdfInv, FindInv, Shaped, OnWay, Present, Entries
    <3>3. CacheInv'
      BY <1>2, <3>1 DEF UdfInv, CacheInv
    <3> QED BY <3>2, <3>3 DEF UdfInv
  <2> QED BY <1>2, <2>1, <2>2, <2>3, <2>4, <2>5, CallStep DEF Next, FileStep
<1> QED BY <1>1, <1>2, PTL

\* A lookup in which no read fails is right: what an earlier failure left in the cache
\* is never used for it.
THEOREM LookupsAreRight == Spec => []RightPlace
<1>1. UdfInv => RightPlace
  BY DEF UdfInv, FindInv, OnWay, RightPlace
<1> QED BY <1>1, UdfInvariance, PTL DEF Spec

-------------------------------------------------------------------------------
\* What is known of an open file: its copy, if it has one, is as long as the file.
Whole(f)  == /\ f = [open |-> f.open, name |-> f.name, css |-> f.css, start |-> f.start,
                     filesize |-> f.filesize, copy |-> f.copy, pos |-> f.pos]
             /\ f.copy \in {f.filesize, -1}
FilesInv  == /\ files = [s \in Slots |-> files[s]]
             /\ \A s \in Slots : files[s] = Closed \/ Whole(files[s])

LEMMA OneFileChanges ==
    ASSUME FilesInv, NEW s, NEW f, f = Closed \/ Whole(f),
           files' = [files EXCEPT ![s] = f]
    PROVE  FilesInv'
<1>1. files' = [t \in Slots |-> IF t = s THEN f ELSE files[t]]
  BY DEF FilesInv
<1>2. \A t \in Slots : files'[t] = Closed \/ Whole(files'[t])
  BY <1>1 DEF FilesInv
<1>3. files' = [t \in Slots |-> files'[t]]
  BY <1>1
<1> QED BY <1>2, <1>3 DEF FilesInv

\* Moving keeps the copy; growing drops it.
LEMMA MovedIsWhole == ASSUME NEW f, Whole(f), NEW n PROVE Whole([f EXCEPT !.pos = n])
<1> DEFINE g == [open |-> f.open, name |-> f.name, css |-> f.css, start |-> f.start,
                 filesize |-> f.filesize, copy |-> f.copy, pos |-> n]
<1>1. [f EXCEPT !.pos = n] = g
  <2>1. f = [open |-> f.open, name |-> f.name, css |-> f.css, start |-> f.start,
             filesize |-> f.filesize, copy |-> f.copy, pos |-> f.pos]
    BY DEF Whole
  <2> QED BY <2>1, SMT
<1>2. Whole(g)
  BY DEF Whole
<1> QED BY <1>1, <1>2

LEMMA GrownIsWhole == ASSUME NEW f, Whole(f), NEW size PROVE Whole(Grown(f, size))
<1> DEFINE g == [open |-> f.open, name |-> f.name, css |-> f.css, start |-> f.start,
                 filesize |-> size, copy |-> -1, pos |-> f.pos]
<1>1. [f EXCEPT !.filesize = size, !.copy = -1] = g
  <2>1. f = [open |-> f.open, name |-> f.name, css |-> f.css, start |-> f.start,
             filesize |-> f.filesize, copy |-> f.copy, pos |-> f.pos]
    BY DEF Whole
  <2> DEFINE h == [f EXCEPT !.filesize = size]
  <2>2. h = [open |-> f.open, name |-> f.name, css |-> f.css, start |-> f.start,
             filesize |-> size, copy |-> f.copy, pos |-> f.pos]
    BY <2>1, SMT
  <2>3. [h EXCEPT !.copy = -1] = g
    <3> HIDE DEF h
    <3> QED BY <2>2, SMT
  <2> QED BY <2>3
<1>2. Whole(g)
  BY DEF Whole
<1> HIDE DEF g
<1> QED BY <1>1, <1>2 DEF Grown

LEMMA ForcedIsWhole == ASSUME NEW f, Whole(f), NEW offset, NEW size
                       PROVE  Whole(Forced(f, offset, size))
<1> DEFINE g == Grown(f, IF size < 0 THEN Sectors(offset) ELSE size)
<1>1. Whole(g)
  BY GrownIsWhole
<1>2. Whole([g EXCEPT !.pos = offset])
  <2> HIDE DEF g
  <2> QED BY <1>1, MovedIsWhole
<1>3. Forced(f, offset, size) \in {g, [g EXCEPT !.pos = offset]}
  BY DEF Forced
<1> QED BY <1>1, <1>2, <1>3

\* A file that is opened has a copy of its full size or none.
LEMMA OpenedIsWhole ==
    ASSUME FilesInv, NEW start, NEW name, NEW size, NEW copy, copy \in {size, -1},
           OpenAt(start, name, size, copy)
    PROVE  FilesInv'
<1> DEFINE f == [open |-> TRUE, name |-> name, css |-> call.css, start |-> start,
                 filesize |-> size, copy |-> copy, pos |-> 0]
<1>1. files' = [files EXCEPT ![call.slot] = f]
  BY DEF OpenAt
<1>2. Whole(f)
  BY DEF Whole
<1> HIDE DEF f
<1> QED BY <1>1, <1>2, OneFileChanges

LEMMA FilesInvariance == Spec => []FilesInv
<1>1. Init => FilesInv
  BY DEF Init, FilesInv
<1>2. ASSUME FilesInv, [Next]_vars PROVE FilesInv'
  <2>1. CASE UNCHANGED files
    BY <1>2, <2>1 DEF FilesInv
  <2>2. CASE IfoFound
    <3>1. \/ UNCHANGED files
          \/ \E k \in 0 .. 1 : LET size == Length(find.file) IN
               OpenAt(find.file, find.name, size, IF size < CacheMax /\ k = 0 THEN size ELSE -1)
      BY <2>2 DEF IfoFound
    <3> QED BY <1>2, <2>1, <3>1, OpenedIsWhole
  <2>3. CASE FinishOpen
    BY <1>2, <2>3, OpenedIsWhole DEF FinishOpen
  <2>4. ASSUME NEW s \in Slots, FileStep(s) PROVE FilesInv'
    <3> DEFINE f == files[s]
    <3>1. CASE ReadBlocks(s)
      BY <2>1, <3>1 DEF ReadBlocks
    <3>2. CASE CloseFile(s)
      BY <1>2, <3>2, OneFileChanges DEF CloseFile, Move
    <3>3. s \in IfoFiles => Whole(f)
      BY <1>2 DEF IfoFiles, OpenFiles, FilesInv, Closed
    <3>4. ASSUME NEW n \in 0 .. MaxOffset, FileSeek(s, n) PROVE FilesInv'
      <4>1. Whole([f EXCEPT !.pos = n])
        BY <3>3, <3>4, MovedIsWhole DEF FileSeek
      <4> QED BY <1>2, <3>4, <4>1, OneFileChanges DEF FileSeek, Move
    <3>5. ASSUME NEW n \in 0 .. MaxOffset, ReadBytes(s, n) PROVE FilesInv'
      <4>1. Whole(f) /\ Whole(Forced(f, f.pos + n, -1))
        BY <3>3, <3>5, ForcedIsWhole DEF ReadBytes
      <4> QED BY <1>2, <3>5, <4>1, OneFileChanges DEF ReadBytes, Move
    <3>6. ASSUME NEW n \in 0 .. MaxOffset, FileSeekForce(s, n, -1) PROVE FilesInv'
      <4>1. Whole(Forced(f, n, -1))
        BY <3>3, <3>6, ForcedIsWhole DEF FileSeekForce
      <4> QED BY <1>2, <3>6, <4>1, OneFileChanges DEF FileSeekForce, Move
    <3> QED BY <2>4, <3>1, <3>2, <3>4, <3>5, <3>6 DEF FileStep
  <2>5. CASE \/ UNCHANGED vars \/ Lookup \/ Volume
             \/ OpenVob \/ OpenIfo \/ FileStat \/ DiscID
    <3>1. UNCHANGED files
      BY <2>5 DEF vars, readerVars, Lookup, Volume, OpenVob, OpenIfo, FileStat, DiscID, Call
    <3> QED BY <2>1, <3>1
  <2>6. CASE \/ NotFound \/ VobFound \/ PartFound \/ FinishStat \/ BeginKeys
             \/ KeyFound \/ VmgOpened \/ IdFound \/ Reopen
    <3>1. UNCHANGED files
      BY <2>6 DEF NotFound, VobFound, PartFound, FinishStat, BeginKeys, KeyFound,
                  VmgOpened, IdFound, Reopen
    <3> QED BY <2>1, <3>1
  <2> QED BY <1>2, <2>2, <2>3, <2>4, <2>5, <2>6 DEF Next, FileStep
<1> QED BY <1>1, <1>2, PTL DEF Spec

\* The copy of a small file is as long as the file as long as there is a copy, however
\* the file grew by seeks and reads.
THEOREM CopyAlwaysCovers == Spec => []CopyCovers
<1>1. FilesInv => CopyCovers
  <2> SUFFICES ASSUME FilesInv, NEW s \in IfoFiles, files[s].copy >= 0
               PROVE  files[s].copy = files[s].filesize
    BY DEF CopyCovers
  <2>1. Whole(files[s])
    BY DEF FilesInv, IfoFiles, OpenFiles, Closed
  <2> QED BY <2>1 DEF Whole
<1> QED BY <1>1, FilesInvariance, PTL

-------------------------------------------------------------------------------
\* The VOB that a title << 1 | menu stands for.
VobOf(css) == IF css % 2 = 1 THEN Vob(css \div 2, 0) ELSE Vob(css \div 2, 1)

\* What is known of a call that is under way.
CallInv ==
    /\ call = [op |-> call.op, next |-> call.next, slot |-> call.slot, css |-> call.css,
               start |-> call.start, size |-> call.size, ids |-> call.ids,
               fails |-> call.fails]
    /\ call.op \in {"none", "open", "stat", "id"}
    /\ call.op = "none" => call.next = "none"
    /\ call.next \in {"first", "part", "finish", "key", "keyed"} => call.css # 0
    /\ call.next = "ifo" => find.name[1] = "IFO"
    /\ call.next = "key" => css_state = 1
    /\ call.next = "keyed" => css_state # 1

\* No VOB is open while the keys are still to be retrieved, so none was selected;
\* afterwards the one that was selected last is that of css_title.
VobOpen(f) == f.open /\ f.name[1] = "VOB"
OwnVob(f)  == f.start = f.name /\ f.css # 0 /\ f.name = VobOf(f.css)
NoVobs     == \A s \in Slots : ~VobOpen(files[s])
VobsOwn    == \A s \in Slots : VobOpen(files[s]) => OwnVob(files[s])
KeyInv == /\ css_state = 1 => css_title = 0 /\ NoVobs
          /\ wary => /\ css_title # 0 => key = VobOf(css_title)
                     /\ VobsOwn
          /\ KeyIsOwn
OwnInv == CallInv /\ KeyInv

LEMMA OneVobChanges ==
    ASSUME FilesInv, NEW s, NEW f, files' = [files EXCEPT ![s] = f]
    PROVE  /\ NoVobs /\ ~VobOpen(f) => NoVobs'
           /\ VobsOwn /\ (VobOpen(f) => OwnVob(f)) => VobsOwn'
<1>1. files' = [t \in Slots |-> IF t = s THEN f ELSE files[t]]
  BY DEF FilesInv
<1> QED BY <1>1 DEF NoVobs, VobsOwn

\* A file keeps its name, wherever it is moved to.
LEMMA ForcedName == ASSUME NEW f, Whole(f), NEW offset, NEW size, NEW n
                    PROVE  /\ Forced(f, offset, size).name = f.name
                           /\ [f EXCEPT !.pos = n].name = f.name
<1> DEFINE k == IF size < 0 THEN Sectors(offset) ELSE size
<1>1. ASSUME NEW g, Whole(g), NEW m PROVE [g EXCEPT !.pos = m].name = g.name
  <2>1. g = [open |-> g.open, name |-> g.name, css |-> g.css, start |-> g.start,
             filesize |-> g.filesize, copy |-> g.copy, pos |-> g.pos]
    BY <1>1 DEF Whole
  <2> QED BY <2>1, SMT
<1>2. ASSUME NEW m PROVE [f EXCEPT !.filesize = m, !.copy = -1].name = f.name
  <2>1. f = [open |-> f.open, name |-> f.name, css |-> f.css, start |-> f.start,
             filesize |-> f.filesize, copy |-> f.copy, pos |-> f.pos]
    BY DEF Whole
  <2> DEFINE h == [f EXCEPT !.filesize = m]
  <2>2. h = [open |-> f.open, name |-> f.name, css |-> f.css, start |-> f.start,
             filesize |-> m, copy |-> f.copy, pos |-> f.pos]
    BY <2>1, SMT
  <2>3. [h EXCEPT !.copy = -1].name = f.name
    <3> HIDE DEF h
    <3> QED BY <2>2, SMT
  <2> QED BY <2>3
<1> HIDE DEF k
<1>3. Grown(f, k).name = f.name /\ Whole(Grown(f, k))
  BY <1>2, GrownIsWhole DEF Grown
<1>4. [Grown(f, k) EXCEPT !.pos = offset].name = f.name
  BY <1>1, <1>3
<1>5. Forced(f, offset, size) \in {Grown(f, k), [Grown(f, k) EXCEPT !.pos = offset]}
  BY DEF Forced, k
<1> QED BY <1>1, <1>3, <1>4, <1>5

\* A step of a lookup keeps the name of the file that is looked for.
LEMMA LookupName == ASSUME UdfInv, FindStep PROVE find'.name = find.name
<1>1. Shaped
  BY DEF UdfInv, FindInv
<1>2. ASSUME NEW at, NEW token, NEW icb, NEW file, NEW k, Onward(at, token, icb, file, k)
      PROVE  find'.name = find.name
  BY <1>1, <1>2, OnwardEffect
<1>3. ASSUME NEW file, NEW k, Mapped(file, k) PROVE find'.name = find.name
  BY <1>2, <1>3 DEF Mapped, Answer
<1>4. CASE FromCache \/ FindVolume \/ LoseAnchor \/ LosePartition \/ LoseRoot
  BY <1>2, <1>4 DEF FromCache, FindVolume, LoseAnchor, LosePartition, LoseRoot, Answer
<1>5. CASE MapICB \/ MapFails
  BY <1>2, <1>3, <1>5 DEF MapICB, MapFails, Answer
<1>6. CASE ScanDir \/ ScanFails
  BY <1>2, <1>6 DEF ScanDir, Scanned, ScanFails, Answer
<1>7. CASE ScanFirst
  BY <1>2, <1>7 DEF ScanFirst, Answer
<1> QED BY <1>4, <1>5, <1>6, <1>7 DEF FindStep

\* A call begins.
LEMMA CallBegins == ASSUME OwnInv, OpenVob \/ OpenIfo \/ FileStat \/ DiscID
                    PROVE  OwnInv'
<1>1. PICK op, slot, name, css :
         /\ op \in {"open", "stat", "id"} /\ Call(op, slot, name, css)
         /\ \/ name[1] = "IFO"
            \/ name[1] = "VOB" /\ css # 0 /\ op # "id"
  <2>1. \A d \in Domains : CssTitle(d[1], d[2]) # 0
    BY DEF Domains, CssTitle
  <2>2. \A t, p : Vob(t, p)[1] = "VOB" /\ Ifo(t)[1] = "IFO"
    BY DEF Vob, Ifo
  <2> QED BY <2>1, <2>2 DEF OpenVob, OpenIfo, FileStat, DiscID
<1> DEFINE next == IF op = "id" THEN "vmg" ELSE IF name[1] = "IFO" THEN "ifo" ELSE "first"
<1>2. /\ call' = [op |-> op, next |-> next, slot |-> slot, css |-> css,
                  start |-> Nowhere, size |-> 0, ids |-> <<>>, fails |-> 0]
      /\ last' = NoResult /\ find'.name = name
      /\ UNCHANGED <<css_state, css_title, key, files, wary>>
  BY <1>1 DEF Call, NoCall, StartFind, Idle
<1>3. next \in {"vmg", "ifo", "first"}
      /\ (next = "ifo" => name[1] = "IFO") /\ (next = "first" => css # 0)
  BY <1>1
<1> HIDE DEF next
<1>4. CallInv'
  BY <1>1, <1>2, <1>3 DEF CallInv
<1>5. KeyInv'
  BY <1>2 DEF OwnInv, KeyInv, KeyIsOwn, NoResult, NoVobs, VobsOwn, VobOpen, OwnVob
<1> QED BY <1>4, <1>5 DEF OwnInv

\* A call ends, and it is none that reads.
LEMMA CallEnds ==
    ASSUME OwnInv, NEW result, NEW k, Return(result, k)
    PROVE  CallInv' /\ KeyIsOwn'
<1>1. /\ last' = [op |-> call.op, clean |-> call.fails + find.fails + k = 0,
                  result |-> result]
      /\ call' = NoCall
  BY DEF Return
<1>2. last'.op = call.op
  BY <1>1
<1>3. call.op # "read"
  BY DEF OwnInv, CallInv
<1>4. CallInv'
  BY <1>1 DEF CallInv, NoCall
<1> QED BY <1>2, <1>3, <1>4 DEF KeyIsOwn

\* A call goes on without a key or a file being touched.
LEMMA CallGoesOn ==
    ASSUME OwnInv, CallInv', UNCHANGED <<css_state, css_title, key, files, wary>>,
           KeyIsOwn' \/ UNCHANGED last
    PROVE  OwnInv'
BY DEF OwnInv, KeyInv, KeyIsOwn, NoVobs, VobsOwn, VobOpen, OwnVob

LEMMA CallSteps ==
    ASSUME OwnInv, \/ NotFound \/ VobFound \/ PartFound \/ FinishStat \/ BeginKeys
                   \/ VmgOpened \/ IdFound
    PROVE  OwnInv'
<1> USE DEF Device, Found
<1>0. CallInv
  BY DEF OwnInv
<1>1. CASE NotFound \/ FinishStat
  <2>1. /\ \E result : Return(result, 0)
        /\ UNCHANGED <<css_state, css_title, key, files, wary>>
    BY <1>1 DEF NotFound, FinishStat
  <2> QED BY <2>1, CallEnds, CallGoesOn
<1>2. CASE VobFound
  <2>1. /\ call' = [call EXCEPT !.start = find.file, !.size = Length(find.file),
                               !.fails = @ + find.fails, !.next = call'.next]
        /\ call'.next \in {"part", "finish"} /\ call.next = "first"
        /\ UNCHANGED <<css_state, css_title, key, files, wary, last>>
    <3>1. PICK next :
            /\ next \in {"part", "finish"}
            /\ call' = [call EXCEPT !.start = find.file, !.size = Length(find.file),
                                    !.fails = @ + find.fails, !.next = next]
      BY <1>2 DEF VobFound
    <3>2. call'.next = next
      BY <1>0, <3>1 DEF CallInv
    <3> QED BY <1>2, <3>1, <3>2 DEF VobFound
  <2>2. CallInv'
    BY <1>0, <2>1 DEF CallInv
  <2> QED BY <2>1, <2>2, CallGoesOn
<1>3. CASE PartFound
  <2> DEFINE size == IF find.file = Nowhere THEN 0 ELSE Length(find.file)
             next == IF MoreParts /\ find.name[3] < Parts THEN "part" ELSE "finish"
  <2>1. /\ next \in {"part", "finish"}
        /\ call' = [call EXCEPT !.fails = @ + find.fails, !.size = @ + size, !.next = next]
    BY <1>3 DEF PartFound
  <2> HIDE DEF size, next
  <2>2. call.next = "part" /\ UNCHANGED <<css_state, css_title, key, files, wary, last>>
    BY <1>3 DEF PartFound
  <2>3. CallInv'
    BY <1>0, <2>1, <2>2 DEF CallInv
  <2> QED BY <2>2, <2>3, CallGoesOn
<1>4. CASE BeginKeys
  <2>1. /\ call' = [call EXCEPT !.next = "key"] /\ call.next = "finish" /\ css_state = 1
        /\ call.op = "open"
        /\ UNCHANGED <<css_state, css_title, key, files, wary, last>>
    BY <1>4 DEF BeginKeys
  <2>2. CallInv'
    BY <1>0, <2>1 DEF CallInv
  <2> QED BY <2>1, <2>2, CallGoesOn
<1>5. CASE VmgOpened
  <2>1. UNCHANGED <<css_state, css_title, key, files, wary>> /\ call.next = "vmg"
    BY <1>5 DEF VmgOpened
  <2>2. CASE \E result : Return(result, 0)
    BY <2>1, <2>2, CallEnds, CallGoesOn
  <2>3. CASE call' = [call EXCEPT !.next = "id", !.fails = find.fails] /\ UNCHANGED last
    <3>1. CallInv'
      BY <1>0, <2>1, <2>3 DEF CallInv
    <3> QED BY <2>1, <2>3, <3>1, CallGoesOn
  <2> QED BY <1>5, <2>2, <2>3 DEF VmgOpened
<1>6. CASE IdFound
  <2>1. UNCHANGED <<css_state, css_title, key, files, wary>> /\ call.next = "id"
    BY <1>6 DEF IdFound
  <2>2. CASE \E result, k : Return(result, k)
    BY <2>1, <2>2, CallEnds, CallGoesOn
  <2>3. ASSUME NEW ids, call' = [call EXCEPT !.ids = ids, !.fails = @ + find.fails],
               UNCHANGED last
        PROVE  OwnInv'
    <3>1. CallInv'
      BY <1>0, <2>1, <2>3 DEF CallInv
    <3> QED BY <2>1, <2>3, <3>1, CallGoesOn
  <2>4. ASSUME NEW ids, NextId(ids) PROVE OwnInv'
    BY <2>2, <2>3, <2>4 DEF NextId
  <2> QED BY <1>6, <2>2, <2>4 DEF IdFound
<1> QED BY <1>1, <1>2, <1>3, <1>4, <1>5, <1>6

\* A file is opened: a VOB only when all keys have been retrieved.
LEMMA OpenSteps == ASSUME OwnInv, FilesInv, IfoFound \/ FinishOpen PROVE OwnInv'
<1> USE DEF Device, Found
<1>1. ASSUME NEW start, NEW name, NEW size, NEW copy, OpenAt(start, name, size, copy),
             CallInv', KeyIsOwn', UNCHANGED <<css_state, css_title, key>>,
             name[1] = "VOB" => css_state # 1 /\ call.css # 0 /\ name = VobOf(call.css)
      PROVE  OwnInv'
  <2> DEFINE f == [open |-> TRUE, name |-> name, css |-> call.css, start |-> start,
                   filesize |-> size, copy |-> copy, pos |-> 0]
  <2>1. files' = [files EXCEPT ![call.slot] = f] /\ wary' = (wary /\ start = name)
    BY <1>1 DEF OpenAt
  <2>2. /\ VobOpen(f) => css_state # 1
        /\ wary' /\ VobOpen(f) => OwnVob(f)
    BY <1>1, <2>1 DEF VobOpen, OwnVob
  <2> HIDE DEF f
  <2>3. /\ NoVobs /\ ~VobOpen(f) => NoVobs'
        /\ VobsOwn /\ (VobOpen(f) => OwnVob(f)) => VobsOwn'
    BY <2>1, OneVobChanges
  <2>4. /\ css_state = 1 => css_title = 0 /\ NoVobs
        /\ wary => (css_title # 0 => key = VobOf(css_title)) /\ VobsOwn
    BY DEF OwnInv, KeyInv
  <2> QED BY <1>1, <2>1, <2>2, <2>3, <2>4 DEF OwnInv, KeyInv
<1>2. CASE IfoFound
  <2>1. PICK k \in 0 .. 1 :
          /\ Return(Success(find.file, find.name, Length(find.file)), k)
          /\ \/ UNCHANGED <<files, wary>>
             \/ \E copy : OpenAt(find.file, find.name, Length(find.file), copy)
    BY <1>2 DEF IfoFound
  <2>2. CallInv' /\ KeyIsOwn' /\ UNCHANGED <<css_state, css_title, key>>
    BY <1>2, <2>1, CallEnds DEF IfoFound
  <2>3. find.name[1] = "IFO"
    BY <1>2 DEF IfoFound, OwnInv, CallInv
  <2> QED BY <1>1, <2>1, <2>2, <2>3, CallGoesOn
<1>3. CASE FinishOpen
  <2>1. /\ Return(Success(call.start, Title, call.size), 0)
        /\ OpenAt(call.start, Title, call.size, -1)
        /\ UNCHANGED <<css_state, css_title, key>>
    BY <1>3 DEF FinishOpen
  <2>2. css_state # 1 /\ call.css # 0 /\ Title = VobOf(call.css)
    BY <1>3 DEF FinishOpen, OwnInv, CallInv, Title, VobOf
  <2> QED BY <1>1, <2>1, <2>2, CallEnds
<1> QED BY <1>2, <1>3

\* Keys are retrieved while no VOB is open.
LEMMA KeySteps == ASSUME OwnInv, KeyFound PROVE OwnInv'
<1>1. call.next = "key" /\ css_state = 1 /\ css_title = 0 /\ NoVobs /\ call.css # 0
  BY DEF KeyFound, Found, OwnInv, CallInv, KeyInv
<1>2. \/ /\ call' = [call EXCEPT !.fails = @ + find.fails, !.next = "keyed"]
         /\ css_state' = 2
      \/ /\ call' = [call EXCEPT !.fails = @ + find.fails, !.next = "key"]
         /\ css_state' = css_state
  <2> DEFINE t     == find.name[2]
             part  == find.name[3]
             there == find.file # Nowhere /\ Length(find.file) # 0
             over  == part = 1 /\ (~there \/ t = Titles - 1)
  <2>1. /\ call' = [call EXCEPT !.fails = @ + find.fails,
                                !.next = IF over THEN "keyed" ELSE "key"]
        /\ css_state' = IF over THEN KeysDone ELSE css_state
    BY DEF KeyFound
  <2> HIDE DEF over
  <2>2. CASE over
    BY <2>1, <2>2 DEF KeysDone
  <2>3. CASE ~over
    BY <2>1, <2>3
  <2> QED BY <2>2, <2>3
<1>3. /\ UNCHANGED <<css_title, files, last>>
      /\ wary' \in {wary, FALSE}
  BY DEF KeyFound, Select
<1>4. CallInv'
  <2>1. CallInv
    BY DEF OwnInv
  <2>2. ASSUME NEW next \in {"key", "keyed"},
               call' = [call EXCEPT !.fails = @ + find.fails, !.next = next]
        PROVE  call' = [op |-> call.op, next |-> next, slot |-> call.slot, css |-> call.css,
                        start |-> call.start, size |-> call.size, ids |-> call.ids,
                        fails |-> call.fails + find.fails]
    BY <2>1, <2>2 DEF CallInv
  <2>3. CASE call' = [call EXCEPT !.fails = @ + find.fails, !.next = "keyed"] /\ css_state' = 2
    BY <1>1, <2>1, <2>2, <2>3 DEF CallInv
  <2>4. CASE /\ call' = [call EXCEPT !.fails = @ + find.fails, !.next = "key"]
             /\ css_state' = css_state
    BY <1>1, <2>1, <2>2, <2>4 DEF CallInv
  <2> QED BY <1>2, <2>3, <2>4
<1>5. NoVobs'
  BY <1>1, <1>3 DEF NoVobs, VobOpen
<1>6. KeyIsOwn'
  BY <1>3 DEF OwnInv, KeyInv, KeyIsOwn
<1> QED BY <1>1, <1>3, <1>4, <1>5, <1>6 DEF OwnInv, KeyInv, NoVobs, VobsOwn

\* Blocks are read with the key of css_title, which is made that of the file.
LEMMA ReadSteps == ASSUME OwnInv, NEW s \in Slots, ReadBlocks(s) PROVE OwnInv'
<1> DEFINE f == files[s]
<1>1. VobOpen(f) /\ UNCHANGED <<find, css_state, files, call>>
  BY DEF ReadBlocks, VobFiles, OpenFiles, VobOpen
<1>2. wary => OwnVob(f)
  BY <1>1 DEF OwnInv, KeyInv, VobsOwn
<1>3. css_state # 1
  BY <1>1 DEF OwnInv, KeyInv, NoVobs
<1>4. CallInv'
  BY <1>1 DEF OwnInv, CallInv
<1>5. last' = [op |-> "read", key |-> key', name |-> f.name]
  BY DEF ReadBlocks
<1>6. CASE css_title # f.css
  <2>1. css_title' = f.css /\ ((key' = f.start /\ UNCHANGED wary) \/ wary' = FALSE)
    BY <1>6 DEF ReadBlocks, KeyStale, Select
  <2>2. wary' => wary /\ key' = f.name /\ key' = VobOf(css_title')
    BY <1>2, <2>1 DEF OwnVob
  <2>3. KeyIsOwn'
    BY <1>5, <2>2 DEF KeyIsOwn
  <2> QED BY <1>1, <1>3, <1>4, <2>2, <2>3 DEF OwnInv, KeyInv, VobsOwn
<1>7. CASE css_title = f.css
  <2>1. UNCHANGED <<css_title, key, wary>>
    BY <1>7 DEF ReadBlocks, KeyStale
  <2>2. wary => key = f.name
    BY <1>2, <1>7 DEF OwnInv, KeyInv, OwnVob
  <2>3. KeyIsOwn'
    BY <1>5, <2>1, <2>2 DEF KeyIsOwn
  <2> QED BY <1>1, <1>3, <1>4, <2>1, <2>3 DEF OwnInv, KeyInv, VobsOwn
<1> QED BY <1>6, <1>7

\* Byte reads and seeks move IFOs, which stay IFOs; what is closed is no VOB.
LEMMA MoveSteps == ASSUME OwnInv, FilesInv, NEW s \in Slots, FileStep(s), ~ReadBlocks(s)
                   PROVE  OwnInv'
<1>1. \E f : Move(s, f) /\ ~VobOpen(f)
  <2>1. CASE CloseFile(s)
    <3>1. ~VobOpen(Closed)
      BY DEF Closed, VobOpen
    <3> QED BY <2>1, <3>1 DEF CloseFile
  <2>2. CASE ~CloseFile(s)
    <3>1. s \in IfoFiles
      BY <2>2 DEF FileStep, FileSeek, FileSeekForce, ReadBytes
    <3>2. Whole(files[s]) /\ files[s].name[1] # "VOB"
      BY <3>1 DEF IfoFiles, VobFiles, OpenFiles, FilesInv, Closed
    <3>3. PICK f : Move(s, f) /\ f.name = files[s].name
      <4>1. CASE \E n : FileSeek(s, n)
        BY <3>2, <4>1, ForcedName DEF FileSeek
      <4>2. CASE \E n : FileSeekForce(s, n, -1)
        BY <3>2, <4>2, ForcedName DEF FileSeekForce
      <4>3. CASE \E n : ReadBytes(s, n)
        <5>1. PICK n : Move(s, Forced(files[s], n, -1)) \/ Move(s, files[s])
          BY <4>3 DEF ReadBytes
        <5> QED BY <3>2, <5>1, ForcedName
      <4> QED BY <2>2, <4>1, <4>2, <4>3 DEF FileStep
    <3>4. ~VobOpen(f)
      BY <3>2, <3>3 DEF VobOpen
    <3> QED BY <3>3, <3>4
  <2> QED BY <2>1, <2>2
<1>2. PICK f : Move(s, f) /\ ~VobOpen(f)
  BY <1>1
<1>3. /\ files' = [files EXCEPT ![s] = f] /\ last' = NoResult
      /\ UNCHANGED <<find, css_state, css_title, key, call, wary>>
  BY <1>2 DEF Move, Device
<1>4. (NoVobs => NoVobs') /\ (VobsOwn => VobsOwn')
  BY <1>2, <1>3, OneVobChanges
<1>5. CallInv'
  BY <1>3 DEF OwnInv, CallInv
<1>6. KeyIsOwn'
  BY <1>3 DEF KeyIsOwn, NoResult
<1> QED BY <1>3, <1>4, <1>5, <1>6 DEF OwnInv, KeyInv

LEMMA OwnSteps == OwnInv /\ UdfInv /\ FilesInv /\ [Next]_vars => OwnInv'
<1> SUFFICES ASSUME OwnInv, UdfInv, FilesInv, [Next]_vars PROVE OwnInv'
  OBVIOUS
<1>1. CASE UNCHANGED vars
  BY <1>1, CallGoesOn DEF vars, udfVars, readerVars, OwnInv, CallInv
<1>2. CASE Lookup
  <2>1. find'.name = find.name /\ UNCHANGED readerVars
    BY <1>2, LookupName DEF Lookup
  <2>2. CallInv'
    BY <2>1 DEF readerVars, OwnInv, CallInv
  <2> QED BY <2>1, <2>2, CallGoesOn DEF readerVars
<1>3. CASE Volume
  <2>1. UNCHANGED <<find, css_state, css_title, key, files, call, wary>> /\ last' = NoResult
    BY <1>3 DEF Volume, VolumeInfo, CacheLevel, Device
  <2>2. CallInv' /\ KeyIsOwn'
    BY <2>1 DEF OwnInv, CallInv, KeyIsOwn, NoResult
  <2> QED BY <2>1, <2>2, CallGoesOn
<1>4. CASE Reopen
  <2>1. /\ call.op = "none" /\ OpenFiles = {} /\ UNCHANGED <<find, files, call>>
        /\ css_title' = 0 /\ last' = NoResult
    BY <1>4 DEF Reopen
  <2>2. CallInv'
    BY <2>1 DEF OwnInv, CallInv
  <2>3. NoVobs' /\ VobsOwn'
    BY <2>1 DEF OpenFiles, NoVobs, VobsOwn, VobOpen
  <2> QED BY <2>1, <2>2, <2>3 DEF OwnInv, KeyInv, KeyIsOwn, NoResult
<1>5. ASSUME NEW s \in Slots, FileStep(s) PROVE OwnInv'
  BY <1>5, ReadSteps, MoveSteps
<1> QED
  BY <1>1, <1>2, <1>3, <1>4, <1>5, CallBegins, CallSteps, OpenSteps, KeySteps DEF Next, FileStep

LEMMA OwnInvariance == Spec => []OwnInv
<1>1. Init => OwnInv
  BY DEF Init, OwnInv, CallInv, NoCall, KeyInv, KeyIsOwn, NoResult, NoVobs, VobsOwn, VobOpen,
         Closed
<1> QED BY <1>1, OwnSteps, UdfInvariance, FilesInvariance, PTL DEF Spec

\* A VOB is read with the key of its own title set, whatever files are open and in
\* which order they are opened, read and closed.
THEOREM KeyIsAlwaysOwn == Spec => []KeyIsOwn
<1>1. OwnInv => KeyIsOwn
  BY DEF OwnInv, KeyInv
<1> QED BY <1>1, OwnInvariance, PTL

-------------------------------------------------------------------------------
\* Induction over the natural numbers, for a set: the library's theorem takes an
\* operator as its parameter.
LEMMA SetInduction ==
    ASSUME NEW S, 0 \in S, \A n \in Nat : n \in S => n + 1 \in S
    PROVE  Nat \subseteq S
<1> DEFINE T == Nat \ S
           R == {ss \in Nat \X Nat : ss[1] < ss[2]}
<1>1. IsWellFoundedOn(R, Nat)
  BY NatLessThanWellFounded DEF OpToRel
<1> SUFFICES ASSUME T # {} PROVE FALSE
  OBVIOUS
<1>2. PICK x \in T : \A y \in T : ~ (<<y, x>> \in R)
  <2> HIDE DEF R
  <2> QED BY <1>1, WFMin
<1>3. x # 0 /\ x - 1 \in Nat
  OBVIOUS
<1>4. <<x - 1, x>> \in R
  BY <1>3
<1>5. x - 1 \notin T
  BY <1>2, <1>4
<1>6. (x - 1) + 1 \in S
  BY <1>3, <1>5
<1> QED BY <1>6

\* What size[p] is said to be: nothing behind the last part that follows, and else the
\* part with what comes behind it.
Adds(t, size) ==
    size = [p \in 1 .. Parts + 1 |->
              IF p > Parts \/ Vob(t, p) \notin Present THEN 0
              ELSE Blocks[Vob(t, p)] + size[p + 1]]

LEMMA PresentBlocks == /\ Present \subseteq Names /\ Lost \notin Present /\ Nowhere \notin Present
                       /\ \A name \in Present : Blocks[name] \in Nat
<1>1. Present \subseteq Names
  BY PlacesOfDisc DEF Present
<1> QED BY <1>1, DiscAssumption, ReaderAssumption

\* From the last part on down, there is such a function.
LEMMA SizesExist == ASSUME NEW t PROVE \E size : Adds(t, size)
<1> DEFINE Ends(p) == p > Parts \/ Vob(t, p) \notin Present
           Holds(m, f) ==
             f = [p \in 1 .. Parts + 1 |->
                    IF p < Parts + 1 - m THEN 0
                    ELSE IF Ends(p) THEN 0 ELSE Blocks[Vob(t, p)] + f[p + 1]]
           S == {m \in Nat : m <= Parts => \E f : Holds(m, f)}
<1>0. Parts \in Nat \ {0}
  BY ReaderAssumption
<1>1. 0 \in S
  <2> DEFINE f == [p \in 1 .. Parts + 1 |-> 0]
  <2>1. ASSUME NEW p \in 1 .. Parts + 1
        PROVE  0 = IF p < Parts + 1 - 0 THEN 0
                   ELSE IF Ends(p) THEN 0 ELSE Blocks[Vob(t, p)] + f[p + 1]
    BY <1>0
  <2>2. Holds(0, f)
    BY <2>1
  <2> QED BY <2>2
<1>2. ASSUME NEW m \in Nat, m \in S PROVE m + 1 \in S
  <2> SUFFICES ASSUME m + 1 <= Parts PROVE \E f : Holds(m + 1, f)
    OBVIOUS
  <2>1. PICK f : Holds(m, f)
    BY <1>0, <1>2
  <2> DEFINE q == Parts - m
             g == [p \in 1 .. Parts + 1 |->
                     IF p = q THEN (IF Ends(q) THEN 0 ELSE Blocks[Vob(t, q)] + f[q + 1]) ELSE f[p]]
  <2>2. q \in 1 .. Parts /\ q + 1 \in 1 .. Parts + 1 /\ q = Parts + 1 - (m + 1)
    BY <1>0
  <2>3. \A p \in 1 .. Parts + 1 :
          f[p] = IF p < Parts + 1 - m THEN 0
                 ELSE IF Ends(p) THEN 0 ELSE Blocks[Vob(t, p)] + f[p + 1]
    BY <2>1
  <2> HIDE DEF Ends
  <2>4. ASSUME NEW p \in 1 .. Parts + 1
        PROVE  g[p] = IF p < Parts + 1 - (m + 1) THEN 0
                      ELSE IF Ends(p) THEN 0 ELSE Blocks[Vob(t, p)] + g[p + 1]
    <3>1. CASE p = q
      <4>1. g[q + 1] = f[q + 1]
        BY <2>2
      <4>2. ~(p < Parts + 1 - (m + 1))
        BY <2>2, <3>1
      <4> QED BY <2>2, <3>1, <4>1, <4>2
    <3>2. CASE p # q
      <4>1. g[p] = f[p]
        BY <3>2
      <4>2. CASE p < q
        BY <1>0, <2>3, <2>2, <4>1, <4>2
      <4>3. CASE p > q /\ p <= Parts
        <5>1. p + 1 \in 1 .. Parts + 1 /\ p + 1 # q
          BY <1>0, <2>2, <4>3
        <5>2. g[p + 1] = f[p + 1]
          BY <5>1
        <5>3. ~(p < Parts + 1 - (m + 1)) /\ ~(p < Parts + 1 - m)
          BY <1>0, <2>2, <4>3
        <5> QED BY <2>3, <4>1, <5>2, <5>3
      <4>4. CASE p = Parts + 1
        <5>1. Ends(p)
          BY <1>0, <4>4 DEF Ends
        <5> QED BY <1>0, <2>3, <4>1, <5>1
      <4> QED BY <1>0, <2>2, <3>2, <4>2, <4>3, <4>4
    <3> QED BY <3>1, <3>2
  <2> DEFINE h == [p \in 1 .. Parts + 1 |->
                     IF p < Parts + 1 - (m + 1) THEN 0
                     ELSE IF Ends(p) THEN 0 ELSE Blocks[Vob(t, p)] + g[p + 1]]
  <2>5. g = h
    <3>1. \A p \in 1 .. Parts + 1 : g[p] = h[p]
      BY <2>4
    <3>2. DOMAIN g = 1 .. Parts + 1 /\ DOMAIN h = 1 .. Parts + 1
      OBVIOUS
    <3>3. g = [p \in 1 .. Parts + 1 |-> g[p]] /\ h = [p \in 1 .. Parts + 1 |-> h[p]]
      OBVIOUS
    <3> HIDE DEF g, h
    <3> QED BY <3>1, <3>2, <3>3
  <2>6. Holds(m + 1, g)
    BY <2>5
  <2> QED BY <2>6
<1>3. Parts \in S
  <2> HIDE DEF S
  <2> QED BY <1>0, <1>1, <1>2, SetInduction
<1>4. PICK f : Holds(Parts, f)
  BY <1>0, <1>3
<1>5. \A p \in 1 .. Parts + 1 : ~(p < Parts + 1 - Parts)
  BY <1>0
<1>6. Adds(t, f)
  BY <1>4, <1>5 DEF Adds
<1> QED BY <1>6

\* The sizes of a title are numbers, and each is the part and what follows it.
LEMMA SizesOfParts ==
    ASSUME NEW t
    PROVE  /\ \A p \in 1 .. Parts + 1 : PartSizes(t)[p] \in Nat
           /\ PartSizes(t)[Parts + 1] = 0
           /\ \A p \in 1 .. Parts : Vob(t, p) \notin Present => PartSizes(t)[p] = 0
           /\ \A p \in 1 .. Parts : Vob(t, p) \in Present =>
                PartSizes(t)[p] = Blocks[Vob(t, p)] + PartSizes(t)[p + 1]
<1> DEFINE F == PartSizes(t)
           S == {m \in Nat : m <= Parts => F[Parts + 1 - m] \in Nat}
<1>0. Parts \in Nat \ {0}
  BY ReaderAssumption
<1>1. Adds(t, F)
  <2>1. F = CHOOSE size : Adds(t, size)
    BY DEF PartSizes, Adds
  <2> HIDE DEF F
  <2> QED BY <2>1, SizesExist
<1> HIDE DEF F
<1>2. \A p \in 1 .. Parts + 1 :
        F[p] = IF p > Parts \/ Vob(t, p) \notin Present THEN 0 ELSE Blocks[Vob(t, p)] + F[p + 1]
  BY <1>1 DEF Adds
<1>3. F[Parts + 1] = 0
  BY <1>0, <1>2
<1>4. ASSUME NEW p \in 1 .. Parts
      PROVE  /\ Vob(t, p) \notin Present => F[p] = 0
             /\ Vob(t, p) \in Present => F[p] = Blocks[Vob(t, p)] + F[p + 1]
  BY <1>0, <1>2
<1>5. 0 \in S
  BY <1>0, <1>3
<1>6. ASSUME NEW m \in Nat, m \in S PROVE m + 1 \in S
  <2> SUFFICES ASSUME m + 1 <= Parts PROVE F[Parts + 1 - (m + 1)] \in Nat
    OBVIOUS
  <2> DEFINE p == Parts + 1 - (m + 1)
  <2>1. p \in 1 .. Parts /\ p + 1 = Parts + 1 - m
    BY <1>0
  <2>2. F[p + 1] \in Nat
    BY <1>0, <1>6, <2>1
  <2>3. Vob(t, p) \in Present => Blocks[Vob(t, p)] \in Nat
    BY PresentBlocks
  <2> HIDE DEF p
  <2>4. F[p] \in Nat
    BY <1>4, <2>1, <2>2, <2>3
  <2> QED BY <2>4 DEF p
<1>7. Nat \subseteq S
  <2> HIDE DEF S
  <2> QED BY <1>5, <1>6, SetInduction
<1>8. ASSUME NEW p \in 1 .. Parts + 1 PROVE F[p] \in Nat
  <2>1. (Parts + 1 - p) \in Nat /\ Parts + 1 - p <= Parts /\ Parts + 1 - (Parts + 1 - p) = p
    BY <1>0
  <2> QED BY <1>7, <2>1
<1> QED BY <1>3, <1>4, <1>8 DEF F

-------------------------------------------------------------------------------
\* Every file entry of the directory is there.
NoneBroken == Broken \cap Entries = {}

\* What the answer on a file says.
RightFile(got) == /\ got.start = got.name /\ got.name \in Present
                  /\ got.size = SizeOf(got.name)

\* The first part has been found, and what has been added up so far and the parts that
\* follow from p on are the title.
Counted(p) == /\ call.start = Title /\ Title \in Present /\ call.size \in Nat
              /\ call.size + PartSizes(Title[2])[p] = SizeOf(Title)
Adding == /\ Title[3] = 1
          /\ find.name[3] \in 2 .. Parts /\ find.name = Vob(Title[2], find.name[3])
          /\ call.fails = 0 => Counted(find.name[3])
\* All of the title has been added up.
Ready == call.start = Title /\ Title \in Present /\ call.size = SizeOf(Title)
\* The IFOs before the one that is looked for have been hashed.
Hashing == /\ find.name[2] \in 0 .. Titles - 1 /\ find.name = Ifo(find.name[2])
           /\ call.fails = 0 => call.ids \in Seq(Present) /\ AreIfos(call.ids, find.name[2])

Stages == /\ call.fails \in Nat
          /\ call.op = "id" <=> call.next \in {"vmg", "id"}
          /\ call.next = "vmg" => call.ids = <<>>
          /\ call.next = "first" => find.name = Title
          /\ call.next = "part" => Adding
          /\ call.next \in {"finish", "key", "keyed"} => (call.fails = 0 => Ready)
          /\ call.next = "id" => Hashing
RightInv == Stages /\ RightAnswer

\* An answer of a lookup without a failed read.
LEMMA FoundRight ==
    ASSUME NoneBroken, UdfInv, find.at = "done", find.fails = 0
    PROVE  /\ find.file = Nowhere => find.name \notin Present
           /\ find.file # Nowhere => /\ find.file = find.name /\ find.name \in Present
                                     /\ Length(find.file) = Blocks[find.name]
                                     /\ Blocks[find.name] \in Nat
<1>1. /\ find.file \in {find.name, Nowhere}
      /\ find.file = find.name => find.name \in Present
      /\ find.name \in Present => find.file = find.name
  BY DEF NoneBroken, UdfInv, FindInv, OnWay
<1>2. find.name # Nowhere
  BY DEF UdfInv, FindInv, Specials
<1> QED BY <1>1, <1>2, PresentBlocks DEF Length

\* A title that has been found: its first part, and what follows.
LEMMA TitleSize ==
    ASSUME NEW t
    PROVE  SizeOf(Vob(t, 0)) = Blocks[Vob(t, 0)] /\ SizeOf(Vob(t, 1)) = PartSizes(t)[1]
BY DEF SizeOf, Vob

LEMMA TitleForm == /\ Title = Vob(Title[2], Title[3]) /\ Title[3] \in {0, 1}
                   /\ Title = VobOf(call.css)
BY DEF Title, Vob, VobOf

\* A call returns.
LEMMA ReturnsRight ==
    ASSUME find.fails \in Nat, call.fails \in Nat, NEW result, NEW k \in Nat, Return(result, k),
           call.fails = 0 /\ find.fails = 0 /\ k = 0 /\ result.ok =>
             /\ call.op \in {"open", "stat"} => RightFile(result)
             /\ call.op = "id" => AreIfos(result.ids, Titles)
    PROVE  RightInv'
<1>1. /\ last'.op = call.op /\ last'.clean = (call.fails + find.fails + k = 0)
      /\ last'.result = result /\ call' = NoCall
  BY DEF Return
<1>2. call'.op = "none" /\ call'.next = "none" /\ call'.fails = 0
  BY <1>1 DEF NoCall
<1>3. Stages'
  BY <1>2 DEF Stages
<1>4. CASE call.fails + find.fails + k = 0
  <2>1. call.fails = 0 /\ find.fails = 0 /\ k = 0
    BY <1>4
  <2>2. WholeFile'
    BY <1>1, <2>1 DEF WholeFile, RightFile, Present, Entries
  <2>3. OneId'
    BY <1>1, <2>1 DEF OneId, AreIfos, Present, Entries
  <2> QED BY <1>3, <2>2, <2>3 DEF RightInv, RightAnswer
<1>5. CASE call.fails + find.fails + k # 0
  <2>1. (call.fails + find.fails + k = 0) = FALSE
    BY <1>5
  <2>2. last'.clean = FALSE
    BY <1>1, <2>1, Zenon
  <2> QED BY <1>3, <2>2 DEF RightInv, RightAnswer, WholeFile, OneId
<1> QED BY <1>4, <1>5

\* Nothing is said of a call that has not returned yet.
LEMMA NothingSaid == ASSUME RightAnswer, last' = last \/ last' = NoResult PROVE RightAnswer'
BY DEF RightAnswer, WholeFile, OneId, AreIfos, NoResult, Present, Entries

LEMMA SeekName == ASSUME NEW name, Seek(name) PROVE find'.name = name
BY DEF Seek, Idle

-------------------------------------------------------------------------------
LEMMA BeginsRight ==
    ASSUME RightAnswer, OpenVob \/ OpenIfo \/ FileStat \/ DiscID
    PROVE  RightInv'
<1>1. PICK op, slot, name, css :
         /\ op \in {"open", "stat", "id"} /\ Call(op, slot, name, css)
         /\ \/ name[1] = "IFO"
            \/ op # "id" /\ name[1] = "VOB" /\ name = VobOf(css)
  <2>1. ASSUME NEW d \in Domains PROVE Vob(d[1], d[2]) = VobOf(CssTitle(d[1], d[2]))
    <3>1. d[1] \in Nat /\ d[2] \in {0, 1}
      BY DEF Domains
    <3>2. CASE d[2] = 0
      <4>1. (2 * d[1] + 1) % 2 = 1 /\ (2 * d[1] + 1) \div 2 = d[1]
        BY <3>1
      <4> QED BY <3>1, <3>2, <4>1 DEF VobOf, CssTitle
    <3>3. CASE d[2] = 1
      <4>1. (2 * d[1]) % 2 = 0 /\ (2 * d[1]) \div 2 = d[1] /\ 2 * d[1] + 1 - 1 = 2 * d[1]
        BY <3>1
      <4> QED BY <3>1, <3>3, <4>1 DEF VobOf, CssTitle
    <3> QED BY <3>1, <3>2, <3>3
  <2>2. \A t, p : Vob(t, p)[1] = "VOB" /\ Ifo(t)[1] = "IFO"
    BY DEF Vob, Ifo
  <2> QED BY <2>1, <2>2 DEF OpenVob, OpenIfo, FileStat, DiscID
<1> DEFINE next == IF op = "id" THEN "vmg" ELSE IF name[1] = "IFO" THEN "ifo" ELSE "first"
<1>2. /\ call' = [op |-> op, next |-> next, slot |-> slot, css |-> css,
                  start |-> Nowhere, size |-> 0, ids |-> <<>>, fails |-> 0]
      /\ last' = NoResult /\ find'.name = name
  BY <1>1 DEF Call, NoCall, StartFind, Idle
<1>3. next \in {"vmg", "ifo", "first"} /\ (next = "vmg" <=> op = "id")
      /\ (next = "first" => name = VobOf(css))
  <2>1. CASE op = "id"
    BY <2>1
  <2>2. CASE op # "id" /\ name[1] = "IFO"
    <3>1. next = "ifo"
      BY <2>2
    <3> QED BY <2>2, <3>1
  <2>3. CASE op # "id" /\ name[1] # "IFO"
    <3>1. next = "first"
      BY <2>3
    <3>2. name = VobOf(css)
      BY <1>1, <2>3
    <3> QED BY <2>3, <3>1, <3>2
  <2> QED BY <2>1, <2>2, <2>3
<1> HIDE DEF next
<1>4. Title' = VobOf(css)
  BY <1>2 DEF Title, VobOf
<1>5. Stages'
  BY <1>1, <1>2, <1>3, <1>4 DEF Stages
<1> QED BY <1>2, <1>5, NothingSaid DEF RightInv

\* The file, or the first part, is found or it is not.
LEMMA IfoRight ==
    ASSUME NoneBroken, UdfInv, CallInv, RightInv, NotFound \/ IfoFound
    PROVE  RightInv'
<1>1. find.fails \in Nat /\ call.fails \in Nat
  BY DEF UdfInv, FindInv, RightInv, Stages
<1>2. CASE NotFound
  <2>1. Return([ok |-> FALSE], 0)
    BY <1>2 DEF NotFound
  <2>2. [ok |-> FALSE].ok = FALSE
    OBVIOUS
  <2> QED BY <1>1, <2>1, <2>2, ReturnsRight
<1>3. CASE IfoFound
  <2>1. /\ find.at = "done" /\ find.file # Nowhere /\ call.next = "ifo"
        /\ find.name[1] = "IFO" /\ call.op # "id"
    BY <1>3 DEF IfoFound, Found, CallInv, RightInv, Stages
  <2>2. PICK k \in 0 .. 1 : Return(Success(find.file, find.name, Length(find.file)), k)
    BY <1>3 DEF IfoFound
  <2>3. find.fails = 0 => RightFile(Success(find.file, find.name, Length(find.file)))
    BY <2>1, FoundRight DEF RightFile, Success, SizeOf
  <2> QED BY <1>1, <2>1, <2>2, <2>3, ReturnsRight
<1> QED BY <1>2, <1>3

LEMMA FirstRight == ASSUME NoneBroken, UdfInv, CallInv, RightInv, VobFound PROVE RightInv'
<1> DEFINE more == Title[3] = 1 /\ Parts > 1
           next == IF more THEN "part" ELSE "finish"
           fails == call.fails + find.fails
<1>0. /\ find.fails \in Nat /\ call.fails \in Nat /\ Parts \in Nat \ {0}
      /\ find.at = "done" /\ find.file # Nowhere /\ find.name = Title /\ call.op # "id"
  BY ReaderAssumption DEF UdfInv, FindInv, RightInv, Stages, VobFound, Found
<1>1. /\ call' = [call EXCEPT !.start = find.file, !.size = Length(find.file),
                              !.fails = fails, !.next = next]
      /\ more => Seek(Vob(Title[2], 2))
      /\ last' = last
  BY DEF VobFound
<1> HIDE DEF next, fails
<1>2. /\ call'.op = call.op /\ call'.css = call.css /\ call'.start = find.file
      /\ call'.size = Length(find.file) /\ call'.fails = fails /\ call'.next = next
  BY <1>1 DEF CallInv
<1>3. Title' = Title
  BY <1>2 DEF Title
<1>4. fails \in Nat /\ (fails = 0 => find.fails = 0)
  BY <1>0 DEF fails
<1>5. fails = 0 => /\ call'.start = Title /\ Title \in Present
                   /\ call'.size = Blocks[Title] /\ call'.size \in Nat
  BY <1>0, <1>2, <1>4, FoundRight
<1>6. CASE more
  <2>1. next = "part" /\ find'.name = Vob(Title[2], 2) /\ Title = Vob(Title[2], 1)
    BY <1>1, <1>6, SeekName, TitleForm DEF next
  <2>2. find'.name[3] = 2 /\ 2 \in 2 .. Parts
    BY <1>0, <1>6, <2>1 DEF Vob
  <2>3. fails = 0 => call'.size + PartSizes(Title[2])[2] = SizeOf(Title)
    <3>1. Vob(Title[2], 1) \in Present =>
            PartSizes(Title[2])[1] = Blocks[Vob(Title[2], 1)] + PartSizes(Title[2])[1 + 1]
      BY <1>0, SizesOfParts
    <3>2. SizeOf(Title) = PartSizes(Title[2])[1]
      BY <2>1, TitleSize
    <3> QED BY <1>5, <2>1, <3>1, <3>2
  <2>4. Adding'
    BY <1>2, <1>3, <1>5, <1>6, <2>1, <2>2, <2>3 DEF Adding, Counted, Present, Entries
  <2>5. Stages'
    BY <1>0, <1>2, <1>4, <2>1, <2>4 DEF Stages
  <2> QED BY <1>1, <2>5, NothingSaid DEF RightInv
<1>7. CASE ~more
  <2>1. next = "finish"
    BY <1>7 DEF next
  <2>2. fails = 0 => call'.size = SizeOf(Title)
    <3>1. CASE Title[3] = 0
      BY <1>5, <3>1, TitleForm, TitleSize
    <3>2. CASE Title[3] = 1 /\ Parts = 1
      <4>1. Vob(Title[2], 1) \in Present =>
              PartSizes(Title[2])[1] = Blocks[Vob(Title[2], 1)] + PartSizes(Title[2])[Parts + 1]
        BY <3>2, SizesOfParts
      <4>2. PartSizes(Title[2])[Parts + 1] = 0
        BY SizesOfParts
      <4>3. Title = Vob(Title[2], 1)
        BY <3>2, TitleForm
      <4>4. SizeOf(Title) = PartSizes(Title[2])[1]
        BY <4>3, TitleSize
      <4> QED BY <1>5, <4>1, <4>2, <4>3, <4>4
    <3> QED BY <1>0, <1>7, <3>1, <3>2, TitleForm
  <2>3. fails = 0 => Ready'
    BY <1>2, <1>3, <1>5, <2>2 DEF Ready, Present, Entries
  <2>4. Stages'
    BY <1>0, <1>2, <1>4, <2>1, <2>3 DEF Stages
  <2> QED BY <1>1, <2>4, NothingSaid DEF RightInv
<1> QED BY <1>6, <1>7

\* A part is added, or the title ends.
LEMMA PartRight == ASSUME NoneBroken, UdfInv, CallInv, RightInv, PartFound PROVE RightInv'
<1> DEFINE p     == find.name[3]
           t     == Title[2]
           size  == IF find.file = Nowhere THEN 0 ELSE Length(find.file)
           more  == MoreParts /\ p < Parts
           next  == IF more THEN "part" ELSE "finish"
           fails == call.fails + find.fails
           sum   == call.size + size
<1>0. /\ find.fails \in Nat /\ call.fails \in Nat /\ Parts \in Nat \ {0}
      /\ find.at = "done" /\ Adding /\ call.op # "id"
  BY ReaderAssumption DEF UdfInv, FindInv, RightInv, Stages, PartFound, Found
<1>1. /\ call' = [call EXCEPT !.fails = fails, !.size = sum, !.next = next]
      /\ more => Seek(Vob(t, p + 1))
      /\ last' = last
  BY DEF PartFound
<1>2. p \in 2 .. Parts /\ p \in Nat /\ find.name = Vob(t, p) /\ Title[3] = 1
      /\ Title = Vob(t, 1) /\ p + 1 \in 1 .. Parts + 1
  BY <1>0, TitleForm DEF Adding
<1>3. (find.file = Nowhere) = (~MoreParts)
  BY DEF MoreParts
<1>4. fails \in Nat /\ (fails = 0 => find.fails = 0 /\ call.fails = 0)
  BY <1>0
<1>5. fails = 0 => Counted(p)
  BY <1>0, <1>4 DEF Adding
<1>6. /\ Vob(t, p) \notin Present => PartSizes(t)[p] = 0
      /\ Vob(t, p) \in Present => PartSizes(t)[p] = Blocks[Vob(t, p)] + PartSizes(t)[p + 1]
      /\ PartSizes(t)[p] \in Nat /\ PartSizes(t)[p + 1] \in Nat /\ PartSizes(t)[Parts + 1] = 0
  <2>1. p \in 1 .. Parts /\ p \in 1 .. Parts + 1
    BY <1>0, <1>2
  <2> HIDE DEF p, t
  <2> QED BY <1>2, <2>1, SizesOfParts
<1>7. fails = 0 =>
        /\ size \in Nat
        /\ size + (IF find.file = Nowhere THEN 0 ELSE PartSizes(t)[p + 1]) = PartSizes(t)[p]
  BY <1>0, <1>2, <1>4, <1>6, FoundRight
<1> HIDE DEF next, fails, sum, size, more, p, t
<1>8. /\ call'.op = call.op /\ call'.css = call.css /\ call'.start = call.start
      /\ call'.size = sum /\ call'.fails = fails /\ call'.next = next
  BY <1>1 DEF CallInv
<1>9. Title' = Title
  BY <1>8 DEF Title
<1>10. fails = 0 => /\ call.start = Title /\ Title \in Present /\ call.size \in Nat /\ sum \in Nat
                    /\ call.size + PartSizes(t)[p] = SizeOf(Title)
  BY <1>5, <1>7 DEF Counted, sum, t
<1>11. CASE more
  <2>1. next = "part" /\ find'.name = Vob(t, p + 1) /\ find.file # Nowhere
    BY <1>1, <1>3, <1>11, SeekName DEF next, more
  <2>2. find'.name[3] = p + 1 /\ p + 1 \in 2 .. Parts
    BY <1>0, <1>2, <1>11, <2>1 DEF Vob, more
  <2>3. fails = 0 => sum + PartSizes(t)[p + 1] = SizeOf(Title)
    BY <1>6, <1>7, <1>10, <2>1 DEF sum
  <2>4. Adding'
    BY <1>2, <1>8, <1>9, <1>10, <2>1, <2>2, <2>3 DEF Adding, Counted, Present, Entries, t
  <2>5. Stages'
    BY <1>0, <1>4, <1>8, <2>1, <2>4 DEF Stages
  <2> QED BY <1>1, <2>5, NothingSaid DEF RightInv
<1>12. CASE ~more
  <2>1. next = "finish"
    BY <1>12 DEF next
  <2>2. fails = 0 => sum = SizeOf(Title)
    <3>1. CASE find.file = Nowhere
      BY <1>6, <1>7, <1>10, <3>1 DEF sum
    <3>2. CASE find.file # Nowhere
      <4>1. p = Parts
        BY <1>0, <1>2, <1>3, <1>12, <3>2 DEF more
      <4> QED BY <1>6, <1>7, <1>10, <3>2, <4>1 DEF sum
    <3> QED BY <3>1, <3>2
  <2>3. fails = 0 => Ready'
    BY <1>8, <1>9, <1>10, <2>2 DEF Ready, Present, Entries
  <2>4. Stages'
    BY <1>0, <1>4, <1>8, <2>1, <2>3 DEF Stages
  <2> QED BY <1>1, <2>4, NothingSaid DEF RightInv
<1> QED BY <1>11, <1>12

\* The call is answered once the title has been added up, and the keys are there.
LEMMA FinishRight ==
    ASSUME UdfInv, CallInv, RightInv, FinishStat \/ FinishOpen
    PROVE  RightInv'
<1>1. /\ find.fails \in Nat /\ call.fails \in Nat /\ call.op # "id"
      /\ call.fails = 0 => Ready
  BY DEF UdfInv, FindInv, RightInv, Stages, FinishStat, FinishOpen
<1>2. Return(Success(call.start, Title, call.size), 0)
  BY DEF FinishStat, FinishOpen
<1>3. call.fails = 0 => RightFile(Success(call.start, Title, call.size))
  BY <1>1 DEF Ready, RightFile, Success
<1> QED BY <1>1, <1>2, <1>3, ReturnsRight

\* The keys are retrieved: what has been added up is kept.
LEMMA KeysRight ==
    ASSUME UdfInv, CallInv, RightInv, BeginKeys \/ KeyFound
    PROVE  RightInv'
<1>1. /\ find.fails \in Nat /\ call.fails \in Nat /\ call.op # "id"
      /\ call.fails = 0 => Ready
  BY DEF UdfInv, FindInv, RightInv, Stages, BeginKeys, KeyFound, Found
<1>2. /\ call'.op = call.op /\ call'.css = call.css /\ call'.start = call.start
      /\ call'.size = call.size /\ call'.next \in {"key", "keyed"}
      /\ call'.fails \in {call.fails, call.fails + find.fails}
  <2>1. CASE BeginKeys
    <3>1. call' = [call EXCEPT !.next = "key"]
      BY <2>1 DEF BeginKeys
    <3> QED BY <3>1 DEF CallInv
  <2>2. CASE KeyFound
    <3> DEFINE fails == call.fails + find.fails
    <3>1. \/ call' = [call EXCEPT !.fails = fails, !.next = "keyed"]
          \/ call' = [call EXCEPT !.fails = fails, !.next = "key"]
      <4> DEFINE over == find.name[3] = 1 /\ (~(find.file # Nowhere /\ Length(find.file) # 0)
                                               \/ find.name[2] = Titles - 1)
      <4>1. call' = [call EXCEPT !.fails = fails, !.next = IF over THEN "keyed" ELSE "key"]
        BY <2>2 DEF KeyFound
      <4> HIDE DEF over, fails
      <4>2. CASE over
        BY <4>1, <4>2
      <4>3. CASE ~over
        BY <4>1, <4>3
      <4> QED BY <4>2, <4>3
    <3> HIDE DEF fails
    <3>2. /\ call'.op = call.op /\ call'.css = call.css /\ call'.start = call.start
          /\ call'.size = call.size /\ call'.next \in {"key", "keyed"} /\ call'.fails = fails
      BY <3>1 DEF CallInv
    <3> QED BY <3>2 DEF fails
  <2> QED BY <2>1, <2>2
<1>3. last' = last
  BY DEF BeginKeys, KeyFound
<1>4. Title' = Title /\ call'.fails \in Nat /\ (call'.fails = 0 => call.fails = 0)
  BY <1>1, <1>2 DEF Title
<1>5. call'.fails = 0 => Ready'
  BY <1>1, <1>2, <1>4 DEF Ready, Present, Entries
<1>6. Stages'
  BY <1>1, <1>2, <1>4, <1>5 DEF Stages
<1> QED BY <1>3, <1>6, NothingSaid DEF RightInv

-------------------------------------------------------------------------------
\* One more IFO is hashed, or it is passed over.
LEMMA OneMoreIfo ==
    ASSUME NEW ids \in Seq(Present), NEW n \in Nat, AreIfos(ids, n)
    PROVE  /\ Ifo(n) \notin Present => AreIfos(ids, n + 1)
           /\ Ifo(n) \in Present => /\ Append(ids, Ifo(n)) \in Seq(Present)
                                    /\ AreIfos(Append(ids, Ifo(n)), n + 1)
<1>1. 0 .. (n + 1) - 1 = (0 .. n - 1) \cup {n}
  OBVIOUS
<1>2. Range(ids) = {Ifo(t) : t \in 0 .. n - 1} \cap Present
      /\ \A i, j \in DOMAIN ids : i < j => ids[i][2] < ids[j][2]
  BY DEF AreIfos
<1>3. {Ifo(t) : t \in 0 .. (n + 1) - 1} = {Ifo(t) : t \in 0 .. n - 1} \cup {Ifo(n)}
  BY <1>1
<1>4. ASSUME Ifo(n) \notin Present PROVE AreIfos(ids, n + 1)
  <2>1. Range(ids) = {Ifo(t) : t \in 0 .. (n + 1) - 1} \cap Present
    BY <1>2, <1>3, <1>4
  <2> QED BY <1>2, <2>1 DEF AreIfos
<1>5. ASSUME Ifo(n) \in Present
      PROVE  Append(ids, Ifo(n)) \in Seq(Present) /\ AreIfos(Append(ids, Ifo(n)), n + 1)
  <2> DEFINE more == Append(ids, Ifo(n))
  <2>1. /\ more \in Seq(Present) /\ DOMAIN ids = 1 .. Len(ids) /\ Len(ids) \in Nat
        /\ DOMAIN more = 1 .. Len(ids) + 1
        /\ \A i \in 1 .. Len(ids) : more[i] = ids[i]
        /\ more[Len(ids) + 1] = Ifo(n)
    BY <1>5
  <2> HIDE DEF more
  <2>2. Range(more) = Range(ids) \cup {Ifo(n)}
    <3>1. Range(more) \subseteq Range(ids) \cup {Ifo(n)}
      BY <2>1 DEF Range
    <3>2. Range(ids) \subseteq Range(more)
      <4> SUFFICES ASSUME NEW i \in DOMAIN ids PROVE ids[i] \in Range(more)
        BY DEF Range
      <4>1. i \in DOMAIN more /\ more[i] = ids[i]
        BY <2>1
      <4> QED BY <4>1 DEF Range
    <3>3. Ifo(n) \in Range(more)
      <4>1. Len(ids) + 1 \in DOMAIN more
        BY <2>1
      <4> QED BY <2>1, <4>1 DEF Range
    <3> QED BY <3>1, <3>2, <3>3
  <2>3. Range(more) = {Ifo(t) : t \in 0 .. (n + 1) - 1} \cap Present
    BY <1>2, <1>3, <1>5, <2>2
  <2>4. ASSUME NEW i \in DOMAIN ids PROVE ids[i][2] \in 0 .. n - 1
    <3>1. ids[i] \in Range(ids)
      BY DEF Range
    <3>2. PICK t \in 0 .. n - 1 : ids[i] = Ifo(t)
      BY <1>2, <3>1
    <3> QED BY <3>2 DEF Ifo
  <2>5. ASSUME NEW i \in DOMAIN more, NEW j \in DOMAIN more, i < j
        PROVE  more[i][2] < more[j][2]
    <3>1. i \in DOMAIN ids /\ more[i] = ids[i]
      BY <2>1, <2>5
    <3>2. CASE j \in DOMAIN ids
      BY <1>2, <2>1, <2>5, <3>1, <3>2
    <3>3. CASE j = Len(ids) + 1
      <4>1. more[j][2] = n
        BY <2>1, <3>3 DEF Ifo
      <4> QED BY <2>4, <3>1, <4>1
    <3> QED BY <2>1, <3>2, <3>3
  <2> QED BY <2>1, <2>3, <2>5 DEF AreIfos, more
<1> QED BY <1>4, <1>5

LEMMA IdRight == ASSUME NoneBroken, UdfInv, CallInv, RightInv, IdFound PROVE RightInv'
<1> DEFINE n     == find.name[2]
           fails == call.fails + find.fails
<1>0. /\ find.fails \in Nat /\ call.fails \in Nat /\ Titles \in Nat \ {0}
      /\ find.at = "done" /\ Hashing /\ call.op = "id" /\ call.next = "id"
  BY ReaderAssumption DEF UdfInv, FindInv, RightInv, Stages, IdFound, Found
<1>1. n \in 0 .. Titles - 1 /\ n \in Nat /\ find.name = Ifo(n)
      /\ fails \in Nat /\ (fails = 0 => call.fails = 0 /\ find.fails = 0)
  <2>1. n \in 0 .. Titles - 1 /\ find.name = Ifo(n)
    BY <1>0 DEF Hashing
  <2>2. n \in Nat
    BY <1>0, <2>1
  <2> QED BY <1>0, <2>1, <2>2
<1>2. call.fails = 0 => call.ids \in Seq(Present) /\ AreIfos(call.ids, n)
  BY <1>0 DEF Hashing
<1>3. ASSUME NEW ids, NextId(ids),
             fails = 0 => ids \in Seq(Present) /\ AreIfos(ids, n + 1)
      PROVE  RightInv'
  <2>1. CASE n < TitleSets - 1
    <3>1. /\ call' = [call EXCEPT !.ids = ids, !.fails = fails] /\ Seek(Ifo(n + 1))
          /\ last' = last
      BY <1>3, <2>1 DEF NextId
    <3> HIDE DEF n, fails
    <3>2. /\ call'.op = call.op /\ call'.fails = fails /\ call'.next = call.next
          /\ call'.ids = ids /\ find'.name = Ifo(n + 1)
      BY <3>1, SeekName DEF CallInv
    <3>3. find'.name[2] = n + 1 /\ n + 1 \in 0 .. Titles - 1
      BY <1>0, <1>1, <2>1, <3>2 DEF Ifo, TitleSets
    <3>4. Hashing'
      BY <1>3, <3>2, <3>3 DEF Hashing, AreIfos, Present, Entries
    <3>5. Stages'
      BY <1>0, <1>1, <3>2, <3>4 DEF Stages
    <3> QED BY <3>1, <3>5, NothingSaid DEF RightInv
  <2>2. CASE ~(n < TitleSets - 1)
    <3>1. Return([ok |-> ids # <<>>, ids |-> ids], 0)
      BY <1>3, <2>2 DEF NextId
    <3>2. n + 1 = Titles
      BY <1>0, <1>1, <2>2 DEF TitleSets
    <3>3. [ok |-> ids # <<>>, ids |-> ids].ids = ids
      OBVIOUS
    <3> QED BY <1>0, <1>3, <3>1, <3>2, <3>3, ReturnsRight
  <2> QED BY <2>1, <2>2
<1> HIDE DEF n, fails
<1>4. CASE find.file = Nowhere
  <2>1. NextId(call.ids)
    BY <1>4 DEF IdFound
  <2>2. fails = 0 => Ifo(n) \notin Present
    BY <1>0, <1>1, <1>4, FoundRight
  <2> QED BY <1>1, <1>2, <1>3, <2>1, <2>2, OneMoreIfo
<1>5. CASE find.file # Nowhere
  <2>1. CASE NextId(Append(call.ids, find.file))
    <3>1. fails = 0 => Ifo(n) \in Present /\ find.file = Ifo(n)
      BY <1>0, <1>1, <1>5, FoundRight
    <3> QED BY <1>1, <1>2, <1>3, <2>1, <3>1, OneMoreIfo
  <2>2. CASE Return([ok |-> FALSE, ids |-> <<>>], 1)
    <3>1. [ok |-> FALSE, ids |-> <<>>].ok = FALSE
      OBVIOUS
    <3> QED BY <1>0, <2>2, <3>1, ReturnsRight
  <2> QED BY <1>5, <2>1, <2>2 DEF IdFound
<1> QED BY <1>4, <1>5

\* The disc's own IFO has been opened: no IFO has been hashed.
LEMMA VmgRight == ASSUME UdfInv, CallInv, RightInv, VmgOpened PROVE RightInv'
<1>0. /\ find.fails \in Nat /\ call.fails \in Nat /\ Titles \in Nat \ {0}
      /\ call.op = "id" /\ call.next = "vmg" /\ call.ids = <<>>
  BY ReaderAssumption DEF UdfInv, FindInv, RightInv, Stages, VmgOpened, Found
<1>1. CASE Return([ok |-> FALSE, ids |-> <<>>], 0)
  <2>1. [ok |-> FALSE, ids |-> <<>>].ok = FALSE
    OBVIOUS
  <2> QED BY <1>0, <1>1, <2>1, ReturnsRight
<1>2. CASE /\ call' = [call EXCEPT !.next = "id", !.fails = find.fails]
           /\ Seek(Ifo(0)) /\ last' = last
  <2>1. /\ call'.op = "id" /\ call'.next = "id" /\ call'.fails = find.fails
        /\ call'.ids = <<>> /\ find'.name = Ifo(0)
    BY <1>0, <1>2, SeekName DEF CallInv
  <2>2. find'.name[2] = 0 /\ 0 \in 0 .. Titles - 1 /\ <<>> \in Seq(Present)
    BY <1>0, <2>1 DEF Ifo
  <2>3. AreIfos(<<>>, 0)
    BY DEF AreIfos, Range
  <2>4. Hashing'
    BY <2>1, <2>2, <2>3 DEF Hashing, AreIfos, Present, Entries
  <2>5. Stages'
    BY <1>0, <2>1, <2>4 DEF Stages
  <2> QED BY <1>2, <2>5, NothingSaid DEF RightInv
<1> QED BY <1>1, <1>2 DEF VmgOpened

\* Lookups and what is done between two calls leave a call alone.
LEMMA KeptRight ==
    ASSUME RightInv, call' = call, find'.name = find.name \/ call.next = "none",
           last' = last \/ last' = NoResult
    PROVE  RightInv'
<1>1. RightAnswer'
  BY NothingSaid DEF RightInv
<1>2. Title' = Title
  BY DEF Title
<1>3. CASE find'.name = find.name
  <2>1. (Adding => Adding') /\ (Ready => Ready') /\ (Hashing => Hashing')
    BY <1>2, <1>3 DEF Adding, Counted, Ready, Hashing, AreIfos, Present, Entries
  <2>2. Stages'
    BY <1>2, <1>3, <2>1 DEF RightInv, Stages
  <2> QED BY <1>1, <2>2 DEF RightInv
<1>4. CASE call.next = "none"
  BY <1>1, <1>4 DEF RightInv, Stages
<1> QED BY <1>3, <1>4

LEMMA RightSteps ==
    ASSUME NoneBroken
    PROVE  RightInv /\ OwnInv /\ UdfInv /\ [Next]_vars => RightInv'
<1> SUFFICES ASSUME RightInv, OwnInv, UdfInv, [Next]_vars PROVE RightInv'
  OBVIOUS
<1>0. CallInv
  BY DEF OwnInv
<1>1. CASE UNCHANGED vars
  BY <1>1, KeptRight DEF vars, udfVars, readerVars
<1>2. CASE Lookup
  <2>1. find'.name = find.name /\ UNCHANGED readerVars
    BY <1>2, LookupName DEF Lookup
  <2> QED BY <2>1, KeptRight DEF readerVars
<1>3. CASE Volume
  <2>1. UNCHANGED <<find, call>> /\ last' = NoResult
    BY <1>3 DEF Volume, VolumeInfo, CacheLevel
  <2> QED BY <2>1, KeptRight
<1>4. CASE Reopen
  <2>1. UNCHANGED <<find, call>> /\ last' = NoResult
    BY <1>4 DEF Reopen
  <2> QED BY <2>1, KeptRight
<1>5. ASSUME NEW s \in Slots, FileStep(s) PROVE RightInv'
  <2>1. CASE ReadBlocks(s)
    <3>1. UNCHANGED <<find, call>> /\ last'.op = "read" /\ RightInv
      BY <2>1 DEF ReadBlocks
    <3>2. RightAnswer'
      BY <3>1 DEF RightAnswer, WholeFile, OneId
    <3>3. call.next = "none"
      BY <1>0, <2>1 DEF ReadBlocks, CallInv
    <3> QED BY <3>1, <3>2, <3>3 DEF RightInv, Stages
  <2>2. CASE ~ReadBlocks(s)
    <3>1. UNCHANGED <<find, call>> /\ last' = NoResult
      BY <1>5, <2>2 DEF FileStep, CloseFile, FileSeek, FileSeekForce, ReadBytes, Move
    <3> QED BY <3>1, KeptRight
  <2> QED BY <2>1, <2>2
<1>6. CASE OpenVob \/ OpenIfo \/ FileStat \/ DiscID
  BY <1>6, BeginsRight DEF RightInv
<1> QED
  BY <1>0, <1>1, <1>2, <1>3, <1>4, <1>5, <1>6, IfoRight, FirstRight, PartRight,
     FinishRight, KeysRight, IdRight, VmgRight DEF Next, FileStep

\* A call in which no read fails gives the right answer, on a disc whose directory is
\* whole: all parts of a title that follow one another, and the id of the IFOs there are.
THEOREM AnswersAreRight == ASSUME NoneBroken PROVE Spec => []RightAnswer
<1>1. Init => RightInv
  BY DEF Init, RightInv, Stages, NoCall, NoResult, RightAnswer, WholeFile, OneId
<1>2. RightInv => RightAnswer
  BY DEF RightInv
<1>3. RightInv /\ OwnInv /\ UdfInv /\ [Next]_vars => RightInv'
  BY RightSteps
<1>4. Spec => []OwnInv
  BY OwnInvariance
<1> QED BY <1>1, <1>2, <1>3, <1>4, UdfInvariance, PTL DEF Spec
===============================================================================
