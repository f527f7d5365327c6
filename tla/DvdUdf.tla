-------------------------------- MODULE DvdUdf --------------------------------
(***************************************************************************)
(* libdvdread: where a file of a disc image lies (dvd_udf.c: UDFFindFile   *)
(* and its helpers, with the cache of a reader), and the disc's volume     *)
(* identifiers.                                                            *)
(*                                                                         *)
(* A lookup finds the partition and the root directory, then maps and      *)
(* scans directories: "/VIDEO_TS/X" is looked for in the root directory,   *)
(* then in VIDEO_TS.  Blocks are named by what lies there, so a place      *)
(* stands for a block number, an ICB or an extent.  Every read may fail:   *)
(* the helpers return the negative error, which their callers, who test    *)
(* for 0, take for success, and go on with what their variables held.      *)
(*                                                                         *)
(* The image is complete: no read of its directories ends early.           *)
(***************************************************************************)
EXTENDS Integers, Sequences, SequencesExt

CONSTANTS Names,       \* the names of files, on the disc or not
          Listing,     \* the files of VIDEO_TS, in the order of the directory
          Broken,      \* those whose ICB leads to no file entry
          FirstEntry,  \* the first file entry on the disc is the one of this
          MaxFaults    \* bound: reads of a reader that fail

Root     == <<"dir", 0, 0>>
VideoTs  == <<"dir", 1, 0>>
Nowhere  == <<"none", 0, 0>>     \* 0: not found; an ICB of zeros
Lost     == <<"error", 0, 0>>    \* a negative error as a block number
Dirs     == {Root, VideoTs}
Places   == Names \cup Dirs
Answers  == Places \cup {Nowhere, Lost}

ASSUME DiscAssumption ==
    /\ Names \cap {Root, VideoTs, Nowhere, Lost} = {}
    /\ Listing \in Seq(Names)
    /\ Broken \subseteq Names
    /\ FirstEntry \in Places
    /\ MaxFaults \in Nat

VARIABLES level,                     \* udfcache_level: the cache is used
          avdp, partition, rooticb,  \* "none", "right", or what a failure left
          pvd,
          dirs,                      \* directories whose blocks are cached
          maps,                      \* ICB -> its file, Nowhere when not cached
          find,                      \* the lookup under way
          volume,                    \* the last answer on the volume identifiers
          faults

cache   == <<avdp, partition, rooticb, pvd, dirs, maps>>
udfVars == <<level, cache, find, volume, faults>>

Entries == Range(Listing)
Present == Entries \ Broken

\* What a directory scan sees in the blocks of a place.
Contents(place) == IF place = Root THEN <<VideoTs>>
                   ELSE IF place = VideoTs THEN Listing ELSE <<>>

\* `at' is the next step; `token' what is looked for in the directory `file';
\* `icb' and `file' are the variables ICB and File; `fails' counts failed reads.
Idle == [at |-> "idle", name |-> Nowhere, token |-> Root, icb |-> Nowhere,
         file |-> Nowhere, fails |-> 0]

NoVolume == [id |-> "none", fails |-> 0]

UdfInit ==
    /\ level = 1
    /\ avdp = "none" /\ partition = "none" /\ rooticb = "none" /\ pvd = "none"
    /\ dirs = {}
    /\ maps = [p \in Places \cup {Nowhere} |-> Nowhere]
    /\ find = Idle
    /\ volume = NoVolume
    /\ faults = 0

Fault(k) == /\ faults + k <= MaxFaults
            /\ faults' = faults + k

\* The lookup goes on at `at'; of its reads k failed in this step.
Onward(at, token, icb, file, k) ==
    /\ find' = [find EXCEPT !.at = at, !.token = token, !.icb = icb,
                            !.file = file, !.fails = @ + k]
    /\ Fault(k)
Answer(file, k) == Onward("done", find.token, find.icb, file, k)

\* DVDUDFCacheLevel()
CacheLevel ==
    /\ find.at = "idle"
    /\ level' \in {0, 1} \ {level}
    /\ UNCHANGED <<cache, find, volume, faults>>

StartFind(name) ==
    /\ find.at = "idle"
    /\ find' = [Idle EXCEPT !.at = "volume", !.name = name]
    /\ volume' = NoVolume
    /\ UNCHANGED <<level, cache, faults>>

\* Mutant: a cached partition is enough.
PartitionCached == level = 1 /\ partition # "none"
\* Both must be cached: a partition that a failure left behind is found anew.
VolumeCached == level = 1 /\ partition # "none" /\ rooticb # "none"
AnchorCached == level = 1 /\ avdp # "none"

FromCache ==
    /\ find.at = "volume"
    /\ VolumeCached
    /\ IF partition = "right" THEN Onward("map", Root, Nowhere, Nowhere, 0)
       ELSE Answer(Nowhere, 0)
    /\ UNCHANGED <<level, cache, volume>>

\* Cached values change only while the cache is used.
Kept(v, value) == IF level = 1 THEN value ELSE v

\* The anchor, the partition and the file set descriptor are found; a read behind
\* the partition descriptor may have failed.
FindVolume ==
    /\ find.at = "volume" /\ ~VolumeCached
    /\ \E k \in 0 .. 1 : Onward("map", Root, Nowhere, Nowhere, k)
    /\ avdp' = Kept(avdp, "right")
    /\ partition' = Kept(partition, "right")
    /\ rooticb' = Kept(rooticb, "right")
    /\ UNCHANGED <<level, pvd, dirs, maps, volume>>

\* The anchor cannot be read: the descriptors are looked for wherever the
\* uninitialized avdp_t says, in vain or, when an earlier one is still there, not;
\* and when they cannot be read either, an uninitialized partition is cached.
LoseAnchor ==
    /\ find.at = "volume" /\ ~VolumeCached /\ ~AnchorCached
    /\ \/ Answer(Nowhere, 1) /\ UNCHANGED <<partition, rooticb>>
       \/ /\ Onward("map", Root, Nowhere, Nowhere, 1)
          /\ partition' = Kept(partition, "right")
          /\ rooticb' = Kept(rooticb, "right")
       \/ /\ Answer(Nowhere, 2) \/ Answer(Lost, 3)
          /\ partition' = Kept(partition, "junk") /\ UNCHANGED rooticb
    /\ UNCHANGED <<level, avdp, pvd, dirs, maps, volume>>

\* No partition descriptor was read before a read failed: the uninitialized
\* partition is cached, and no file set descriptor is found in it.
LosePartition ==
    /\ find.at = "volume" /\ ~VolumeCached
    /\ \/ Answer(Nowhere, 1)
       \/ Answer(Lost, 2)
    /\ avdp' = Kept(avdp, "right")
    /\ partition' = Kept(partition, "junk")
    /\ UNCHANGED <<level, rooticb, pvd, dirs, maps, volume>>

LoseRoot ==
    /\ find.at = "volume" /\ ~VolumeCached
    /\ Answer(Lost, 1)
    /\ avdp' = Kept(avdp, "right")
    /\ partition' = Kept(partition, "right")
    /\ UNCHANGED <<level, rooticb, pvd, dirs, maps, volume>>

\* What comes after ICB is mapped: the next token of the path, or the answer.
Mapped(file, k) ==
    CASE find.token = Root    -> Onward("scan", VideoTs, find.icb, file, k)
      [] find.token = VideoTs -> Onward("scan", find.name, find.icb, file, k)
      [] OTHER                -> Answer(file, k)

\* The ICB that is mapped; one of zeros leads to the first file entry.
Icb == IF find.token = Root THEN Root ELSE find.icb
FileOf(icb) == IF icb = Nowhere THEN FirstEntry ELSE icb

\* UDFMapICB()
MapICB ==
    /\ find.at = "map"
    /\ IF level = 1 /\ maps[Icb] # Nowhere
         THEN Mapped(maps[Icb], 0) /\ UNCHANGED maps
       ELSE IF FileOf(Icb) \in Broken
         THEN Answer(Nowhere, 0) /\ UNCHANGED maps
       ELSE /\ Mapped(FileOf(Icb), 0)
            /\ maps' = Kept(maps, [maps EXCEPT ![Icb] = FileOf(Icb)])
    /\ UNCHANGED <<level, avdp, partition, rooticb, pvd, dirs, volume>>

\* The negative error counts as success, and File is what it was; for the root
\* directory it and its file type are uninitialized, perhaps those of an earlier
\* lookup: it passes for a directory or does not.
MapFails ==
    /\ find.at = "map" /\ ~(level = 1 /\ maps[Icb] # Nowhere)
    /\ \/ find.token # Root /\ Mapped(find.file, 1)
       \/ find.token = Root /\ (Answer(Nowhere, 1) \/ Mapped(Root, 1))
    /\ UNCHANGED <<level, cache, volume>>

\* UDFScanDir(): `token' is found in the directory or it is not.
Scanned ==
    IF find.token \in Range(Contents(find.file))
    THEN Onward("map", find.token, find.token, find.file, 0)
    ELSE Answer(Nowhere, 0)

Plain == find.token = VideoTs \/ level = 0 \/ find.file \in dirs

\* UDFScanDir() with its blocks cached, or without the files being mapped.
ScanDir ==
    /\ find.at = "scan" /\ Plain
    /\ Scanned
    /\ dirs' = Kept(dirs, dirs \cup {find.file})
    /\ UNCHANGED <<level, avdp, partition, rooticb, pvd, maps, volume>>

\* The entries before the first one that cannot be mapped.
Mappable(place) ==
    LET list == Contents(place)
        bad  == {i \in DOMAIN list : list[i] \in Broken}
    IN  {list[i] : i \in {j \in DOMAIN list : \A b \in bad : j < b}}

\* The first scan of VIDEO_TS maps every file in it; a read that fails on the way
\* is passed over, and a file entry that is not there ends the scan without result.
ScanFirst ==
    /\ find.at = "scan" /\ ~Plain
    /\ \E lost \in SUBSET {n \in Mappable(find.file) : maps[n] = Nowhere} :
         LET k == Cardinality(lost) IN
         /\ IF Mappable(find.file) # Range(Contents(find.file))
              THEN Answer(Nowhere, k)
            ELSE IF find.token \in Range(Contents(find.file))
              THEN Onward("map", find.token, find.token, find.file, k)
            ELSE Answer(Nowhere, k)
         /\ maps' = [p \in DOMAIN maps |->
                        IF p \in Mappable(find.file) \ lost THEN p ELSE maps[p]]
    /\ dirs' = dirs \cup {find.file}
    /\ UNCHANGED <<level, avdp, partition, rooticb, pvd, volume>>

\* The directory cannot be read: with the cache the negative error counts as
\* success, and ICB is what it was.
ScanFails ==
    /\ find.at = "scan" /\ ~(level = 1 /\ find.file \in dirs)
    /\ IF level = 1 THEN Onward("map", find.token, find.icb, find.file, 1)
       ELSE Answer(Nowhere, 1)
    /\ UNCHANGED <<level, cache, volume>>

\* UDFGetPVD(): a negative error of UDFGetDescriptor() counts as success, and the
\* buffer, whatever is in it, is cached.
GetPVD(id, k) ==
    /\ volume' = [id |-> id, fails |-> k]
    /\ Fault(k)
    /\ pvd' = IF id = "failed" THEN pvd ELSE Kept(pvd, id)

VolumeInfo ==
    /\ find.at = "idle"
    /\ IF level = 1 /\ pvd # "none"
       THEN GetPVD(pvd, 0) /\ UNCHANGED avdp
       ELSE \/ GetPVD("right", 0) /\ avdp' = Kept(avdp, "right")
            \/ GetPVD("junk", 1) /\ avdp' = Kept(avdp, "right")
            \/ /\ ~AnchorCached
               /\ \/ GetPVD("failed", 1) \/ GetPVD("right", 1) \/ GetPVD("junk", 2)
               /\ UNCHANGED avdp
    /\ UNCHANGED <<level, partition, rooticb, dirs, maps, find>>

EndFind ==
    /\ find.at = "done"
    /\ find' = Idle
    /\ UNCHANGED <<level, cache, volume, faults>>

FindStep == FromCache \/ FindVolume \/ LoseAnchor \/ LosePartition \/ LoseRoot
            \/ MapICB \/ MapFails \/ ScanDir \/ ScanFirst \/ ScanFails

UdfNext == \/ \E n \in Names : StartFind(n)
           \/ FindStep \/ EndFind \/ CacheLevel \/ VolumeInfo
UdfSpec == UdfInit /\ [][UdfNext]_udfVars

-----------------------------------------------------------------------------
\* A lookup in which no read fails gives the right place or none, whatever failed
\* in the lookups before it; and it gives the right place of every file that is
\* there, unless a file entry of VIDEO_TS is missing (UDFFindFile() through the
\* cache of the reader: nothing that a failed read left behind is ever used).
RightPlace ==
    find.at = "done" /\ find.fails = 0 =>
        /\ find.file \in {find.name, Nowhere}
        /\ find.file = find.name => find.name \in Present
        /\ find.name \in Present /\ Broken \cap Entries = {} => find.file = find.name

=============================================================================
