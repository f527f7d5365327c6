----------------------------- MODULE VobcopyProofs -----------------------------
(***************************************************************************)
(* What vobcopy's files hold, for every disc, command line, number of      *)
(* retries and number of runs: NamedIsSynced, Accounted, Consent and       *)
(* MirrorOwn.                                                              *)
(***************************************************************************)
EXTENDS Vobcopy, SequenceTheorems, TLAPS

\* What can be written, and what a file is.
Cells == {Torn, Zeros} \cup {<<f[1], f[2], s>> : f \in DOMAIN Sizes, s \in Nat}
Files == [data : Seq(Cells), synced : Int]

\* Where main() has a name for its output.
Naming  == {"round", "path", "partial", "create", "read", "sync", "rename", "move",
            "source", "info"}

\* Every file has been synchronised up to a place in it.
IsFile(f) == f = NoFile \/ f.synced \in 0 .. Len(f.data)
FilesOK == /\ final \in [Names -> Files] /\ partial \in [Names -> Files]
           /\ \A n \in Names : IsFile(final[n]) /\ IsFile(partial[n])
ListOK  == /\ job \in Jobs
           /\ todo \in Seq(Entries(Names)) /\ entry \in Entries(Names \cup {NoName})
           /\ titlenr \in Nat
           /\ pc \in Naming => out \in Names
           /\ pc \in {"space", "open"} => Valid
           /\ pc \in {"listing", "source", "info"} => job.mode # "title"
           /\ pc = "round" => job.mode = "title"
RipOK   == /\ start \in Nat /\ sector \in Nat /\ seek \in Nat /\ buf \in Cells
           /\ pc \in {"read", "info"} => src \in DOMAIN Sizes
           /\ job.mode = "title" /\ pc \in Naming \ {"source", "info"} => src \in DOMAIN Sizes
           /\ pc = "source" /\ ~job.stdout => partial[out].data = <<>>
Synced  == pc \in {"rename", "move"} => partial[out].synced = Len(partial[out].data)
Opened  == pc \in Naming \ {"round", "path", "partial", "create"} /\ ~job.stdout =>
              IsThere(partial[out])

IInv == FilesOK /\ ListOK /\ RipOK /\ Synced /\ Opened /\ NamedIsSynced

\* A file is copied as it is, or up to where it has been synchronised.
LEMMA KeptIsFile ==
    ASSUME NEW f \in Files, IsFile(f)
    PROVE  /\ Kept(f) \in Files /\ IsFile(Kept(f))
           /\ IsThere(f) /\ f.synced = Len(f.data) => Kept(f) = f
           /\ IsThere(Kept(f)) <=> IsThere(f)
<1>1. CASE ~IsThere(f)
  BY <1>1 DEF Kept
<1>2. CASE IsThere(f)
  <2>1. f.synced \in 0 .. Len(f.data)
    BY <1>2 DEF IsFile, IsThere, NoFile
  <2> DEFINE d == SubSeq(f.data, 1, f.synced)
  <2>2. d \in Seq(Cells) /\ Len(d) = f.synced
    BY <2>1 DEF Files
  <2>3. Kept(f) = [data |-> d, synced |-> f.synced]
    BY <1>2 DEF Kept, Files
  <2>4. f.synced = Len(f.data) => d = f.data
    BY <2>1 DEF Files
  <2> QED BY <1>2, <2>1, <2>2, <2>3, <2>4 DEF Files, IsFile, IsThere
<1> QED BY <1>1, <1>2

LEMMA InitInv == Init => IInv
<1> SUFFICES ASSUME Init PROVE IInv
  OBVIOUS
<1> USE VobcopyAssumption
<1>1. NoFile \in Files /\ IsFile(NoFile) /\ ~IsThere(NoFile)
  BY DEF NoFile, Files, IsFile, IsThere
<1>2. FilesOK /\ NamedIsSynced
  BY <1>1 DEF Init, FilesOK, NamedIsSynced
<1>3. ListOK
  BY DEF Init, ListOK, Naming, Entries, NoEntry
<1>4. RipOK /\ Synced /\ Opened
  BY DEF Init, RipOK, Synced, Opened, Naming, Cells, Zeros
<1> QED BY <1>2, <1>3, <1>4 DEF IInv

\* Steps that touch no file.
LEMMA QuietSteps ==
    ASSUME IInv, UNCHANGED files,
           \/ Setup \/ Space \/ OutputPath \/ AskPartial \/ AskFinal
           \/ Retry \/ SkipSector \/ EndRip \/ EndInfo
           \/ OpenTitle \/ Round \/ OpenListing \/ NextEntry \/ OpenSource
    PROVE  IInv'
<1> USE DEF files, list, rip, info, user
<1>1. FilesOK' /\ NamedIsSynced'
  BY DEF IInv, FilesOK, NamedIsSynced
<1>2. CASE Setup \/ Space
  BY <1>1, <1>2 DEF IInv, ListOK, RipOK, Synced, Opened, Naming, Valid, Chosen, Setup, Space
<1>3. CASE OutputPath \/ AskPartial \/ AskFinal
  BY <1>1, <1>3 DEF IInv, ListOK, RipOK, Synced, Opened, Naming, Valid, Chosen, OutputPath, AskPartial, AskFinal, HaveAccess
<1>4. CASE Retry \/ SkipSector
  <2>1. /\ UNCHANGED <<job, pc, out, entry, todo, titlenr, start, src, seek, buf>>
        /\ sector' \in {sector, sector + 1}
    BY <1>4 DEF Retry, SkipSector, NextSector
  <2>2. ListOK' /\ Synced' /\ Opened'
    BY <2>1 DEF IInv, ListOK, Synced, Opened, Naming, Valid, Chosen
  <2>3. RipOK'
    BY <2>1 DEF IInv, RipOK, Naming
  <2> QED BY <1>1, <2>2, <2>3 DEF IInv
<1>9. CASE EndRip \/ EndInfo
  BY <1>1, <1>9 DEF IInv, ListOK, RipOK, Synced, Opened, Naming, Valid, Chosen, EndRip, EndInfo
<1>5. CASE OpenTitle
  <2>1. Titles[Chosen].name \in Names
    <3>1. Valid
      BY <1>5 DEF IInv, ListOK, OpenTitle
    <3> QED BY <3>1, VobcopyAssumption DEF Valid
  <2>2. /\ UNCHANGED <<job, entry, todo, titlenr, start, sector, seek, buf>>
        /\ out' = Titles[Chosen].name /\ job.mode = "title"
        /\ \/ pc' = "round" /\ src' \in DOMAIN Sizes
           \/ pc' = "ended"
    BY <1>5 DEF OpenTitle
  <2> QED BY <1>1, <2>1, <2>2 DEF IInv, ListOK, RipOK, Synced, Opened, Naming, Valid, Chosen
<1>10. CASE Round
  <2>1. job.start \in Nat
    BY VobcopyAssumption DEF IInv, ListOK
  <2>2. /\ UNCHANGED <<job, out, entry, todo, titlenr, src, seek, buf>> /\ pc = "round"
        /\ \/ pc' \in {"ended", "path"} /\ UNCHANGED <<start, sector>>
           \/ pc' = "read" /\ job.stdout /\ start' = job.start /\ sector' = job.start
    BY <1>10 DEF Round, StartRip
  <2>4. ListOK'
    BY <2>2 DEF IInv, ListOK, Naming
  <2>5. RipOK'
    BY <2>1, <2>2 DEF IInv, ListOK, RipOK, Naming
  <2>6. Synced' /\ Opened'
    BY <2>2 DEF IInv, Synced, Opened, Naming
  <2> QED BY <1>1, <2>4, <2>5, <2>6 DEF IInv
<1>6. CASE OpenListing
  <2>1. job.listing \in Seq(Entries(Names))
    BY VobcopyAssumption DEF IInv, ListOK
  <2>2. SubSeq(job.listing, 3, Len(job.listing)) \in Seq(Entries(Names))
    BY <2>1
  <2> QED BY <1>1, <1>6, <2>2 DEF IInv, ListOK, RipOK, Synced, Opened, Naming, Valid, Chosen, OpenListing
<1>7. CASE NextEntry
  <2>1. CASE todo = <<>>
    BY <1>1, <1>7, <2>1 DEF IInv, ListOK, RipOK, Synced, Opened, Naming, Valid, Chosen, NextEntry
  <2>2. CASE todo # <<>>
    <3>1. Head(todo) \in Entries(Names) /\ Tail(todo) \in Seq(Entries(Names))
      BY <2>2 DEF IInv, ListOK
    <3>2. Head(todo).name \in Names /\ Head(todo) \in Entries(Names \cup {NoName})
      BY <3>1 DEF Entries
    <3>3. /\ entry' = Head(todo) /\ todo' = Tail(todo) /\ out' = Head(todo).name
          /\ pc = "listing" /\ pc' \in {"source", "partial"}
          /\ UNCHANGED <<job, titlenr, start, sector, seek, buf>>
          /\ pc' = "source" => job.stdout
      BY <1>7, <2>2 DEF NextEntry
    <3> QED BY <1>1, <3>1, <3>2, <3>3 DEF IInv, ListOK, RipOK, Synced, Opened, Naming, Valid, Chosen
  <2> QED BY <2>1, <2>2
<1>8. CASE OpenSource
  <2>1. TitleNr \in Nat /\ entry.digit \in Nat
    BY DEF TitleNr, IInv, ListOK, Entries
  <2>2. PartsThere => VobStart \in Nat
    BY <2>1, VobcopyAssumption DEF PartsThere, VobStart, IInv, RipOK
  <2>3. /\ titlenr' = TitleNr /\ UNCHANGED <<job, out, entry, todo>> /\ pc = "source"
        /\ pc' \in {"died", "ended", "listing", "info", "read"}
        /\ pc' \in {"info", "read"} => src' \in DOMAIN Sizes
        /\ start' \in Nat
        /\ sector' = sector \/ sector' = 0 \/ sector' = start'
        /\ seek' = seek \/ seek' = 0
        /\ buf' = buf \/ buf' = Zeros
    <3>0. start \in Nat
      BY DEF IInv, RipOK
    <3>1. /\ titlenr' = TitleNr /\ UNCHANGED <<job, out, entry, todo>> /\ pc = "source"
      BY <1>8 DEF OpenSource
    <3>2. CASE /\ UNCHANGED <<rip, info>>
               /\ pc' \in {"died", "listing"}
      BY <3>0, <3>1, <3>2
    <3>3. CASE /\ src' = <<"bup", TitleNr>> /\ seek' = 0 /\ buf' = Zeros /\ sector' = 0
               /\ pc' = IF src' \in DOMAIN Sizes THEN "info" ELSE "died"
               /\ UNCHANGED start
      BY <3>0, <3>1, <3>3
    <3>4. CASE /\ IF src' \in DOMAIN Sizes /\ PartsThere
                    THEN StartRip(VobStart, Sizes[src'])
                    ELSE pc' = "died" /\ UNCHANGED <<start, sector, total, tries>>
               /\ UNCHANGED info
      <4>1. CASE src' \in DOMAIN Sizes /\ PartsThere
        BY <2>2, <3>1, <3>4, <4>1 DEF StartRip
      <4>2. CASE ~(src' \in DOMAIN Sizes /\ PartsThere)
        BY <3>0, <3>1, <3>4, <4>2
      <4> QED BY <4>1, <4>2
    <3>5. CASE /\ pc' \in {"ended", "died"} /\ UNCHANGED info
               /\ UNCHANGED <<start, sector, total, tries>>
      BY <3>0, <3>1, <3>5
    <3> QED BY <1>8, <3>2, <3>3, <3>4, <3>5 DEF OpenSource
  <2>4. start' \in Nat /\ sector' \in Nat /\ seek' \in Nat /\ buf' \in Cells
    BY <2>3 DEF IInv, RipOK, Cells
  <2>5. ListOK'
    BY <2>1, <2>3 DEF IInv, ListOK, Naming, Valid, Chosen
  <2>6. RipOK'
    BY <2>3, <2>4 DEF RipOK, Naming
  <2>7. Synced' /\ Opened'
    BY <2>3 DEF IInv, Synced, Opened, Naming
  <2> QED BY <1>1, <2>5, <2>6, <2>7 DEF IInv
<1> QED BY <1>2, <1>3, <1>4, <1>5, <1>6, <1>7, <1>8, <1>9, <1>10

-------------------------------------------------------------------------------
\* What a step writes is a cell, if anything.
LEMMA PutFiles ==
    ASSUME FilesOK, NamedIsSynced, ~job.stdout => IsThere(partial[out]),
           NEW data \in Seq(Cells), Put(data)
    PROVE  /\ FilesOK' /\ NamedIsSynced' /\ final' = final
           /\ \A n \in Names : partial'[n].synced = partial[n].synced
<1>1. CASE job.stdout
  BY <1>1 DEF Put, FilesOK, NamedIsSynced, files
<1>2. CASE ~job.stdout
  <2>1. /\ final' = final
        /\ partial' = [partial EXCEPT ![out].data = partial[out].data \o data]
    BY <1>2 DEF Put
  <2>2. ASSUME NEW n \in Names
        PROVE  /\ partial'[n] \in Files /\ partial'[n].synced = partial[n].synced
               /\ IsFile(partial'[n])
    <3>1. partial[n] \in Files /\ IsFile(partial[n])
      BY DEF FilesOK
    <3>2. CASE n = out
      <4> DEFINE d == partial[n].data \o data
      <4>1. partial[n].data \in Seq(Cells) /\ Len(partial[n].data) \in Nat
        BY <3>1 DEF Files
      <4>2. d \in Seq(Cells) /\ Len(d) >= Len(partial[n].data)
        BY <4>1
      <4>3. partial'[n] = [data |-> d, synced |-> partial[n].synced]
        BY <2>1, <3>1, <3>2 DEF Files, FilesOK
      <4>4. partial[n].synced \in 0 .. Len(partial[n].data)
        BY <1>2, <3>1, <3>2 DEF IsFile, IsThere, NoFile
      <4> QED BY <4>2, <4>3, <4>4 DEF Files, IsFile
    <3>3. CASE n # out
      BY <2>1, <3>1, <3>3 DEF FilesOK
    <3> QED BY <3>2, <3>3
  <2> QED BY <2>1, <2>2 DEF FilesOK, NamedIsSynced
<1> QED BY <1>1, <1>2

\* A copy or a move touches one file and ends as one.
LEMMA FileSteps == ASSUME IInv, Create \/ CopySector \/ Sync \/ Move \/ CopyInfo
                   PROVE  IInv'
<1> USE DEF files, list, rip, info, user
<1>1. CASE Create
  <2>1. job.start \in Nat /\ out \in Names
    BY <1>1, VobcopyAssumption DEF IInv, ListOK, Create, Naming
  <2>2. CASE UNCHANGED partial /\ pc' = "died" /\ UNCHANGED rip
    BY <1>1, <2>2 DEF IInv, FilesOK, NamedIsSynced, ListOK, RipOK, Synced, Opened, Naming, Create, Valid, Chosen
  <2>3. CASE partial' = [partial EXCEPT ![out] = [data |-> <<>>, synced |-> 0]]
    <3> DEFINE f == [data |-> <<>>, synced |-> 0]
    <3>1. f \in Files /\ IsFile(f) /\ IsThere(f)
      BY DEF Files, IsFile, IsThere
    <3>2. FilesOK' /\ NamedIsSynced' /\ partial'[out] = f
      BY <1>1, <2>1, <2>3, <3>1 DEF IInv, FilesOK, NamedIsSynced, Create
    <3>3. /\ UNCHANGED <<job, out, entry, todo, titlenr, seek, buf>>
          /\ \/ /\ job.mode = "title" /\ pc' = "read" /\ UNCHANGED src
                /\ start' = job.start /\ sector' = job.start
             \/ job.mode # "title" /\ pc' = "source" /\ UNCHANGED <<start, sector>>
             \/ pc' = "died" /\ UNCHANGED <<start, sector>>
          /\ pc = "create"
      BY <1>1 DEF Create, StartRip
    <3>4. ListOK'
      BY <3>3 DEF IInv, ListOK, Naming
    <3>5. RipOK'
      BY <2>1, <3>2, <3>3 DEF IInv, RipOK, Naming
    <3>6. Synced' /\ Opened'
      BY <3>1, <3>2, <3>3 DEF IInv, Synced, Opened, Naming
    <3> QED BY <3>2, <3>4, <3>5, <3>6 DEF IInv
  <2> QED BY <1>1, <2>2, <2>3 DEF Create
<1>2. CASE CopySector
  <2>1. Item(sector) \in Cells /\ Torn \in Cells
    <3>1. src \in DOMAIN Sizes /\ sector \in Nat
      BY <1>2 DEF IInv, RipOK, CopySector, Naming
    <3> QED BY <3>1 DEF Item, Cells
  <2>2. \E data \in Seq(Cells) : Put(data)
    <3>1. <<Item(sector)>> \in Seq(Cells) /\ <<Torn>> \in Seq(Cells) /\ <<>> \in Seq(Cells)
      BY <2>1
    <3> QED BY <1>2, <3>1 DEF CopySector
  <2>3. /\ UNCHANGED <<job, out, entry, todo, titlenr, seek, buf, start, src>> /\ pc = "read"
        /\ pc' \in {"read", "sync"} /\ sector' \in {sector, sector + 1}
    BY <1>2 DEF CopySector, NextSector
  <2>4. /\ FilesOK' /\ NamedIsSynced'
        /\ \A n \in Names : partial'[n].synced = partial[n].synced
    BY <2>2, <2>3, PutFiles DEF IInv, Opened, Naming
  <2>5. ListOK' /\ out \in Names
    BY <2>3 DEF IInv, ListOK, Naming
  <2>6. RipOK'
    BY <2>3 DEF IInv, RipOK, Naming
  <2>7. Synced' /\ Opened'
    BY <2>3, <2>4, <2>5 DEF IInv, Synced, Opened, Naming, IsThere
  <2> QED BY <2>4, <2>5, <2>6, <2>7 DEF IInv
<1>3. CASE CopyInfo
  <2>1. buf' \in Cells /\ seek' \in Nat
    <3>1. src \in DOMAIN Sizes /\ seek \in Nat /\ buf \in Cells
      BY <1>3 DEF IInv, RipOK, CopyInfo, Naming
    <3> QED BY <1>3, <3>1 DEF CopyInfo, Item, Cells
  <2>2. UNCHANGED files \/ \E data \in Seq(Cells) : Put(data)
    <3>1. <<buf'>> \in Seq(Cells) /\ <<Torn>> \in Seq(Cells)
      BY <2>1 DEF Cells
    <3> QED BY <1>3, <3>1 DEF CopyInfo
  <2>3. /\ UNCHANGED <<job, out, entry, todo, titlenr, start, src>> /\ pc = "info"
        /\ pc' \in {"info", "ended"} /\ sector' \in {sector, sector + 1}
    BY <1>3 DEF CopyInfo
  <2>4. /\ FilesOK' /\ NamedIsSynced'
        /\ \A n \in Names : partial'[n].synced = partial[n].synced
    BY <2>2, <2>3, PutFiles DEF IInv, Opened, Naming, FilesOK, NamedIsSynced
  <2>5. ListOK' /\ out \in Names
    BY <2>3 DEF IInv, ListOK, Naming
  <2>6. RipOK'
    BY <2>1, <2>3 DEF IInv, RipOK, Naming
  <2>7. Synced' /\ Opened'
    BY <2>3, <2>4, <2>5 DEF IInv, Synced, Opened, Naming, IsThere
  <2> QED BY <2>4, <2>5, <2>6, <2>7 DEF IInv
<1>4. CASE Sync
  <2>1. out \in Names /\ partial[out] \in Files /\ IsFile(partial[out])
    BY <1>4 DEF IInv, ListOK, FilesOK, Sync, Naming
  <2>2. /\ UNCHANGED <<job, final, out, entry, todo, titlenr, start, src, sector, seek, buf>>
        /\ pc = "sync"
        /\ \/ /\ UNCHANGED partial /\ pc' \in {NextFile, Failure}
           \/ /\ pc' = "rename" /\ ~job.stdout
              /\ partial' = [partial EXCEPT ![out].synced = Len(partial[out].data)]
    BY <1>4 DEF Sync
  <2>3. /\ NextFile \in {"round", "listing"} /\ (NextFile = "round" <=> job.mode = "title")
        /\ Failure \in {"died", "ended"}
    BY DEF NextFile, Failure
  <2>4. CASE UNCHANGED partial /\ pc' \in {NextFile, Failure}
    <3>1. ListOK'
      BY <2>2, <2>3, <2>4 DEF IInv, ListOK, Naming
    <3>2. RipOK'
      BY <2>2, <2>3, <2>4 DEF IInv, RipOK, Naming
    <3> QED BY <2>2, <2>3, <2>4, <3>1, <3>2 DEF IInv, FilesOK, NamedIsSynced, Synced, Opened, Naming
  <2>5. CASE /\ pc' = "rename" /\ ~job.stdout
             /\ partial' = [partial EXCEPT ![out].synced = Len(partial[out].data)]
    <3> DEFINE f == [data |-> partial[out].data, synced |-> Len(partial[out].data)]
    <3>1. f \in Files /\ IsFile(f) /\ IsThere(f)
      BY <2>1 DEF Files, IsFile, IsThere
    <3>2. partial' = [partial EXCEPT ![out] = f]
      <4>1. [partial[out] EXCEPT !.synced = Len(partial[out].data)] = f
        BY <2>1 DEF Files
      <4> QED BY <2>5, <4>1
    <3>3. FilesOK' /\ NamedIsSynced' /\ partial'[out] = f
      BY <2>1, <2>2, <3>1, <3>2 DEF IInv, FilesOK, NamedIsSynced
    <3>4. ListOK'
      BY <2>2, <2>5 DEF IInv, ListOK, Naming
    <3>5. RipOK'
      BY <2>2, <2>5 DEF IInv, RipOK, Naming
    <3>6. Synced' /\ Opened'
      BY <2>2, <3>1, <3>3 DEF Synced, Opened
    <3> QED BY <3>3, <3>4, <3>5, <3>6 DEF IInv
  <2> QED BY <2>2, <2>4, <2>5
<1>5. CASE Move
  <2>1. /\ out \in Names /\ partial[out] \in Files /\ IsFile(partial[out])
        /\ partial[out].synced = Len(partial[out].data)
    BY <1>5 DEF IInv, ListOK, FilesOK, Synced, Move, Naming
  <2>2. /\ UNCHANGED <<job, out, entry, todo, titlenr, start, src, sector, seek, buf>>
        /\ pc = "move"
        /\ \/ UNCHANGED files /\ pc' = "died"
           \/ /\ pc' = NextFile
              /\ final' = [final EXCEPT ![out] = partial[out]]
              /\ partial' = [partial EXCEPT ![out] = NoFile]
    BY <1>5 DEF Move
  <2>3. NextFile \in {"round", "listing"} /\ (NextFile = "round" <=> job.mode = "title")
    BY DEF NextFile
  <2>4. NoFile \in Files /\ IsFile(NoFile)
    BY DEF NoFile, Files, IsFile
  <2>5. FilesOK' /\ NamedIsSynced'
    BY <2>1, <2>2, <2>4 DEF IInv, FilesOK, NamedIsSynced
  <2>6. ListOK'
    BY <2>2, <2>3 DEF IInv, ListOK, Naming
  <2>7. RipOK'
    BY <2>2, <2>3 DEF IInv, RipOK, Naming
  <2>8. Synced' /\ Opened'
    BY <2>2, <2>3 DEF Synced, Opened, Naming
  <2> QED BY <2>5, <2>6, <2>7, <2>8 DEF IInv
<1> QED BY <1>1, <1>2, <1>3, <1>4, <1>5

LEMMA BreakSteps == ASSUME IInv, Interrupt \/ Restart \/ UNCHANGED vars
                    PROVE  IInv'
<1> USE DEF files, list, rip, info, user
<1>1. CASE Interrupt
  <2>1. /\ UNCHANGED <<job, out, entry, todo, titlenr, start, src, sector, seek, buf>>
        /\ pc' = "killed"
    BY <1>1 DEF Interrupt
  <2>2. FilesOK' /\ NamedIsSynced'
    <3>1. CASE UNCHANGED files
      BY <3>1 DEF IInv, FilesOK, NamedIsSynced
    <3>2. CASE /\ final' = [n \in Names |-> Kept(final[n])]
               /\ partial' = [n \in Names |-> Kept(partial[n])]
      BY <3>2, KeptIsFile DEF IInv, FilesOK, NamedIsSynced
    <3> QED BY <1>1, <3>1, <3>2 DEF Interrupt
  <2>3. ListOK' /\ Synced' /\ Opened'
    BY <2>1 DEF IInv, ListOK, Synced, Opened, Naming
  <2>4. RipOK'
    BY <2>1 DEF IInv, RipOK, Naming
  <2> QED BY <2>2, <2>3, <2>4 DEF IInv
<1>2. CASE Restart
  <2>1. FilesOK' /\ NamedIsSynced'
    BY <1>2 DEF Restart, IInv, FilesOK, NamedIsSynced
  <2>2. ListOK' /\ Synced' /\ Opened'
    BY <1>2 DEF Restart, ListOK, Synced, Opened, Naming, Entries, NoEntry
  <2>3. RipOK'
    BY <1>2 DEF Restart, RipOK, Naming, Cells, Zeros
  <2> QED BY <2>1, <2>2, <2>3 DEF IInv
<1>3. CASE UNCHANGED vars
  <2>1. FilesOK' /\ NamedIsSynced' /\ Synced' /\ Opened' /\ ListOK'
    BY <1>3 DEF vars, IInv, FilesOK, NamedIsSynced, Synced, Opened, ListOK, Naming, Valid, Chosen
  <2>2. RipOK'
    BY <1>3 DEF vars, IInv, RipOK, Naming
  <2> QED BY <2>1, <2>2 DEF IInv
<1> QED BY <1>1, <1>2, <1>3

LEMMA StepInv == IInv /\ [Next]_vars => IInv'
<1> SUFFICES ASSUME IInv, [Next]_vars PROVE IInv'
  OBVIOUS
<1>1. CASE \/ Setup \/ Space \/ OutputPath \/ AskPartial \/ AskFinal
           \/ Retry \/ SkipSector \/ EndRip \/ EndInfo
           \/ OpenTitle \/ Round \/ OpenListing \/ NextEntry \/ OpenSource
  <2>1. UNCHANGED files
    BY <1>1 DEF files, Setup, Space, OutputPath, AskPartial, AskFinal, Retry, SkipSector,
                EndRip, EndInfo, OpenTitle, Round, OpenListing, NextEntry, OpenSource
  <2> QED BY <1>1, <2>1, QuietSteps
<1>2. CASE Create \/ CopySector \/ Sync \/ Move \/ CopyInfo
  BY <1>2, FileSteps
<1>3. CASE Interrupt \/ Restart \/ UNCHANGED vars
  BY <1>3, BreakSteps
<1> QED BY <1>1, <1>2, <1>3 DEF Next, Step, Copy, Title, Mirror, Terminated

\* A file has its name only when its data are on the disk, whatever is
\* interrupted, refused or started again.
THEOREM NamedAreSynced == Spec => []NamedIsSynced
<1>1. IInv => NamedIsSynced
  BY DEF IInv
<1> QED BY <1>1, InitInv, StepInv, PTL DEF Spec

-------------------------------------------------------------------------------
\* What has been copied grows by the sector at hand, or that sector failed.
LEMMA NothingBefore == \A n \in Nat : n .. n - 1 = {}
OBVIOUS

LEMMA CopiedOne ==
    ASSUME start \in Nat, NEW s \in Nat, start <= s, NEW d \in Seq(Cells), CopiedUpTo(d, s)
    PROVE  CopiedUpTo(d \o <<Item(s)>>, s + 1)
<1> DEFINE e == d \o <<Item(s)>>
<1>1. /\ Len(e) = Len(d) + 1 /\ Len(d) \in Nat
      /\ \A i \in 1 .. Len(d) : e[i] = d[i]
      /\ e[Len(d) + 1] = Item(s)
  OBVIOUS
<1>2. Item(s)[3] = s
  BY DEF Item
<1>3. /\ \A i, j \in 1 .. Len(d) : i < j => d[i][3] < d[j][3]
      /\ \A i \in 1 .. Len(d) : d[i] = Item(d[i][3]) /\ d[i][3] \in start .. s - 1
      /\ \A t \in start .. s - 1 : Fails(t) \/ \E i \in 1 .. Len(d) : d[i] = Item(t)
  BY DEF CopiedUpTo
<1> HIDE DEF e
<1>4. \A i, j \in 1 .. Len(e) : i < j => e[i][3] < e[j][3]
  BY <1>1, <1>2, <1>3
<1>5. \A i \in 1 .. Len(e) : e[i] = Item(e[i][3]) /\ e[i][3] \in start .. s
  BY <1>1, <1>2, <1>3
<1>6. \A t \in start .. s : Fails(t) \/ \E i \in 1 .. Len(e) : e[i] = Item(t)
  <2> TAKE t \in start .. s
  <2>1. CASE t = s
    BY <1>1, <2>1
  <2>2. CASE t # s
    <3>1. t \in start .. s - 1
      BY <2>2
    <3> QED BY <1>1, <1>3, <3>1
  <2> QED BY <2>1, <2>2
<1>7. (s + 1) - 1 = s
  OBVIOUS
<1>8. CopiedUpTo(e, s + 1)
  BY <1>4, <1>5, <1>6, <1>7 DEF CopiedUpTo
<1> QED BY <1>8 DEF e

LEMMA CopiedFailed ==
    ASSUME start \in Nat, NEW s \in Nat, start <= s, NEW d, CopiedUpTo(d, s), Fails(s)
    PROVE  CopiedUpTo(d, s + 1)
<1>1. (s + 1) - 1 = s
  OBVIOUS
<1>2. \A t \in start .. s : t = s \/ t \in start .. s - 1
  OBVIOUS
<1>3. \A t \in start .. s : Fails(t) \/ \E i \in 1 .. Len(d) : d[i] = Item(t)
  BY <1>2 DEF CopiedUpTo
<1>4. \A t \in start .. s - 1 : t \in start .. s
  OBVIOUS
<1> QED BY <1>1, <1>3, <1>4 DEF CopiedUpTo

\* A sector that has been tried before failed then.
Tried  == pc = "read" => start <= sector /\ (tries > 0 => Fails(sector))
RipInv == Accounted /\ Tried

LEMMA RipSteps == IInv /\ IInv' /\ RipInv /\ [Next]_vars => RipInv'
<1> SUFFICES ASSUME IInv, IInv', RipInv, [Next]_vars PROVE RipInv'
  OBVIOUS
<1> USE DEF files, list, rip, info, user
<1>1. CASE pc' # "read"
  BY <1>1 DEF RipInv, Accounted, Tried
<1>2. ASSUME pc' = "read", start' = sector', tries' = 0,
             ~job'.stdout => partial'[out'].data = <<>>
      PROVE  RipInv'
  <2>z. start' \in Nat /\ 1 .. Len(<<>>) = {}
    BY DEF IInv, RipOK
  <2>a. start' .. start' - 1 = {}
    BY <2>z, NothingBefore
  <2>1. CopiedUpTo(<<>>, start)'
    BY <2>z, <2>a DEF CopiedUpTo
  <2> QED BY <1>2, <2>1 DEF IInv, RipOK, RipInv, Accounted, Tried
<1>3. CASE Create /\ pc' = "read"
  <2>1. out \in Names
    BY <1>3 DEF IInv, ListOK, Create, Naming
  <2>2. partial'[out'].data = <<>> /\ start' = sector' /\ tries' = 0
    BY <1>3, <2>1 DEF Create, StartRip, IInv, FilesOK
  <2> QED BY <1>2, <1>3, <2>2
<1>4. CASE Round /\ pc' = "read"
  BY <1>2, <1>4 DEF Round, StartRip
<1>5. CASE OpenSource /\ pc' = "read"
  <2>1. start' = sector' /\ tries' = 0
    BY <1>5 DEF OpenSource, StartRip
  <2>2. ~job'.stdout => partial'[out'].data = <<>>
    BY <1>5 DEF OpenSource, IInv, RipOK
  <2> QED BY <1>2, <1>5, <2>1, <2>2
<1>6. start \in Nat /\ sector \in Nat
  BY DEF IInv, RipOK
<1>8. CASE Retry
  <2>1. /\ UNCHANGED <<pc, job, partial, out, start, src, sector>> /\ Fails(sector)
    BY <1>8 DEF Retry
  <2>2. Tried'
    BY <2>1 DEF RipInv, Tried, Fails, Item
  <2>3. Accounted'
    BY <2>1 DEF RipInv, Accounted, CopiedUpTo, Fails, Item
  <2> QED BY <2>2, <2>3 DEF RipInv
<1>9. CASE SkipSector
  <2>1. Fails(sector) /\ start <= sector /\ pc = "read"
    BY <1>9, VobcopyAssumption DEF SkipSector, RipInv, Tried
  <2>2. /\ sector' = sector + 1 /\ tries' = 0
        /\ UNCHANGED <<pc, job, partial, out, start, src>>
    BY <1>9 DEF SkipSector, NextSector
  <2>3. Tried'
    BY <1>6, <2>1, <2>2 DEF Tried
  <2>4. CASE ~job.stdout
    <3>1. CopiedUpTo(partial[out].data, sector + 1)
      BY <1>6, <2>1, <2>4, CopiedFailed DEF RipInv, Accounted
    <3>2. CopiedUpTo(partial[out].data, sector)'
      BY <2>2, <3>1 DEF CopiedUpTo, Fails, Item
    <3> QED BY <2>2, <2>3, <3>2 DEF RipInv, Accounted
  <2> QED BY <2>2, <2>3, <2>4 DEF RipInv, Accounted
<1>10. CASE CopySector /\ pc' = "read"
  <2>1. /\ pc = "read" /\ sector' = sector + 1 /\ tries' = 0
        /\ UNCHANGED <<pc, job, out, start, src>> /\ Put(<<Item(sector)>>)
    BY <1>10 DEF CopySector, NextSector
  <2>2. Tried' /\ start <= sector
    BY <1>6, <2>1 DEF RipInv, Tried
  <2>3. CASE job.stdout
    BY <2>1, <2>2, <2>3 DEF RipInv, Accounted
  <2>4. CASE ~job.stdout
    <3>1. out \in Names /\ partial[out] \in Files
      BY <2>1 DEF IInv, ListOK, FilesOK, Naming
    <3>2. partial'[out].data = partial[out].data \o <<Item(sector)>>
      BY <2>1, <2>4, <3>1 DEF Put, IInv, FilesOK, Files
    <3>3. CopiedUpTo(partial[out].data \o <<Item(sector)>>, sector + 1)
      <4>1. partial[out].data \in Seq(Cells)
        BY <3>1 DEF Files
      <4> QED BY <1>6, <2>1, <2>2, <2>4, <4>1, CopiedOne DEF RipInv, Accounted
    <3>4. CopiedUpTo(partial[out].data, sector)'
      BY <2>1, <3>2, <3>3 DEF CopiedUpTo, Fails, Item
    <3> QED BY <2>2, <3>4 DEF RipInv, Accounted
  <2> QED BY <2>2, <2>3, <2>4
<1>11. CASE UNCHANGED vars
  <2>1. Tried'
    BY <1>11 DEF vars, RipInv, Tried, Fails, Item
  <2>2. Accounted'
    BY <1>11 DEF vars, RipInv, Accounted, CopiedUpTo, Fails, Item
  <2> QED BY <2>1, <2>2 DEF RipInv
<1>12. CASE OutputPath \/ AskPartial \/ AskFinal
  BY <1>1, <1>12 DEF OutputPath, AskPartial, AskFinal, HaveAccess
<1>13. CASE Setup \/ Space \/ EndRip \/ OpenTitle \/ OpenListing
  BY <1>1, <1>13 DEF Setup, Space, EndRip, OpenTitle, OpenListing
<1>14. CASE Sync \/ Move
  BY <1>1, <1>14 DEF Sync, Move, NextFile, Failure
<1>15. CASE NextEntry \/ CopyInfo \/ EndInfo
  BY <1>1, <1>15 DEF NextEntry, CopyInfo, EndInfo
<1>16. CASE Interrupt \/ Restart
  BY <1>1, <1>16 DEF Interrupt, Restart
<1>17. CASE Terminated
  BY <1>11, <1>17 DEF Terminated
<1> QED
  BY <1>1, <1>3, <1>4, <1>5, <1>8, <1>9, <1>10, <1>11, <1>12, <1>13, <1>14, <1>15, <1>16,
     <1>17 DEF Next, Step, Copy, Title, Mirror

\* Every sector that a copy leaves out is one whose reads failed, and what it
\* holds is in order, whatever else the output directory and the disc hold.
THEOREM AllAccounted == Spec => []Accounted
<1>1. Init => RipInv
  BY DEF Init, RipInv, Accounted, Tried
<1>2. RipInv => Accounted
  BY DEF RipInv
<1> QED BY <1>1, <1>2, InitInv, StepInv, RipSteps, PTL DEF Spec

-------------------------------------------------------------------------------
\* What the answers allow is remembered until the file is made or moved: without
\* a reply or -x, neither place that is written to was taken before.
Asked == /\ overwrite = "all" => Consented
         /\ pc = "create" /\ ~Consented => ~IsThere(partial[out])
         /\ pc = "move" /\ ~Consented => ~IsThere(final[out])

\* The name of a file is asked for before its place is taken.
LEMMA AskSteps ==
    ASSUME Asked, NEW f, NEW prompt, NEW yes, NEW no, HaveAccess(f, prompt, yes, no),
           prompt = "prompt", UNCHANGED job
    PROVE  /\ overwrite' = "all" => Consented'
           /\ pc' = yes /\ yes \notin {no, "died", "spins"} /\ ~Consented' => ~IsThere(f)
           /\ pc' \in {yes, no, "died", "spins"}
<1>1. CASE pc' \in {no, "died"} /\ UNCHANGED user
  BY <1>1 DEF Asked, Consented, user
<1>2. CASE (~IsThere(f) \/ overwrite = "all") /\ pc' = yes /\ UNCHANGED user
  BY <1>2 DEF Asked, Consented, user
<1>3. CASE \E reply \in {"o", "x"} : /\ overwrite' = "all"
                                     /\ said' = said \cup {<<out, reply>>}
                                     /\ pc' = yes
  <2>1. said' # {} /\ pc' = yes
    BY <1>3
  <2> QED BY <2>1 DEF Consented
<1>4. CASE pc' \in {no, "died", "spins"} /\ UNCHANGED user
  BY <1>4 DEF Asked, Consented, user
<1> QED BY <1>1, <1>2, <1>3, <1>4 DEF HaveAccess

LEMMA AskedSteps == Asked /\ [Next]_vars => Asked'
<1> SUFFICES ASSUME Asked, [Next]_vars PROVE Asked'
  OBVIOUS
<1>1. CASE OutputPath
  <2>1. HaveAccess(final[out], "prompt", "partial", "died") /\ UNCHANGED job
    BY <1>1 DEF OutputPath
  <2>2. (overwrite' = "all" => Consented') /\ pc' \in {"partial", "died", "spins"}
    BY <2>1, AskSteps
  <2> QED BY <2>2 DEF Asked
<1>2. CASE AskPartial
  <2>1. HaveAccess(partial[out], "prompt", "create", "ended") /\ UNCHANGED <<job, out, files>>
    BY <1>2 DEF AskPartial
  <2>2. /\ overwrite' = "all" => Consented'
        /\ pc' = "create" /\ ~Consented' => ~IsThere(partial[out])
        /\ pc' \in {"create", "ended", "died", "spins"}
    BY <2>1, AskSteps
  <2> QED BY <2>1, <2>2 DEF Asked, files
<1>3. CASE AskFinal
  <2>1. HaveAccess(final[out], "prompt", "move", "died") /\ UNCHANGED <<job, out, files>>
    BY <1>3 DEF AskFinal
  <2>2. /\ overwrite' = "all" => Consented'
        /\ pc' = "move" /\ ~Consented' => ~IsThere(final[out])
        /\ pc' \in {"move", "died", "spins"}
    BY <2>1, AskSteps
  <2> QED BY <2>1, <2>2 DEF Asked, files
<1>4. CASE Restart
  BY <1>4 DEF Restart, Asked, Consented
<1>5. CASE UNCHANGED vars
  BY <1>5 DEF vars, files, user, Asked, Consented
<1>6. CASE UNCHANGED <<job, user>> /\ pc' \notin {"create", "move"}
  BY <1>6 DEF user, Asked, Consented
<1>7. CASE Setup \/ Space \/ OpenTitle \/ Round \/ OpenListing \/ NextEntry \/ EndRip \/ EndInfo
  BY <1>6, <1>7 DEF Setup, Space, OpenTitle, Round, StartRip, OpenListing, NextEntry, EndRip, EndInfo
<1>8. CASE Create \/ Retry \/ SkipSector \/ CopySector \/ Sync \/ Move
  BY <1>6, <1>8 DEF Create, StartRip, Retry, SkipSector, CopySector, Sync, Move, NextFile, Failure
<1>9. CASE OpenSource \/ CopyInfo
  BY <1>6, <1>9 DEF OpenSource, StartRip, CopyInfo
<1>10. CASE Interrupt
  BY <1>6, <1>10 DEF Interrupt
<1> QED
  BY <1>1, <1>2, <1>3, <1>4, <1>5, <1>7, <1>8, <1>9, <1>10
  DEF Next, Step, Copy, Title, Mirror, Terminated

\* A file that is left alone, or grows, keeps what it holds.
LEMMA GrownKeeps ==
    ASSUME NEW f \in Files, NEW data \in Seq(Cells), NEW g,
           IsThere(f) => IsThere(g), g.data = f.data \o data
    PROVE  Keeps(f, g)
<1>1. f.data \in Seq(Cells)
  BY DEF Files
<1>2. f.data \o data \in Seq(Cells) /\ Len(f.data) <= Len(f.data \o data)
  BY <1>1
<1>3. SubSeq(f.data, 1, Len(f.data)) = SubSeq(f.data \o data, 1, Len(f.data))
  BY <1>1
<1> QED BY <1>2, <1>3 DEF Keeps, IsPrefix

LEMMA SameKeeps == ASSUME NEW f \in Files PROVE Keeps(f, f)
BY DEF Keeps, IsPrefix, Files

LEMMA PutKeeps ==
    ASSUME FilesOK, NEW data \in Seq(Cells), Put(data), NEW n \in Names
    PROVE  Keeps(final[n], final'[n]) /\ Keeps(partial[n], partial'[n])
<1>1. final[n] \in Files /\ partial[n] \in Files
  BY DEF FilesOK
<1>2. CASE UNCHANGED files
  BY <1>1, <1>2, SameKeeps DEF files
<1>3. CASE /\ final' = final
           /\ partial' = [partial EXCEPT ![out].data = partial[out].data \o data]
  <2>1. CASE n = out
    <3>1. /\ partial'[n].data = partial[n].data \o data
          /\ partial'[n].synced = partial[n].synced
      BY <1>1, <1>3, <2>1 DEF FilesOK, Files
    <3>2. Keeps(partial[n], partial'[n])
      BY <1>1, <3>1, GrownKeeps DEF IsThere
    <3> QED BY <1>1, <1>3, <3>2, SameKeeps
  <2>2. CASE n # out
    BY <1>1, <1>3, <2>2, SameKeeps DEF FilesOK
  <2> QED BY <2>1, <2>2
<1> QED BY <1>2, <1>3 DEF Put

\* What a step may do with the files of a name.
Allowed(n) == pc' # "killed" /\ ~Consented' =>
                 /\ Keeps(final[n], final'[n])
                 /\ \/ Keeps(partial[n], partial'[n])
                    \/ final'[n] = partial[n]

LEMMA AllowedSteps ==
    ASSUME IInv, Asked, [Next]_vars, NEW n \in Names
    PROVE  Allowed(n)
<1>1. final[n] \in Files /\ partial[n] \in Files
  BY DEF IInv, FilesOK
<1>2. CASE UNCHANGED files
  BY <1>1, <1>2, SameKeeps DEF files, Allowed
<1>3. CASE Create
  <2>1. \/ UNCHANGED partial
        \/ partial' = [partial EXCEPT ![out] = [data |-> <<>>, synced |-> 0]]
    BY <1>3 DEF Create
  <2>2. UNCHANGED <<final, job, said>> /\ (~Consented => ~IsThere(partial[out]))
    BY <1>3 DEF Create, user, Asked
  <2>3. CASE n = out /\ ~Consented
    BY <1>1, <2>2, <2>3, SameKeeps DEF Keeps, Allowed
  <2>4. CASE n # out
    BY <1>1, <2>1, <2>2, <2>4, SameKeeps DEF IInv, FilesOK, Allowed
  <2>5. CASE Consented
    BY <2>2, <2>5 DEF Consented, Allowed
  <2> QED BY <2>3, <2>4, <2>5
<1>4. CASE CopySector
  <2>1. Item(sector) \in Cells /\ Torn \in Cells
    <3>1. src \in DOMAIN Sizes /\ sector \in Nat
      BY <1>4 DEF IInv, RipOK, CopySector, Naming
    <3> QED BY <3>1 DEF Item, Cells
  <2>2. PICK data \in Seq(Cells) : Put(data)
    <3>1. <<Item(sector)>> \in Seq(Cells) /\ <<Torn>> \in Seq(Cells) /\ <<>> \in Seq(Cells)
      BY <2>1
    <3> QED BY <1>4, <3>1 DEF CopySector
  <2> QED BY <2>2, PutKeeps DEF IInv, Allowed
<1>5. CASE CopyInfo
  <2>1. buf' \in Cells
    <3>1. src \in DOMAIN Sizes /\ seek \in Nat /\ buf \in Cells
      BY <1>5 DEF IInv, RipOK, CopyInfo, Naming
    <3> QED BY <1>5, <3>1 DEF CopyInfo, Item, Cells, info
  <2>2. UNCHANGED files \/ \E data \in Seq(Cells) : Put(data)
    <3>1. <<buf'>> \in Seq(Cells) /\ <<Torn>> \in Seq(Cells)
      BY <2>1 DEF Cells
    <3> QED BY <1>5, <3>1 DEF CopyInfo
  <2>3. CASE \E data \in Seq(Cells) : Put(data)
    <3>1. PICK data \in Seq(Cells) : Put(data)
      BY <2>3
    <3> QED BY <3>1, PutKeeps DEF IInv, Allowed
  <2> QED BY <1>2, <2>2, <2>3
<1>6. CASE Sync
  <2>1. \/ UNCHANGED partial
        \/ partial' = [partial EXCEPT ![out].synced = Len(partial[out].data)]
    BY <1>6 DEF Sync
  <2>2. UNCHANGED final
    BY <1>6 DEF Sync
  <2>3. CASE n = out /\ partial' = [partial EXCEPT ![out].synced = Len(partial[out].data)]
    <3>1. partial'[n].data = partial[n].data /\ partial'[n].synced = Len(partial[n].data)
      BY <1>1, <2>3 DEF IInv, FilesOK, Files
    <3>2. partial[n].data \in Seq(Cells) /\ Len(partial[n].data) \in Nat
      BY <1>1 DEF Files
    <3>3. Keeps(partial[n], partial'[n])
      BY <3>1, <3>2 DEF Keeps, IsThere, IsPrefix
    <3> QED BY <1>1, <2>2, <3>3, SameKeeps DEF Allowed
  <2>4. CASE n # out \/ UNCHANGED partial
    BY <1>1, <2>1, <2>2, <2>4, SameKeeps DEF IInv, FilesOK, Allowed
  <2> QED BY <2>1, <2>3, <2>4
<1>7. CASE Move
  <2>1. \/ UNCHANGED files
        \/ /\ final' = [final EXCEPT ![out] = partial[out]]
           /\ partial' = [partial EXCEPT ![out] = NoFile]
    BY <1>7 DEF Move
  <2>2. UNCHANGED <<job, said>> /\ (~Consented => ~IsThere(final[out]))
    BY <1>7 DEF Move, user, Asked
  <2>3. CASE n # out
    BY <1>1, <1>2, <2>1, <2>3, SameKeeps DEF IInv, FilesOK, Allowed
  <2>4. CASE n = out /\ final' = [final EXCEPT ![out] = partial[out]]
    <3>1. final'[n] = partial[n]
      BY <2>4 DEF IInv, FilesOK
    <3>2. ~Consented' => Keeps(final[n], final'[n])
      BY <2>2, <2>4 DEF Keeps, Consented
    <3> QED BY <3>1, <3>2 DEF Allowed
  <2> QED BY <1>2, <2>1, <2>3, <2>4
<1>8. CASE Interrupt
  BY <1>8 DEF Interrupt, Allowed
<1>9. CASE Setup \/ Space \/ OutputPath \/ AskPartial \/ AskFinal \/ Restart
  BY <1>2, <1>9 DEF Setup, Space, OutputPath, AskPartial, AskFinal, Restart
<1>10. CASE Retry \/ SkipSector \/ EndRip \/ EndInfo \/ UNCHANGED vars
  BY <1>2, <1>10 DEF Retry, SkipSector, EndRip, EndInfo, vars
<1>11. CASE OpenTitle \/ Round \/ OpenListing \/ NextEntry \/ OpenSource
  BY <1>2, <1>11 DEF OpenTitle, Round, OpenListing, NextEntry, OpenSource
<1> QED
  BY <1>3, <1>4, <1>5, <1>6, <1>7, <1>8, <1>9, <1>10, <1>11
  DEF Next, Step, Copy, Title, Mirror, Terminated

\* What the files of earlier runs hold is given up only with -x or after a reply
\* of this run, however the runs before ended.
THEOREM NothingWithoutConsent == Spec => Consent
<1>1. Init => Asked
  BY DEF Init, Asked, Consented
<1>2. IInv /\ Asked /\ [Next]_vars =>
        [\A n \in Names :
            pc' # "killed" /\ ~Consented' =>
               /\ Keeps(final[n], final'[n])
               /\ \/ Keeps(partial[n], partial'[n])
                  \/ final'[n] = partial[n]]_vars
  BY AllowedSteps DEF Allowed
<1> QED BY <1>1, <1>2, InitInv, StepInv, AskedSteps, PTL DEF Spec, Consent
-------------------------------------------------------------------------------
\* What mirror() is to read for an entry with a number, and from which sector on.
Part  == entry.kind = "vob" /\ entry.digit > 0
Own   == <<IF entry.kind = "info" THEN "bup" ELSE IF Part THEN "title" ELSE "menu", entry.nr>>
First == IF Part THEN PartStart(entry.nr, entry.digit) ELSE 0
Is(s) == <<Own[1], Own[2], s>>

\* The two halves of MirrorOwn: what a file holds, and how it begins.
HoldsOwn(d)  == \A i \in 1 .. Len(d) : d[i] \in {Torn, Zeros} \cup {Is(s) : s \in 0 .. Sizes[Own]}
BeginsOwn(d) == Len(d) > 0 =>
                  \/ d[1] = Torn
                  \/ \E s \in First .. Sizes[Own] - 1 :
                        d[1] = Is(s) /\ \A t \in First .. s - 1 : Is(t) \in Hard
                  \/ d[1] = Zeros /\ entry.kind = "info" /\ Is(0) \in Hard
IsOwn(d)     == HoldsOwn(d) /\ BeginsOwn(d)

Numbered  == job.mode = "mirror" /\ ~job.stdout /\ entry.nr > 0
Copied    == partial[out].data
MirrorInv ==
    /\ \A i \in 1 .. Len(todo) : todo[i].nr > 0 => todo[i].digit \in 0 .. 9
    /\ entry.nr > 0 => entry.digit \in 0 .. 9
    /\ Numbered /\ pc \in {"read", "info", "sync", "rename"} => IsOwn(Copied)
    /\ Numbered /\ pc \in {"read", "info"} => src = Own
    /\ Numbered /\ pc = "read" => entry.kind = "vob" /\ start = First
    /\ pc = "rename" => ~job.stdout
    /\ Numbered /\ pc = "info" =>
         /\ entry.kind = "info"
         /\ buf \in {Zeros} \cup {Is(s) : s \in 0 .. Sizes[Own]}
         /\ Len(Copied) = 0 => seek = 0 /\ buf = Zeros

\* Nothing lies before the first part.
LEMMA FirstPart == ASSUME NEW nr PROVE PartStart(nr, 1) = 0
<1> DEFINE F == [x \in {{}} |-> 0]
<1>1. SubSeq(PartSizes[nr], 1, 1 - 1) = <<>> /\ DOMAIN <<>> = {} /\ SUBSET {} = {{}}
  BY SubSeqEmpty
<1>2. Sum(<<>>) = 0
  BY <1>1 DEF Sum, FoldLeft, MapThenFoldSet
<1> QED BY <1>1, <1>2 DEF PartStart

LEMMA EmptyIsOwn == ASSUME NEW d, Len(d) = 0 PROVE IsOwn(d)
BY DEF IsOwn, HoldsOwn, BeginsOwn

\* One more cell, of which a file can hold any, or begin with it.
LEMMA OneMoreIsOwn ==
    ASSUME NEW d \in Seq(Cells), IsOwn(d), NEW c \in Cells,
           c \in {Torn, Zeros} \cup {Is(s) : s \in 0 .. Sizes[Own]},
           Len(d) = 0 => BeginsOwn(<<c>>)
    PROVE  IsOwn(d \o <<c>>)
<1> DEFINE e == d \o <<c>>
<1>1. /\ Len(e) = Len(d) + 1 /\ Len(d) \in Nat
      /\ \A i \in 1 .. Len(d) : e[i] = d[i]
      /\ e[Len(d) + 1] = c
  OBVIOUS
<1> HIDE DEF e
<1>2. HoldsOwn(e)
  BY <1>1 DEF IsOwn, HoldsOwn
<1>3. CASE Len(d) = 0
  <2>1. e[1] = c /\ BeginsOwn(<<c>>) /\ <<c>>[1] = c /\ Len(<<c>>) = 1
    BY <1>1, <1>3
  <2>2. BeginsOwn(e)
    BY <2>1 DEF BeginsOwn
  <2> QED BY <1>2, <2>2 DEF IsOwn, e
<1>4. CASE Len(d) # 0
  <2>1. e[1] = d[1] /\ Len(d) > 0
    BY <1>1, <1>4
  <2>2. BeginsOwn(e)
    BY <2>1 DEF IsOwn, BeginsOwn
  <2> QED BY <1>2, <2>2 DEF IsOwn, e
<1> QED BY <1>3, <1>4

\* What a step adds to the file that is being written.
LEMMA PutAdds ==
    ASSUME IInv, out \in Names, ~job.stdout, out' = out,
           NEW c \in Cells, NEW data \in {<<>>, <<c>>}, Put(data)
    PROVE  Copied \in Seq(Cells) /\ Copied' = Copied \o data
<1>1. partial[out] \in Files /\ partial \in [Names -> Files]
  BY DEF IInv, FilesOK
<1>2. partial' = [partial EXCEPT ![out].data = partial[out].data \o data]
  BY DEF Put
<1>3. data \in Seq(Cells)
  <2>1. <<>> \in Seq(Cells) /\ <<c>> \in Seq(Cells)
    OBVIOUS
  <2>2. data = <<>> \/ data = <<c>>
    OBVIOUS
  <2> QED BY <2>1, <2>2
<1> QED BY <1>1, <1>2 DEF Files, Copied

\* What an entry asks for stays the same while it is worked on.
LEMMA SameEntry ==
    ASSUME UNCHANGED entry
    PROVE  Own' = Own /\ First' = First /\ \A d : IsOwn(d)' <=> IsOwn(d)
<1>1. Part' = Part
  BY DEF Part
<1>2. Own' = Own /\ First' = First
  BY <1>1 DEF Own, First
<1>3. \A d : HoldsOwn(d)' <=> HoldsOwn(d)
  BY <1>2 DEF HoldsOwn, Is
<1>4. \A d : BeginsOwn(d)' <=> BeginsOwn(d)
  BY <1>2 DEF BeginsOwn, Is
<1> QED BY <1>2, <1>3, <1>4 DEF IsOwn

LEMMA MirrorSource == ASSUME IInv, MirrorInv, OpenSource PROVE MirrorInv'
<1> USE DEF files, list, rip, info, user
<1>1. /\ pc = "source" /\ UNCHANGED <<job, partial, out, entry, todo>>
      /\ pc' \in {"died", "listing", "ended", "info", "read"}
  BY DEF OpenSource, StartRip
<1>2. ASSUME Numbered, pc' \in {"info", "read"}
      PROVE  /\ IsOwn(Copied) /\ src' = Own
             /\ pc' = "read" => entry.kind = "vob" /\ start' = First
             /\ pc' = "info" => entry.kind = "info" /\ seek' = 0 /\ buf' = Zeros
  <2>1. TitleNr = entry.nr /\ entry.nr # 0 /\ entry.digit \in 0 .. 9 /\ entry.nr \in Nat
    <3>1. entry.nr \in Nat
      BY DEF IInv, ListOK, Entries
    <3> QED BY <1>2, <3>1 DEF TitleNr, Numbered, MirrorInv
  <2>2. IsOwn(Copied)
    <3>1. Copied = <<>>
      BY <1>1, <1>2 DEF IInv, RipOK, Numbered, Copied
    <3> QED BY <3>1, EmptyIsOwn
  <2>3. CASE pc' = "info"
    <3>1. /\ entry.kind = "info" /\ src' = <<"bup", TitleNr>> /\ seek' = 0 /\ buf' = Zeros
      BY <1>1, <2>3 DEF OpenSource, StartRip
    <3> QED BY <2>1, <2>2, <2>3, <3>1 DEF Own
  <2>4. CASE pc' = "read"
    <3>1. entry.kind = "vob" /\ src' = VobSource /\ start' = VobStart
      BY <1>1, <2>4 DEF OpenSource, StartRip
    <3>2. VobSource = Own
      BY <2>1, <3>1 DEF VobSource, Own, Part
    <3>3. VobStart = First
      <4>1. CASE entry.digit \in 2 .. 9
        BY <2>1, <3>1, <4>1 DEF VobStart, First, Part
      <4>2. CASE entry.digit = 1
        BY <2>1, <3>1, <4>2, FirstPart DEF VobStart, First, Part
      <4>3. CASE entry.digit = 0
        BY <2>1, <3>1, <4>3 DEF VobStart, First, Part
      <4> QED BY <2>1, <4>1, <4>2, <4>3
    <3> QED BY <2>2, <2>4, <3>1, <3>2, <3>3
  <2> QED BY <1>2, <2>3, <2>4
<1>3. Numbered' = Numbered /\ Copied' = Copied
  BY <1>1 DEF Numbered, Copied
<1> QED BY <1>1, <1>2, <1>3, SameEntry DEF MirrorInv

\* The first sector copied of a VOB is its first, or one behind sectors that cannot be
\* read.
LEMMA MirrorSector ==
    ASSUME IInv, RipInv, MirrorInv, CopySector
    PROVE  MirrorInv'
<1> USE DEF files, list, rip, info, user
<1>1. /\ pc = "read" /\ UNCHANGED <<job, out, entry, todo, start, src>>
      /\ pc' \in {"read", "sync"} /\ Works(sector)
      /\ Put(<<Item(sector)>>) \/ Put(<<>>) \/ Put(<<Torn>>)
  BY DEF CopySector, NextSector
<1>2. /\ out \in Names /\ src \in DOMAIN Sizes /\ sector \in Nat /\ Sizes[src] \in Nat
      /\ start \in Nat
  BY <1>1, VobcopyAssumption DEF IInv, ListOK, RipOK, Naming
<1>3. sector < Sizes[src]
  BY <1>1 DEF Works
<1>4. ASSUME Numbered PROVE IsOwn(Copied')
  <2>1. ~job.stdout /\ src = Own /\ start = First /\ IsOwn(Copied) /\ entry.kind = "vob"
    BY <1>1, <1>4 DEF Numbered, MirrorInv
  <2>2. /\ Item(sector) = Is(sector) /\ Item(sector) \in Cells /\ Torn \in Cells
        /\ sector \in 0 .. Sizes[Own]
    BY <1>2, <1>3, <2>1 DEF Item, Is, Cells
  <2>3. Copied \in Seq(Cells)
    BY <1>2 DEF IInv, FilesOK, Files, Copied
  <2>4. CASE Put(<<>>)
    <3>1. Copied' = Copied \o <<>>
      BY <1>1, <1>2, <2>1, <2>2, <2>4, PutAdds
    <3> QED BY <2>1, <2>3, <3>1
  <2>5. CASE Put(<<Torn>>)
    <3>1. Copied' = Copied \o <<Torn>>
      BY <1>1, <1>2, <2>1, <2>2, <2>5, PutAdds
    <3>2. BeginsOwn(<<Torn>>)
      BY DEF BeginsOwn
    <3> QED BY <2>1, <2>2, <2>3, <3>1, <3>2, OneMoreIsOwn
  <2>6. CASE Put(<<Item(sector)>>)
    <3>1. Copied' = Copied \o <<Is(sector)>>
      BY <1>1, <1>2, <2>1, <2>2, <2>6, PutAdds
    <3>2. ASSUME Len(Copied) = 0 PROVE BeginsOwn(<<Is(sector)>>)
      <4>1. CopiedUpTo(Copied, sector) /\ start <= sector
        BY <1>1, <2>1 DEF RipInv, Accounted, Tried, Copied
      <4>2. \A t \in start .. sector - 1 : Fails(t)
        BY <3>2, <4>1 DEF CopiedUpTo
      <4>3. \A t \in start .. sector - 1 : Is(t) \in Hard
        <5> TAKE t \in start .. sector - 1
        <5>1. t < Sizes[src] /\ Item(t) = Is(t)
          BY <1>2, <1>3, <2>1 DEF Item, Is
        <5> QED BY <1>2, <4>2, <5>1 DEF Fails
      <4>4. sector \in First .. Sizes[Own] - 1
        BY <1>2, <1>3, <2>1, <4>1
      <4>5. \E s \in First .. Sizes[Own] - 1 :
               Is(sector) = Is(s) /\ \A t \in First .. s - 1 : Is(t) \in Hard
        BY <2>1, <4>3, <4>4
      <4> QED BY <4>5 DEF BeginsOwn
    <3> QED BY <2>1, <2>2, <2>3, <3>1, <3>2, OneMoreIsOwn
  <2> QED BY <1>1, <2>4, <2>5, <2>6
<1>5. Numbered' = Numbered
  BY <1>1 DEF Numbered
<1> QED BY <1>1, <1>4, <1>5, SameEntry DEF MirrorInv

\* The first sector written of an IFO is its BUP's first, or the buffer as it was.
LEMMA MirrorInfo ==
    ASSUME IInv, MirrorInv, CopyInfo
    PROVE  MirrorInv'
<1> USE DEF files, list, rip, info, user
<1>1. /\ pc = "info" /\ UNCHANGED <<job, out, entry, todo, start, src>>
      /\ \/ Works(seek) /\ buf' = Item(seek) /\ seek' = seek + 1
         \/ Fails(seek) /\ UNCHANGED <<buf, seek>>
      /\ \/ pc' = "info" /\ (Put(<<buf'>>) \/ Put(<<Torn>>))
         \/ pc' = "ended"
  BY DEF CopyInfo
<1>2. /\ out \in Names /\ src \in DOMAIN Sizes /\ seek \in Nat /\ Sizes[src] \in Nat
      /\ buf \in Cells
  BY <1>1, VobcopyAssumption DEF IInv, ListOK, RipOK, Naming
<1>3. ASSUME Numbered, pc' = "info"
      PROVE  /\ IsOwn(Copied') /\ Len(Copied') # 0
             /\ buf' \in {Zeros} \cup {Is(s) : s \in 0 .. Sizes[Own]}
  <2>1. /\ ~job.stdout /\ src = Own /\ IsOwn(Copied) /\ entry.kind = "info"
        /\ buf \in {Zeros} \cup {Is(s) : s \in 0 .. Sizes[Own]}
        /\ Len(Copied) = 0 => seek = 0 /\ buf = Zeros
    BY <1>1, <1>3 DEF Numbered, MirrorInv
  <2>2. Copied \in Seq(Cells)
    BY <1>2 DEF IInv, FilesOK, Files, Copied
  <2>3. \A s : Item(s) = Is(s)
    BY <2>1 DEF Item, Is
  <2>4. buf' \in {Zeros} \cup {Is(s) : s \in 0 .. Sizes[Own]}
    <3>1. Works(seek) => seek \in 0 .. Sizes[Own]
      BY <1>2, <2>1 DEF Works
    <3> QED BY <1>1, <2>1, <2>3, <3>1
  <2>5. buf' \in Cells /\ Torn \in Cells
    <3>1. Item(seek) \in Cells
      BY <1>2 DEF Item, Cells
    <3> QED BY <1>1, <1>2, <3>1 DEF Cells
  <2>6. ASSUME Len(Copied) = 0 PROVE BeginsOwn(<<buf'>>)
    <3>1. seek = 0 /\ buf = Zeros /\ ~Part /\ First = 0 /\ Sizes[Own] > 0
      BY <1>2, <2>1, <2>6, FormatAssumption DEF Part, First, Own
    <3>2. CASE Works(seek) /\ buf' = Item(seek)
      <4>1. 0 \in First .. Sizes[Own] - 1 /\ First .. 0 - 1 = {}
        BY <1>2, <2>1, <3>1
      <4>2. \E s \in First .. Sizes[Own] - 1 :
               buf' = Is(s) /\ \A t \in First .. s - 1 : Is(t) \in Hard
        BY <2>3, <3>1, <3>2, <4>1
      <4> QED BY <4>2 DEF BeginsOwn
    <3>3. CASE Fails(seek) /\ UNCHANGED buf
      <4>1. Is(0) \in Hard
        BY <1>2, <2>1, <2>3, <3>1, <3>3 DEF Fails
      <4> QED BY <2>1, <3>1, <3>3, <4>1 DEF BeginsOwn
    <3> QED BY <1>1, <3>2, <3>3
  <2>7. CASE Put(<<buf'>>)
    <3>1. Copied' = Copied \o <<buf'>>
      BY <1>1, <1>2, <2>1, <2>5, <2>7, PutAdds
    <3>2. IsOwn(Copied \o <<buf'>>)
      BY <2>1, <2>2, <2>4, <2>5, <2>6, OneMoreIsOwn
    <3>3. Len(Copied \o <<buf'>>) # 0
      BY <2>2, <2>5
    <3> QED BY <2>4, <3>1, <3>2, <3>3
  <2>8. CASE Put(<<Torn>>)
    <3>1. Copied' = Copied \o <<Torn>>
      BY <1>1, <1>2, <2>1, <2>5, <2>8, PutAdds
    <3>2. BeginsOwn(<<Torn>>)
      BY DEF BeginsOwn
    <3>3. IsOwn(Copied \o <<Torn>>)
      BY <2>1, <2>2, <2>5, <3>2, OneMoreIsOwn
    <3>4. Len(Copied \o <<Torn>>) # 0
      BY <2>2, <2>5
    <3> QED BY <2>4, <3>1, <3>3, <3>4
  <2> QED BY <1>1, <1>3, <2>7, <2>8
<1>4. Numbered' = Numbered /\ Own' = Own
  BY <1>1, SameEntry DEF Numbered
<1>5. \A s : Is(s)' = Is(s)
  BY <1>4 DEF Is
<1>6. ASSUME Numbered, pc' = "info"
      PROVE  (buf \in {Zeros} \cup {Is(s) : s \in 0 .. Sizes[Own]})'
  BY <1>3, <1>4, <1>5, <1>6
<1> QED BY <1>1, <1>3, <1>4, <1>6, SameEntry DEF MirrorInv

\* Steps that leave the file that is written as it is.
LEMMA MirrorRest ==
    ASSUME IInv, MirrorInv, UNCHANGED <<job, out, entry, todo>>, Copied' = Copied,
           pc' = "rename" => ~job.stdout,
           \/ pc' \notin {"read", "info", "sync", "rename"}
           \/ pc' = "read" /\ pc = "read" /\ UNCHANGED <<src, start>>
           \/ pc' = "info" /\ pc = "info" /\ UNCHANGED <<src, buf, seek>>
           \/ pc' \in {"sync", "rename"} /\ pc \in {"read", "info", "sync", "rename"}
    PROVE  MirrorInv'
<1>1. Numbered' = Numbered /\ Own' = Own /\ First' = First /\ \A d : IsOwn(d)' <=> IsOwn(d)
  BY SameEntry DEF Numbered
<1>2. \A s : Is(s)' = Is(s)
  BY <1>1 DEF Is
<1> QED BY <1>1, <1>2 DEF MirrorInv

LEMMA MirrorSteps == ASSUME IInv, RipInv, MirrorInv, [Next]_vars PROVE MirrorInv'
<1> USE DEF files, list, rip, info, user
<1>1. CASE OpenSource
  BY <1>1, MirrorSource
<1>2. CASE CopySector
  BY <1>2, MirrorSector
<1>3. CASE CopyInfo
  BY <1>3, MirrorInfo
<1>4. CASE OpenListing
  <2>1. /\ UNCHANGED <<job, entry>> /\ pc' \in {"listing", "died", "ended"}
        /\ todo' = todo \/ todo' = SubSeq(job.listing, 3, Len(job.listing))
    BY <1>4 DEF OpenListing
  <2>2. /\ job.listing \in Seq(Entries(Names))
        /\ \A i \in 1 .. Len(job.listing) : job.listing[i].nr > 0 => job.listing[i].digit \in 0 .. 9
    BY VobcopyAssumption, FormatAssumption DEF IInv, ListOK
  <2>3. ASSUME todo' = SubSeq(job.listing, 3, Len(job.listing)), NEW i \in 1 .. Len(todo')
        PROVE  todo'[i].nr > 0 => todo'[i].digit \in 0 .. 9
    <3>1. i + 2 \in 1 .. Len(job.listing) /\ todo'[i] = job.listing[i + 2]
      BY <2>2, <2>3
    <3> QED BY <2>2, <3>1
  <2> QED BY <2>1, <2>3 DEF MirrorInv
<1>5. CASE NextEntry
  <2>1. UNCHANGED job /\ pc' \in {"ended", "source", "partial"}
        /\ \/ UNCHANGED <<entry, todo>>
           \/ todo # <<>> /\ entry' = Head(todo) /\ todo' = Tail(todo)
    BY <1>5 DEF NextEntry
  <2>2. todo \in Seq(Entries(Names))
    BY DEF IInv, ListOK
  <2>3. CASE todo # <<>> /\ entry' = Head(todo) /\ todo' = Tail(todo)
    <3>1. /\ entry' = todo[1] /\ 1 \in 1 .. Len(todo)
          /\ \A i \in 1 .. Len(todo') : i + 1 \in 1 .. Len(todo) /\ todo'[i] = todo[i + 1]
      BY <2>2, <2>3
    <3>2. \A i \in 1 .. Len(todo) : todo[i].nr > 0 => todo[i].digit \in 0 .. 9
      BY DEF MirrorInv
    <3>3. entry'.nr > 0 => entry'.digit \in 0 .. 9
      BY <3>1, <3>2
    <3>4. \A i \in 1 .. Len(todo') : todo'[i].nr > 0 => todo'[i].digit \in 0 .. 9
      BY <3>1, <3>2
    <3> QED BY <2>1, <3>3, <3>4 DEF MirrorInv
  <2> QED BY <2>1, <2>3 DEF MirrorInv
<1>6. CASE Restart
  BY <1>6 DEF Restart, MirrorInv, NoEntry
<1>7. CASE Sync
  <2>1. /\ pc = "sync" /\ UNCHANGED <<job, out, entry, todo>>
        /\ \/ UNCHANGED partial
           \/ partial' = [partial EXCEPT ![out].synced = Len(partial[out].data)]
        /\ pc' \in {"round", "listing", "rename", "died", "ended"}
        /\ pc' = "rename" => ~job.stdout
    BY <1>7 DEF Sync, NextFile, Failure
  <2>2. out \in Names /\ partial[out] \in Files /\ partial \in [Names -> Files]
    BY <2>1 DEF IInv, ListOK, FilesOK, Naming
  <2>3. Copied' = Copied
    BY <2>1, <2>2 DEF Copied, Files
  <2> QED BY <2>1, <2>3, MirrorRest
<1>8. CASE Retry \/ SkipSector \/ EndRip \/ EndInfo
  BY <1>8, MirrorRest DEF Retry, SkipSector, EndRip, EndInfo, Copied
<1>9. CASE UNCHANGED vars
  <2>1. Copied' = Copied
    BY <1>9 DEF vars, Copied
  <2>2. UNCHANGED <<job, out, entry, todo, pc, src, start, buf, seek>>
    BY <1>9 DEF vars
  <2> QED BY <2>1, <2>2, MirrorRest DEF MirrorInv
<1>10. ASSUME UNCHANGED <<job, entry, todo>>, pc' \notin {"info", "sync", "rename"},
              pc' = "read" => job.mode = "title"
       PROVE  MirrorInv'
  BY <1>10 DEF MirrorInv, Numbered
<1>11. CASE Setup \/ Space \/ OpenTitle
  BY <1>10, <1>11 DEF Setup, Space, OpenTitle
<1>a. CASE Round
  <2>1. pc = "round" /\ UNCHANGED <<job, entry, todo>> /\ pc' \in {"ended", "read", "path"}
    BY <1>a DEF Round, StartRip
  <2>2. job.mode = "title"
    BY <2>1 DEF IInv, ListOK
  <2> QED BY <1>10, <2>1, <2>2
<1>12. CASE OutputPath \/ AskPartial \/ AskFinal
  BY <1>10, <1>12 DEF OutputPath, AskPartial, AskFinal, HaveAccess
<1>13. CASE Create
  BY <1>10, <1>13 DEF Create, StartRip
<1>14. CASE Move \/ Interrupt
  BY <1>10, <1>14 DEF Move, Interrupt, NextFile
<1> QED
  BY <1>1, <1>2, <1>3, <1>4, <1>5, <1>6, <1>7, <1>8, <1>9, <1>11, <1>a, <1>12, <1>13, <1>14
  DEF Next, Step, Copy, Title, Mirror, Terminated

\* Every file of a title set that mirror() is about to name holds sectors of its own
\* VOBs, or of its BUP, from its own first sector that can be read on, whatever the order
\* of the directory and whatever cannot be read.
THEOREM MirrorsAreOwn == Spec => []MirrorOwn
<1>1. Init => MirrorInv
  BY DEF Init, MirrorInv, NoEntry
<1>2. Init => RipInv
  BY DEF Init, RipInv, Accounted, Tried
<1>3. IInv /\ MirrorInv => MirrorOwn
  <2> SUFFICES ASSUME MirrorInv, pc = "rename", job.mode = "mirror", entry.nr > 0,
                      ~job.stdout, Len(Copied) > 0
               PROVE  MirrorOwn
    BY DEF MirrorOwn, Copied, MirrorInv, IInv
  <2>1. IsOwn(Copied)
    BY DEF MirrorInv, Numbered
  <2> QED BY <2>1 DEF MirrorOwn, Copied, IsOwn, HoldsOwn, BeginsOwn, Own, Part, First, Is
<1> QED BY <1>1, <1>2, <1>3, InitInv, StepInv, RipSteps, MirrorSteps, PTL DEF Spec
===============================================================================
