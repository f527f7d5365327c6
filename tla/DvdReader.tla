------------------------------- MODULE DvdReader -------------------------------
(***************************************************************************)
(* libdvdread: the reader of a disc image (dvd_reader.c) over the lookups  *)
(* of DvdUdf: files opened and closed, block reads with the key of their   *)
(* title set, byte reads through the copy of a small file, sizes, and the  *)
(* disc id.  A program makes its calls one after the other, with several   *)
(* files open at a time.  A call is a sequence of lookups; `call' says     *)
(* which one it waits for.                                                 *)
(*                                                                         *)
(* The device (dvd_input.c) decrypts with the key it was last given by     *)
(* dvdinput_title(): `key' is the place that call named.                   *)
(***************************************************************************)
EXTENDS DvdUdf

CONSTANTS Blocks,     \* the length of what lies at a place, in blocks
          Titles,     \* bound: 100 in initAllCSSKeys()
          Parts,      \* bound: 9, the last part of a title
          CacheMax,   \* 64: shorter IFOs are copied
          Units,      \* bytes of a block (2048)
          MaxOffset,  \* bound: the furthest byte of a file that is read or sought
          Slots,      \* bound: files open at a time
          NoSlot

ASSUME ReaderAssumption ==
    /\ Titles \in Nat \ {0} /\ Parts \in Nat \ {0}
    /\ \A name \in Names : Blocks[name] \in Nat

VARIABLES css_state,   \* 1: the keys are still to be retrieved
          css_title,   \* the title set whose key was selected last
          key,
          files,       \* the open files, by slot
          call,        \* the call under way
          last,        \* what the last call returned
          wary         \* no key selection failed, no file was opened at a wrong place

readerVars == <<css_state, css_title, key, files, call, last, wary>>
vars == <<udfVars, readerVars>>

Vob(title, part) == <<"VOB", title, part>>
Ifo(title)       == <<"IFO", title, 0>>

Closed   == [open |-> FALSE]
NoCall  == [op |-> "none", next |-> "none", slot |-> NoSlot, css |-> 0,
            start |-> Nowhere, size |-> 0, ids |-> <<>>, fails |-> 0]
NoResult == [op |-> "none"]

Init ==
    /\ UdfInit
    /\ css_state \in {0, 1} /\ css_title = 0 /\ key = Nowhere
    /\ files = [s \in Slots |-> Closed]
    /\ call = NoCall /\ last = NoResult /\ wary = TRUE

\* DVDOpenFile(), DVDFileStat(): the name of the file, and its first lookup.
Call(op, slot, name, css) ==
    /\ call.op = "none"
    /\ call' = [NoCall EXCEPT !.op = op, !.slot = slot, !.css = css,
                  !.next = IF op = "id" THEN "vmg"
                           ELSE IF name[1] = "IFO" THEN "ifo" ELSE "first"]
    /\ last' = NoResult
    /\ StartFind(name)
    /\ UNCHANGED <<css_state, css_title, key, files, wary>>

FreeSlots == {s \in Slots : ~files[s].open}
\* Title sets have menus (part 0) and title VOBs (from part 1), the disc menus only.
Domains == {d \in (0 .. Titles - 1) \X (0 .. 1) : d[1] = 0 => d[2] = 0}
CssTitle(t, p) == 2 * t + 1 - p           \* title << 1 | menu

OpenVob == \E s \in FreeSlots, d \in Domains :
             Call("open", s, Vob(d[1], d[2]), CssTitle(d[1], d[2]))
OpenIfo == \E s \in FreeSlots, t \in 0 .. Titles - 1 : Call("open", s, Ifo(t), 0)
FileStat == \/ \E d \in Domains : Call("stat", NoSlot, Vob(d[1], d[2]), CssTitle(d[1], d[2]))
            \/ \E t \in 0 .. Titles - 1 : Call("stat", NoSlot, Ifo(t), 0)

\* DVDDiscID(): ifoOpen() comes first, then the IFOs in order.
DiscID == Call("id", NoSlot, Ifo(0), 0)

\* The call waits for this lookup, which has ended.
Found(step) == find.at = "done" /\ call.next = step
\* The next lookup of the call.
Seek(name) == find' = [Idle EXCEPT !.at = "volume", !.name = name]
Same == UNCHANGED <<level, cache, volume>>
Device == <<css_state, css_title, key>>

\* The VOB that the call is about, by its title << 1 | menu.
Title == IF call.css % 2 = 1 THEN Vob(call.css \div 2, 0) ELSE Vob(call.css \div 2, 1)

Length(place) == IF place = Lost THEN 0 ELSE Blocks[place]

\* The call returns; k reads failed at its end.
Return(result, k) ==
    /\ last' = [op |-> call.op, clean |-> call.fails + find.fails + k = 0,
                result |-> result]
    /\ call' = NoCall
    /\ find' = Idle
    /\ Fault(k)

\* The file of the call is opened, at a place that should be that of `name'.
OpenAt(start, name, size, copy) ==
    /\ files' = [files EXCEPT ![call.slot] =
                   [open |-> TRUE, name |-> name, css |-> call.css, start |-> start,
                    filesize |-> size, copy |-> copy, pos |-> 0]]
    /\ wary' = (wary /\ start = name)
Success(start, name, size) ==
    [ok |-> TRUE, start |-> start, name |-> name, size |-> size]

NotFound ==
    /\ Found("first") \/ Found("ifo")
    /\ find.file = Nowhere
    /\ Return([ok |-> FALSE], 0)
    /\ Same /\ UNCHANGED <<Device, files, wary>>

\* DVDOpenFileUDF(): a small file is copied, unless not all of it can be read.
IfoFound ==
    /\ Found("ifo") /\ find.file # Nowhere
    /\ LET size == Length(find.file) IN
       \E k \in 0 .. 1 :
         /\ Return(Success(find.file, find.name, size), k)
         /\ IF call.op = "stat" THEN k = 0 /\ UNCHANGED <<files, wary>>
            ELSE /\ size >= CacheMax => k = 0
                 /\ OpenAt(find.file, find.name, size,
                           IF size < CacheMax /\ k = 0 THEN size ELSE -1)
    /\ Same /\ UNCHANGED Device

\* DVDOpenVOBUDF(), DVDFileStatVOBUDF(): the parts of a title come next.
VobFound ==
    /\ Found("first") /\ find.file # Nowhere
    /\ LET more == Title[3] = 1 /\ Parts > 1 IN
       /\ call' = [call EXCEPT !.start = find.file, !.size = Length(find.file),
                               !.fails = @ + find.fails,
                               !.next = IF more THEN "part" ELSE "finish"]
       /\ IF more THEN Seek(Vob(Title[2], 2)) ELSE find' = Idle
    /\ Same /\ UNCHANGED <<faults, Device, files, last, wary>>

\* Mutant: the search goes on behind a part that is missing.
AllParts == TRUE
\* The first part that is not found ends the title.
MoreParts == find.file # Nowhere

PartFound ==
    /\ Found("part")
    /\ LET part == find.name[3]
           more == MoreParts /\ part < Parts
           size == IF find.file = Nowhere THEN 0 ELSE Length(find.file)
       IN  /\ call' = [call EXCEPT !.fails = @ + find.fails, !.size = @ + size,
                                   !.next = IF more THEN "part" ELSE "finish"]
           /\ IF more THEN Seek(Vob(Title[2], part + 1)) ELSE find' = Idle
    /\ Same /\ UNCHANGED <<faults, Device, files, last, wary>>

FinishStat ==
    /\ call.next = "finish" /\ call.op = "stat"
    /\ Return(Success(call.start, Title, call.size), 0)
    /\ Same /\ UNCHANGED <<Device, files, wary>>

\* The keys of all menus and titles are retrieved when the first VOB is opened.
BeginKeys ==
    /\ call.next = "finish" /\ call.op = "open" /\ css_state = 1
    /\ call' = [call EXCEPT !.next = "key"]
    /\ Seek(Vob(0, 0))
    /\ Same /\ UNCHANGED <<faults, Device, files, last, wary>>

FinishOpen ==
    /\ \/ call.next = "finish" /\ call.op = "open" /\ css_state # 1
       \/ call.next = "keyed"
    /\ OpenAt(call.start, Title, call.size, -1)
    /\ Return(Success(call.start, Title, call.size), 0)
    /\ Same /\ UNCHANGED Device

\* dvdinput_title(): the key of the title set that begins at `start' is selected,
\* or it cannot be retrieved and the old one stays; nobody looks at the result.
Select(start) ==
    \/ key' = start /\ Fault(0) /\ UNCHANGED wary
    \/ key' = key /\ Fault(1) /\ wary' = FALSE

\* Mutant: the keys are retrieved again for each VOB that is opened.
KeysPending == 1
KeysDone == 2

\* initAllCSSKeys(): menu and first VOB of each title, until a title is missing.
KeyFound ==
    /\ Found("key")
    /\ LET t     == find.name[2]
           part  == find.name[3]
           there == find.file # Nowhere /\ Length(find.file) # 0
           over  == part = 1 /\ (~there \/ t = Titles - 1)
       IN  /\ IF there THEN Select(find.file) ELSE UNCHANGED <<key, faults, wary>>
           /\ call' = [call EXCEPT !.fails = @ + find.fails,
                                   !.next = IF over THEN "keyed" ELSE "key"]
           /\ IF over THEN find' = Idle
              ELSE Seek(IF t > 0 /\ part = 0 THEN Vob(t, 1) ELSE Vob(t + 1, 0))
           /\ css_state' = IF over THEN KeysDone ELSE css_state
    /\ Same /\ UNCHANGED <<css_title, files, last>>

\* DVDDiscID(): whether ifoOpen() succeeds, with the IFO or the BUP, is left open.
VmgOpened ==
    /\ Found("vmg")
    /\ \/ Return([ok |-> FALSE, ids |-> <<>>], 0)
       \/ /\ call' = [call EXCEPT !.next = "id", !.fails = find.fails]
          /\ Seek(Ifo(0))
          /\ UNCHANGED <<faults, last>>
    /\ Same /\ UNCHANGED <<Device, files, wary>>

\* The disc's own IFO and those of its title sets.
TitleSets == Titles

\* The IFOs are read whole, one after the other; one that is not found is passed over.
NextId(ids) ==
    IF find.name[2] < TitleSets - 1
    THEN /\ call' = [call EXCEPT !.ids = ids, !.fails = @ + find.fails]
         /\ Seek(Ifo(find.name[2] + 1))
         /\ UNCHANGED <<faults, last>>
    ELSE Return([ok |-> ids # <<>>, ids |-> ids], 0)

IdFound ==
    /\ Found("id")
    /\ IF find.file = Nowhere THEN NextId(call.ids)
       ELSE \/ NextId(Append(call.ids, find.file))
            \/ Return([ok |-> FALSE, ids |-> <<>>], 1)
    /\ Same /\ UNCHANGED <<Device, files, wary>>

OpenFiles == {s \in Slots : files[s].open}
VobFiles  == {s \in OpenFiles : files[s].name[1] = "VOB"}
IfoFiles  == OpenFiles \ VobFiles

\* DVDReadBlocks(): the key is selected when another title set was read last.
KeyStale(f) == css_title # f.css

ReadBlocks(s) ==
    LET f == files[s] IN
    /\ call.op = "none" /\ s \in VobFiles
    /\ IF KeyStale(f) THEN css_title' = f.css /\ Select(f.start)
       ELSE UNCHANGED <<css_title, key, faults, wary>>
    /\ last' = [op |-> "read", key |-> key', name |-> f.name]
    /\ Same /\ UNCHANGED <<find, css_state, files, call>>

Move(s, f) == /\ files' = [files EXCEPT ![s] = f]
              /\ last' = NoResult
              /\ Same /\ UNCHANGED <<find, faults, Device, call, wary>>

FileSeek(s, offset) ==
    /\ call.op = "none" /\ s \in IfoFiles
    /\ offset <= files[s].filesize * Units
    /\ Move(s, [files[s] EXCEPT !.pos = offset])

\* Mutant: the copy is kept.
GrownOnly(f, size) == IF f.filesize < size THEN [f EXCEPT !.filesize = size] ELSE f
\* DVDFileSeekForce(): the file grows to what the caller knows of its size, and the
\* copy, which is too short now, is dropped.
Grown(f, size) == IF f.filesize < size
                  THEN [f EXCEPT !.filesize = size, !.copy = -1] ELSE f

Sectors(bytes) == (bytes + Units - 1) \div Units
Forced(f, offset, size) ==
    LET g == Grown(f, IF size < 0 THEN Sectors(offset) ELSE size)
    IN  IF offset > g.filesize * Units THEN g ELSE [g EXCEPT !.pos = offset]

FileSeekForce(s, offset, size) ==
    /\ call.op = "none" /\ s \in IfoFiles /\ offset > 0
    /\ Move(s, Forced(files[s], offset, size))

\* DVDReadBytes(): from the copy, if it reaches that far, or from the disc, where
\* what lies behind the file is read as well.
ReadBytes(s, bytes) ==
    LET f == files[s]
        end == Sectors((f.pos % Units) + bytes) + f.pos \div Units
    IN  /\ call.op = "none" /\ s \in IfoFiles
        /\ f.pos + bytes <= MaxOffset
        /\ f.copy >= 0 => end <= f.filesize
        /\ Move(s, IF f.pos + bytes > 0 THEN Forced(f, f.pos + bytes, -1) ELSE f)

CloseFile(s) ==
    /\ call.op = "none" /\ s \in OpenFiles
    /\ Move(s, Closed)

\* DVDClose() of a reader without open files, and DVDOpen() of another one.
Reopen ==
    /\ call.op = "none" /\ OpenFiles = {}
    /\ level' = 1 /\ avdp' = "none" /\ partition' = "none" /\ rooticb' = "none"
    /\ pvd' = "none" /\ dirs' = {} /\ maps' = [p \in DOMAIN maps |-> Nowhere]
    /\ volume' = NoVolume
    /\ css_state' \in {0, 1} /\ css_title' = 0 /\ key' = Nowhere /\ wary' = TRUE
    /\ last' = NoResult /\ faults' = 0
    /\ UNCHANGED <<find, files, call>>

Lookup == FindStep /\ UNCHANGED readerVars
\* Bound: programs set the level before they open a file.  The identifiers of the
\* volume are asked for between two calls.
Volume == /\ call.op = "none"
          /\ VolumeInfo \/ (OpenFiles = {} /\ avdp = "none" /\ CacheLevel)
          /\ last' = NoResult
          /\ UNCHANGED <<Device, files, call, wary>>

Next ==
    \/ Lookup \/ Volume
    \/ OpenVob \/ OpenIfo \/ FileStat \/ DiscID
    \/ NotFound \/ IfoFound \/ VobFound \/ PartFound \/ FinishStat \/ FinishOpen
    \/ BeginKeys \/ KeyFound \/ VmgOpened \/ IdFound
    \/ \E s \in Slots :
         \/ ReadBlocks(s) \/ CloseFile(s)
         \/ \E n \in 0 .. MaxOffset : FileSeek(s, n) \/ ReadBytes(s, n)
         \/ \E n \in 0 .. MaxOffset : FileSeekForce(s, n, -1)
    \/ Reopen

Spec == Init /\ [][Next]_vars

-----------------------------------------------------------------------------
\* What the parts of a title add up to from each of them on: those that are on the
\* disc one after the other.
PartSizes(t) ==
    LET size[p \in 1 .. Parts + 1] ==
            IF p > Parts \/ Vob(t, p) \notin Present THEN 0
            ELSE Blocks[Vob(t, p)] + size[p + 1]
    IN  size
SizeOf(name) == IF name[1] = "IFO" \/ name[3] = 0 THEN Blocks[name]
                ELSE PartSizes(name[2])[1]

\* A file that is opened, or asked for its size, by a call in which no read fails is
\* the one that was asked for, with all of its parts that follow one another
\* (DVDOpenVOBUDF() and DVDFileStatVOBUDF() add up the parts found).
WholeFile ==
    last.op \in {"open", "stat"} /\ last.clean /\ last.result.ok =>
      LET got == last.result
      IN  /\ got.start = got.name /\ got.name \in Present
          /\ got.size = SizeOf(got.name)

\* The IFOs of the disc and of its first title sets, as many as are there, in order.
AreIfos(ids, n) ==
    /\ Range(ids) = {Ifo(t) : t \in 0 .. n - 1} \cap Present
    /\ \A i, j \in DOMAIN ids : i < j => ids[i][2] < ids[j][2]

\* A disc has one id: a DVDDiscID() in which no read fails hashes the IFOs that are
\* there, in order.
OneId == last.op = "id" /\ last.clean /\ last.result.ok => AreIfos(last.result.ids, Titles)

\* A call in which no read fails gives the right answer, whatever failed before it.
RightAnswer == WholeFile /\ OneId

\* A VOB is read with the key of its own title set, whatever files are open and were
\* read in between, keys retrieved or IFOs opened, as long as no key selection
\* failed and every file was found at its own place (DVDReadBlocks() and css_title).
KeyIsOwn == last.op = "read" /\ wary => last.key = last.name

\* The copy of a file serves no block that it does not have: byte reads compare with
\* the size of the file only, which DVDFileSeekForce() changes.
CopyCovers == \A s \in IfoFiles : files[s].copy >= 0 => files[s].copy = files[s].filesize
=============================================================================
