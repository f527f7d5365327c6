-------------------------------- MODULE Vobcopy --------------------------------
(***************************************************************************)
(* vobcopy: copying one title to one file, or mirroring the VIDEO_TS       *)
(* directory of a disc (vobcopy.c: main; dvd.c: rip_vob_file; mirror.c;    *)
(* utils.c: have_access, open_partial, rename_partial, get_option).        *)
(*                                                                         *)
(* A file is written under its name with .partial appended, synchronised   *)
(* and renamed.  A sector of the disc is <<kind, nr, s>>: sector s of what *)
(* DVDOpenFile() opens for title set nr and a domain; Sizes says which of  *)
(* those exist and how long they are.  Reads of the sectors in Hard may    *)
(* fail; every other read inside a file succeeds.                          *)
(*                                                                         *)
(* A job is a command line with what the machine makes of it:              *)
(*   mode      "title", "mirror" (-m) or "both" (-m with -n, -m with -O)   *)
(*   pick      the title of -n, 0 without option, -1 for -M                *)
(*   x, force, stdout     -x, -f (which -o stdout implies), -o stdout      *)
(*   chapter, angle, start, end     -c, -a (from 0), -b, -e                *)
(*   mounted   get_device() or get_device_on_your_own() found the mount    *)
(*   free      free sectors of the target                                  *)
(*   listing   directory entries as readdir() gives them                   *)
(*   reach     the path mirror() makes up for an input file exists         *)
(***************************************************************************)
EXTENDS Integers, Sequences, SequencesExt

CONSTANTS Jobs,        \* command lines
          Titles,      \* TT_SRPT: set, chapters, angles and time of a title, and
                       \* the name that make_output_path() gives it
          Sizes,       \* sectors of the files of the disc, by <<kind, nr>>
          PartSizes,   \* sectors of the title VOBs, by title set and part
          Hard,        \* sectors that cannot be read always
          Names,       \* names of output files
          Retries,     \* the 10 of rip_vob_file()'s callers
          MaxRuns      \* bound: how often vobcopy is started

\* A directory entry: the number in its name (0 without one), what it is by its
\* suffix, and the digit or letter in the place of the part number.
Entries(names) == [name : names, nr : Nat, kind : {"info", "vob", "other"},
                   digit : Nat, size : Nat]

\* Where the VOB of a part begins in the title VOBs of its set.
Sum(s) == FoldLeft(+, 0, s)
PartStart(nr, part) == Sum(SubSeq(PartSizes[nr], 1, part - 1))

ASSUME VobcopyAssumption ==
    /\ Retries \in Nat \ {0} /\ MaxRuns \in Nat
    /\ \A f \in DOMAIN Sizes : Sizes[f] \in Nat
    /\ \A t \in DOMAIN Titles : Titles[t].name \in Names
    /\ \A j \in Jobs : /\ j.start \in Nat /\ j.end \in Nat
                       /\ j.listing \in Seq(Entries(Names))
    /\ \A nr \in DOMAIN PartSizes : \A p \in 2 .. 9 :
          p - 1 <= Len(PartSizes[nr]) => PartStart(nr, p) \in Nat

\* The disc has the names of the DVD format: in that of a title set's file the part is
\* a digit; and no BUP of a title set is empty.
ASSUME FormatAssumption ==
    /\ \A j \in Jobs : \A i \in 1 .. Len(j.listing) :
          j.listing[i].nr > 0 => j.listing[i].digit \in 0 .. 9
    /\ \A f \in DOMAIN Sizes : f[1] = "bup" => Sizes[f] > 0

VARIABLES job, runs,           \* the command line, and which it is
          pc,                  \* where main() is
          final, partial,      \* files by name, and those with .partial appended
          overwrite,           \* overwrite_all_flag: "ask" or "all"
          said,                \* what the user replied for which file
          out, entry, todo,    \* name being written; mirror(): entry, the rest
          titlenr, start,      \* mirror(): title_nr; the first sector
          src, sector, total, tries,   \* rip_vob_file()
          seek, buf            \* mirror(): position in the IFO, bufferin

files == <<final, partial>>
user  == <<overwrite, said>>
list  == <<entry, todo, titlenr>>
rip   == <<start, src, sector, total, tries>>
info  == <<seek, buf>>
vars  == <<job, runs, pc, files, user, out, list, rip, info>>

NoName     == "none"
NoEntry    == [name |-> NoName, nr |-> 0, kind |-> "other", digit |-> 0, size |-> 0]
NoFile     == [data |-> <<>>, synced |-> -1]
IsThere(f) == f.synced >= 0
Torn       == <<"torn", 0, 0>>     \* a sector of which only a part was written
Zeros      == <<"zeros", 0, 0>>
Stopped    == {"ended", "died", "killed"}

-------------------------------------------------------------------------------
(***************************************************************************)
(* The title                                                               *)
(***************************************************************************)
\* The title with the most of something, the first one if there are several.
TitleWithMost(measure) ==
    CHOOSE t \in DOMAIN Titles :
        \A u \in DOMAIN Titles : /\ Titles[u][measure] <= Titles[t][measure]
                                 /\ u < t => Titles[u][measure] < Titles[t][measure]

Longest == TitleWithMost("time")

\* -n, most chapters, or get_longest_title(), which is 0 if no title takes time.
ChosenTitle(pick) ==
    CASE pick = 0  -> TitleWithMost("chapters")
      [] pick = -1 -> IF Titles[Longest].time > 0 THEN Longest ELSE 0
      [] OTHER     -> pick

\* get_vob_size(): of the title set whose number is that of the title.
VobSize(title) == IF title \in DOMAIN PartSizes THEN Sum(PartSizes[title]) ELSE 0

Chosen == ChosenTitle(job.pick)
Valid  == /\ job.mode # "both"
          /\ Chosen \in DOMAIN Titles
          /\ job.chapter < Titles[Chosen].chapters
          /\ job.angle < Titles[Chosen].angles

Init == /\ job \in Jobs /\ runs = 1
        /\ final = [n \in Names |-> NoFile] /\ partial = [n \in Names |-> NoFile]
        /\ pc = "setup" /\ overwrite = (IF job.x THEN "all" ELSE "ask") /\ said = {}
        /\ out = NoName /\ entry = NoEntry /\ todo = <<>> /\ titlenr = 0
        /\ start = 0 /\ src = <<>> /\ sector = 0 /\ total = 0 /\ tries = 0
        /\ seek = 0 /\ buf = Zeros

\* The disc is found, opened and its VMG read, or not; the options are checked.
Setup == /\ pc = "setup"
         /\ \/ Valid /\ pc' = "space"
            \/ pc' = "ended"
         /\ UNCHANGED <<job, runs, files, user, out, list, rip, info>>

\* Both replies end the program, "[y] to continue" as well; get_option() asks
\* for ever at the end of the input, and a NUL is neither reply.
Space ==
    LET wanted == IF job.mounted /\ job.mode = "title"
                    THEN VobSize(Chosen) - (job.start + job.end) ELSE 0
    IN  /\ pc = "space"
        /\ IF job.free < wanted /\ ~job.force
             THEN pc' \in {"ended", "spins", "open"}
             ELSE pc' = "open"
        /\ UNCHANGED <<job, runs, files, user, out, list, rip, info>>

(***************************************************************************)
(* Names and .partial                                                      *)
(***************************************************************************)
\* have_access(): without access `no'; an existing file only with consent, which
\* is consent to all further ones.
HaveAccess(f, prompt, yes, no) ==
    \/ pc' \in {no, "died"} /\ UNCHANGED user
    \/ /\ ~IsThere(f) \/ overwrite = "all" \/ prompt = "silent"
       /\ pc' = yes /\ UNCHANGED user
    \/ /\ IsThere(f) /\ overwrite = "ask" /\ prompt = "prompt"
       /\ \/ \E reply \in {"o", "x"} : /\ overwrite' = "all"
                                       /\ said' = said \cup {<<out, reply>>}
                                       /\ pc' = yes
          \/ pc' \in {no, "died", "spins"} /\ UNCHANGED user

\* make_output_path()
OutputPath == /\ pc = "path"
              /\ HaveAccess(final[out], "prompt", "partial", "died")
              /\ UNCHANGED <<job, runs, files, out, list, rip, info>>

\* open_partial(): have_access() for both names, then open().
AskPartial == /\ pc = "partial"
              /\ HaveAccess(partial[out], "prompt", "create", "ended")
              /\ UNCHANGED <<job, runs, files, out, list, rip, info>>

StartRip(first, last) == /\ start' = first /\ sector' = first /\ total' = last
                         /\ tries' = 0 /\ pc' = "read"

\* rip_vob_file() takes end_sector for the number of the sector to stop at.
LastSector == IF job.end # 0 THEN job.end ELSE Sizes[src]

Create ==
    /\ pc = "create"
    /\ \/ /\ partial' = [partial EXCEPT ![out] = [data |-> <<>>, synced |-> 0]]
          /\ IF job.mode = "title"
               THEN StartRip(job.start, LastSector) /\ UNCHANGED src
               ELSE pc' = "source" /\ UNCHANGED rip
       \/ pc' = "died" /\ UNCHANGED <<partial, rip>>
    /\ UNCHANGED <<job, runs, final, user, out, list, info>>

Put(data) == IF job.stdout THEN UNCHANGED files
             ELSE /\ partial' = [partial EXCEPT ![out].data = @ \o data]
                  /\ UNCHANGED final

-------------------------------------------------------------------------------
(***************************************************************************)
(* rip_vob_file()                                                          *)
(***************************************************************************)
Item(s)  == <<src[1], src[2], s>>
Fails(s) == s >= Sizes[src] \/ Item(s) \in Hard
Works(s) == s < Sizes[src]

\* Mutant: the tries of the sector before are counted, too.
NextSectorTried == sector' = sector + 1 /\ UNCHANGED tries

NextSector == sector' = sector + 1 /\ tries' = 0

\* Mutant: the count of tries is never moved.
RetryUncounted == /\ pc = "read" /\ sector < total
                  /\ Fails(sector) /\ tries < Retries
                  /\ tries' = tries
                  /\ UNCHANGED <<job, runs, pc, files, user, out, list, info>>
                  /\ UNCHANGED <<start, src, sector, total>>

Retry == /\ pc = "read" /\ sector < total
         /\ Fails(sector) /\ tries < Retries
         /\ tries' = tries + 1
         /\ UNCHANGED <<job, runs, pc, files, user, out, list, info>>
         /\ UNCHANGED <<start, src, sector, total>>

\* The last allowed try has been made; it does not matter whether it succeeded.
SkipSector == /\ pc = "read" /\ sector < total /\ tries = Retries
              /\ NextSector
              /\ UNCHANGED <<job, runs, pc, files, user, out, list, info>>
              /\ UNCHANGED <<start, src, total>>

CopySector ==
    /\ pc = "read" /\ sector < total
    /\ Works(sector) /\ tries < Retries
    /\ \/ Put(<<Item(sector)>>) /\ NextSector /\ UNCHANGED pc
       \/ Put(<<>>) /\ pc' = "sync" /\ UNCHANGED <<sector, tries>>
       \/ Put(<<Torn>>) /\ pc' = "sync" /\ UNCHANGED <<sector, tries>>
    /\ UNCHANGED <<job, runs, user, out, list, info, start, src, total>>

EndRip == /\ pc = "read" /\ sector >= total
          /\ pc' = "sync"
          /\ UNCHANGED <<job, runs, files, user, out, list, rip, info>>

\* Where the program goes on after a file, and after a failure.
NextFile == IF job.mode = "title" THEN "round" ELSE "listing"
Failure  == IF job.mode = "title" THEN "died" ELSE "ended"

\* Mutant: the file is not synchronised.
NoSync == /\ pc = "sync"
          /\ \/ /\ pc' = IF job.stdout THEN NextFile ELSE "rename"
                /\ UNCHANGED partial
             \/ /\ pc' = Failure /\ ~job.stdout
                /\ UNCHANGED partial
          /\ UNCHANGED <<job, runs, final, user, out, list, rip, info>>

Sync == /\ pc = "sync"
        /\ \/ /\ job.stdout /\ pc' = NextFile /\ UNCHANGED partial
           \/ /\ ~job.stdout /\ pc' = "rename"
              /\ partial' = [partial EXCEPT ![out].synced = Len(partial[out].data)]
           \/ ~job.stdout /\ pc' = Failure /\ UNCHANGED partial
        /\ UNCHANGED <<job, runs, final, user, out, list, rip, info>>

\* Mutant: rename_partial() does not ask.
AskFinalNever == /\ pc = "rename"
                 /\ HaveAccess(final[out], "silent", "move", "died")
                 /\ UNCHANGED <<job, runs, files, out, list, rip, info>>

\* rename_partial(), after every copy, however it went.
AskFinal == /\ pc = "rename"
            /\ HaveAccess(final[out], "prompt", "move", "died")
            /\ UNCHANGED <<job, runs, files, out, list, rip, info>>

Move == /\ pc = "move"
        /\ \/ /\ final' = [final EXCEPT ![out] = partial[out]]
              /\ partial' = [partial EXCEPT ![out] = NoFile]
              /\ pc' = NextFile
           \/ pc' = "died" /\ UNCHANGED files
        /\ UNCHANGED <<job, runs, user, out, list, rip, info>>

-------------------------------------------------------------------------------
(***************************************************************************)
(* One title: the main loop, whose offset is never moved                   *)
(***************************************************************************)
OpenTitle ==
    LET vob == <<"title", Titles[Chosen].set>>
    IN  /\ pc = "open" /\ job.mode = "title"
        /\ \/ /\ vob \in DOMAIN Sizes
              /\ src' = vob /\ pc' = "round"
           \/ pc' = "ended" /\ UNCHANGED src
        /\ out' = Titles[Chosen].name
        /\ UNCHANGED <<job, runs, files, user, list, info, start, sector, total, tries>>

Round == /\ pc = "round"
         /\ \/ /\ Sizes[src] = job.start + job.end
               /\ pc' = "ended" /\ UNCHANGED rip
            \/ /\ Sizes[src] # job.start + job.end
               /\ IF job.stdout THEN StartRip(job.start, LastSector) /\ UNCHANGED src
                  ELSE pc' = "path" /\ UNCHANGED rip
         /\ UNCHANGED <<job, runs, files, user, out, list, info>>

-------------------------------------------------------------------------------
(***************************************************************************)
(* mirror()                                                                *)
(***************************************************************************)
\* The directories are made, the first two entries passed over.
OpenListing ==
    /\ pc = "open" /\ job.mode = "mirror"
    /\ \/ pc' = "listing" /\ todo' = SubSeq(job.listing, 3, Len(job.listing))
       \/ pc' \in {"died", "ended"} /\ UNCHANGED todo
    /\ titlenr' = 0 /\ start' = 0
    /\ UNCHANGED <<job, runs, files, user, out, entry, info, src, sector, total, tries>>

NextEntry ==
    /\ pc = "listing"
    /\ \/ /\ todo = <<>>
          /\ pc' = "ended" /\ UNCHANGED <<entry, todo, out>>
       \/ /\ todo # <<>>
          /\ entry' = Head(todo) /\ todo' = Tail(todo) /\ out' = entry'.name
          /\ pc' = IF job.stdout THEN "source" ELSE "partial"
    /\ UNCHANGED <<job, runs, files, user, titlenr, rip, info>>

\* A number in the name replaces the title number, VIDEO_TS has none.
TitleNr == IF entry.nr > 0 THEN entry.nr ELSE titlenr

\* What rip_vob_file() reads for a VOB: the digit of VIDEO_TS.VOB is a letter,
\* part 10 here.
VobSource == IF entry.digit = 0 \/ TitleNr = 0 THEN <<"menu", TitleNr>>
             ELSE <<"title", TitleNr>>

\* The sizes of the parts before are added up; filesizeof() ends the program if
\* one of them is missing.
PartsThere == entry.digit \in 2 .. 9 =>
                 /\ TitleNr \in DOMAIN PartSizes
                 /\ entry.digit - 1 <= Len(PartSizes[TitleNr])

\* Mutant: the part just before is not counted.
VobStartBefore == IF entry.digit \in 2 .. 9 THEN PartStart(TitleNr, entry.digit - 1)
                  ELSE IF entry.digit \in {0, 1} \/ TitleNr = 0 THEN 0
                  ELSE start

VobStart == IF entry.digit \in 2 .. 9 THEN PartStart(TitleNr, entry.digit)
            ELSE IF entry.digit \in {0, 1} \/ TitleNr = 0 THEN 0
            ELSE start

\* Without the file DVDOpenFile() returns NULL, and the read ends the program.
\* The parts before are asked for with have_access(), for writing as well.
OpenSource ==
    /\ pc = "source"
    /\ titlenr' = TitleNr
    /\ \/ /\ ~job.reach
          /\ pc' = "died" /\ UNCHANGED <<rip, info>>
       \/ /\ job.reach /\ entry.kind = "other"
          /\ pc' = "listing" /\ UNCHANGED <<rip, info>>
       \/ /\ job.reach /\ entry.kind = "info"
          /\ src' = <<"bup", TitleNr>>
          /\ seek' = 0 /\ buf' = Zeros
          /\ sector' = 0 /\ total' = entry.size
          /\ pc' = IF src' \in DOMAIN Sizes THEN "info" ELSE "died"
          /\ UNCHANGED <<start, tries>>
       \/ /\ job.reach /\ entry.kind = "vob"
          /\ src' = VobSource
          /\ \/ /\ entry.digit \in 2 .. 9 /\ pc' \in {"ended", "died"}
                /\ UNCHANGED <<start, sector, total, tries>>
             \/ IF src' \in DOMAIN Sizes /\ PartsThere
                  THEN StartRip(VobStart, Sizes[src'])
                ELSE pc' = "died" /\ UNCHANGED <<start, sector, total, tries>>
          /\ UNCHANGED info
    /\ UNCHANGED <<job, runs, files, user, out, entry, todo>>

\* IFO and BUP, both from the BUP: a read that fails leaves the buffer and the
\* position as they were, and a short write goes unnoticed.
CopyInfo ==
    /\ pc = "info" /\ sector < total
    /\ \/ /\ Works(seek)
          /\ buf' = Item(seek) /\ seek' = seek + 1
       \/ Fails(seek) /\ UNCHANGED info
    /\ \/ /\ \/ Put(<<buf'>>) \/ Put(<<Torn>>)
          /\ sector' = sector + 1 /\ UNCHANGED pc
       \/ UNCHANGED <<files, sector>> /\ pc' = "ended"
    /\ UNCHANGED <<job, runs, user, out, list, start, src, total, tries>>

EndInfo == /\ pc = "info" /\ sector >= total
           /\ pc' = "sync"
           /\ UNCHANGED <<job, runs, files, user, out, list, rip, info>>

-------------------------------------------------------------------------------
(***************************************************************************)
(* Signals, loss of power, and the next start                              *)
(***************************************************************************)
\* What has not been synchronised may be lost.
Kept(f) == IF IsThere(f) THEN [f EXCEPT !.data = SubSeq(@, 1, f.synced)] ELSE f

Interrupt ==
    /\ pc \notin Stopped
    /\ pc' = "killed"
    /\ \/ UNCHANGED files
       \/ /\ final' = [n \in Names |-> Kept(final[n])]
          /\ partial' = [n \in Names |-> Kept(partial[n])]
    /\ UNCHANGED <<job, runs, user, out, list, rip, info>>

Restart ==
    /\ pc \in Stopped /\ runs < MaxRuns
    /\ runs' = runs + 1 /\ job' \in Jobs
    /\ pc' = "setup" /\ overwrite' = (IF job'.x THEN "all" ELSE "ask") /\ said' = {}
    /\ out' = NoName /\ entry' = NoEntry /\ todo' = <<>> /\ titlenr' = 0
    /\ start' = 0 /\ src' = <<>> /\ sector' = 0 /\ total' = 0 /\ tries' = 0
    /\ seek' = 0 /\ buf' = Zeros
    /\ UNCHANGED files

Terminated == pc \in Stopped /\ runs = MaxRuns /\ UNCHANGED vars

Copy  == OutputPath \/ AskPartial \/ Create \/ Retry \/ SkipSector \/ CopySector
         \/ EndRip \/ Sync \/ AskFinal \/ Move
Title == OpenTitle \/ Round
Mirror == OpenListing \/ NextEntry \/ OpenSource \/ CopyInfo \/ EndInfo
Step  == Setup \/ Space \/ Copy \/ Title \/ Mirror
Next  == Step \/ Interrupt \/ Restart \/ Terminated
Spec  == Init /\ [][Next]_vars /\ WF_vars(Step)

-------------------------------------------------------------------------------
(***************************************************************************)
(* Properties                                                              *)
(***************************************************************************)

\* A file gets the name without .partial only when its data are on the disk
\* (fdatasync before rename_partial): whenever the power fails, what has its name
\* is what was written.
NamedIsSynced == \A n \in Names : IsThere(final[n]) =>
                                    final[n].synced = Len(final[n].data)

\* What the files of earlier runs hold is given up, overwritten or replaced only
\* with -x or after a reply to a question of this run (have_access), whichever of
\* the two names it has and however the run before ended.
Consented == job.x \/ said # {}
Keeps(f, g) == IsThere(f) => IsThere(g) /\ IsPrefix(f.data, g.data)
Consent == [][\A n \in Names :
                 pc' # "killed" /\ ~Consented' =>
                    /\ Keeps(final[n], final'[n])
                    /\ \/ Keeps(partial[n], partial'[n])
                       \/ final'[n] = partial[n]]_vars

\* rip_vob_file() leaves no sector out but those whose reads may fail: what has
\* been copied up to the sector at hand is in order, and what is missing is hard.
CopiedUpTo(d, s) ==
    /\ \A i, j \in 1 .. Len(d) : i < j => d[i][3] < d[j][3]
    /\ \A i \in 1 .. Len(d) : d[i] = Item(d[i][3]) /\ d[i][3] \in start .. s - 1
    /\ \A t \in start .. s - 1 : Fails(t) \/ \E i \in 1 .. Len(d) : d[i] = Item(t)
Accounted == pc = "read" /\ ~job.stdout => CopiedUpTo(partial[out].data, sector)

\* mirror() gives every file whose name has a number sectors of its own title
\* set, and of its own domain, from its own first sector that can be read on,
\* whatever the order of the directory.
MirrorOwn ==
    pc = "rename" /\ job.mode = "mirror" /\ entry.nr > 0 /\ Len(partial[out].data) > 0 =>
      LET d     == partial[out].data
          part  == entry.kind = "vob" /\ entry.digit > 0
          own   == <<IF entry.kind = "info" THEN "bup" ELSE IF part THEN "title" ELSE "menu",
                     entry.nr>>
          first == IF part THEN PartStart(entry.nr, entry.digit) ELSE 0
          is(s) == <<own[1], own[2], s>>
      IN  /\ \A i \in 1 .. Len(d) : d[i] \in {Torn, Zeros} \cup {is(s) : s \in 0 .. Sizes[own]}
          /\ \/ d[1] = Torn
             \/ \E s \in first .. Sizes[own] - 1 :
                   d[1] = is(s) /\ \A t \in first .. s - 1 : is(t) \in Hard
             \/ d[1] = Zeros /\ entry.kind = "info" /\ is(0) \in Hard

\* Every copy comes to an end, however many sectors cannot be read
\* (rip_vob_file: the tries of a sector are limited).
RipEnds == pc = "read" ~> pc # "read"

\* README:53: "If for some reason the sizes don't match the one on dvd the
\* .partial will stay to indicate that something is wrong."
PartialStays ==
    \A n \in Names : IsThere(final[n]) =>
        \A t \in DOMAIN Titles : Titles[t].name = n =>
            Len(final[n].data) = Sizes[<<"title", Titles[t].set>>]
===============================================================================
