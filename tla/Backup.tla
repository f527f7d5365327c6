-------------------------------- MODULE Backup --------------------------------
(***************************************************************************)
(* A run of dvdbackup from its command line to its exit code (main.c, and  *)
(* DVDMirror(), DVDMirrorTitleSet(), DVDMirrorMainFeature() and what they  *)
(* call in dvdbackup.c): which title sets are copied, in which order their *)
(* IFO, BUP, menu and title VOBs are written, and what is left of them in  *)
(* the target directory, new or of an earlier run, if something fails.     *)
(*                                                                         *)
(* A copy of blocks (DVDCopyBlocks(), see Dvdbackup) ends with the whole   *)
(* file or fails with a part of it; so does one of chapters.  The files    *)
(* whose closing is followed are those of title sets, on the disc and in   *)
(* the target directory; the descriptor of the device that                 *)
(* DVDGetTitleName() leaves open (dvdbackup.c, 1305) is none of them.      *)
(***************************************************************************)
EXTENDS MainFeature

CONSTANTS Jobs,      \* command lines, with the disc and the target directory
          MaxSets,   \* bound: title sets of a disc
          MaxVobs    \* bound: title VOBs of a title set, 9 by the DVD standard

Absent == -1         \* an option that is not given
Kinds  == {"info", "mirror", "feature", "titleSet", "titles", "chapters"}
Sizes  == {"none", "empty", "ragged", "sound"}    \* of a file of the disc, in blocks
Contents == {"none", "other", "old", "empty", "part", "whole", "cells"}

\* The files of a title set: in the directory, or on the disc.  Set 0 is the Video
\* Manager, which has no title VOBs.
FileSets(values) == [ifo : values, bup : values, menu : values, vobs : [1 .. MaxVobs -> values]]
Originals == [ifo : Sizes \ {"none"}, menu : Sizes, vobs : UNION {[1 .. n -> Sizes \ {"none"}] : n \in 0 .. MaxVobs}]

ASSUME BackupAssumption ==
    /\ MaxSets \in Nat /\ MaxVobs \in Nat
    /\ \A j \in Jobs :
         /\ Len(j.disc.sets) \in 1 .. MaxSets /\ Len(j.disc.titles) > 0
         /\ j.disc.manager \in Originals /\ j.disc.manager.vobs = <<>>
         /\ \A s \in 1 .. Len(j.disc.sets) :
              /\ j.disc.sets[s].files \in Originals
              /\ \A f \in {"size", "audio", "sub", "channels"} : j.disc.sets[s][f] \in Nat
         /\ \A t \in 1 .. Len(j.disc.titles) :
              j.disc.titles[t].set \in Nat /\ j.disc.titles[t].chapters \in Nat
         /\ j.before \in [0 .. MaxSets -> FileSets({"none", "other", "old"})]

VARIABLES job,      \* the command line, the disc and the directory before
          pc,       \* where main() and the functions it calls are
          info,     \* title_set_info: what DVDGetFileSet() found, by title set
          feature,  \* main_title_set, 0 before it is known
          set,      \* the title set that is copied
          vob,      \* how many of its title VOBs have been begun
          target,   \* the directory VIDEO_TS: the files of each title set
          streams,  \* open files: what of which title set
          reader,   \* how often the reader has been closed
          code      \* return_code, and the status of the program at its end

vars == <<job, pc, info, feature, set, vob, target, streams, reader, code>>

Init == /\ job \in Jobs /\ pc = "options"
        /\ info = <<>> /\ feature = 0 /\ set = 0 /\ vob = 0
        /\ target = job.before /\ streams = {} /\ reader = 0 /\ code = 0

Exit(status, closed) == /\ pc' = "exit" /\ code' = status /\ reader' = reader + closed
                        /\ UNCHANGED <<job, info, feature, set, vob, target, streams>>
Goto(next) == /\ pc' = next
              /\ UNCHANGED <<job, info, feature, set, vob, target, streams, reader, code>>

-------------------------------------------------------------------------------
(***************************************************************************)
(* main()                                                                  *)
(***************************************************************************)
Given(n) == n # Absent

\* The actions the options ask for.  A title with some of its chapters is one
\* action, without them another.
Actions(o) ==
    LET some == Given(o.start) \/ Given(o.end)
    IN  (o.flags \cap {"info", "mirror", "feature"})
        \cup (IF Given(o.set) THEN {"titleSet"} ELSE {})
        \cup (IF Given(o.title) THEN {IF some THEN "chapters" ELSE "titles"} ELSE {})

\* The chapters asked for: up to the last one or from the first one on, if only
\* one of them is given.
From(o) == IF Given(o.end) /\ ~Given(o.start) THEN 1 ELSE o.start
To(o)   == IF Given(o.start) /\ ~Given(o.end) THEN 99 ELSE o.end

Usable(o) == /\ o.aspect \in {0, 3} \/ "info" \in o.flags
             /\ Given(o.title) => o.title >= 1
             /\ Given(o.start) => o.start \in 1 .. 99
             /\ Given(o.end) => o.end \in 1 .. 99
             /\ Given(o.start) \/ Given(o.end) => From(o) <= To(o)
             /\ Given(o.set) => o.set \in 0 .. 99
             /\ Cardinality(Actions(o)) = 1

Kind == CHOOSE a \in Actions(job.opts) : TRUE

Options == /\ pc = "options"
           /\ IF Usable(job.opts) THEN Goto("open") ELSE Exit(1, 0)

\* DVDOpen(), and the information that needs nothing else.
OpenDisc == /\ pc = "open"
            /\ \/ Exit(-1, 0)
               \/ Kind = "info" /\ Exit(0, 1)
               \/ Kind # "info" /\ Goto("name")

\* The name given by the user, or that of the volume; there is none where the disc
\* is a directory, and "DVD_VIDEO" is not one.
TitleName == /\ pc = "name"
             /\ \/ job.name \in {"given", "volume"} /\ Goto("directories")
                \/ job.name = "unreadable" /\ Exit(1, 1)
                \/ job.name = "generic" /\ Exit(2, 1)

\* The target directory, the title's in it and VIDEO_TS in that.  A file in place
\* of the last one is found out when its files cannot be created.
Directories == /\ pc = "directories"
               /\ \/ job.place \in {"there", "file"} /\ Goto(Kind)
                  \/ job.place = "new" /\ (Goto(Kind) \/ Exit(-1, 1))
                  \/ job.place = "blocked" /\ Exit(-1, 1)

\* An action has succeeded or failed.
Done  == Exit(0, 1)
Fails == Exit(-1, 1)

-------------------------------------------------------------------------------
(***************************************************************************)
(* DVDGetInfo() and DVDGetFileSet()                                        *)
(***************************************************************************)
\* The main feature is guessed, and for titles and chapters too.
GetInfo == /\ pc \in {"feature", "titles", "chapters"}
           /\ \/ Fails
              \/ /\ feature' \in MainTitleSets(job.disc, job.opts.aspect)
                 /\ pc' = "files"
                 /\ UNCHANGED <<job, info, set, vob, target, streams, reader, code>>

MirrorCalled == pc \in {"mirror", "titleSet"} /\ Goto("files")

Files(s) == IF s = 0 THEN job.disc.manager ELSE job.disc.sets[s].files

\* What DVDFileStat() says of the files; a menu or the VOBs of a title set may not
\* be found, as directories are read anew for each of them.
Seen(s) == {[ifo  |-> Files(s).ifo, menu |-> m, vobs |-> v] :
              m \in {Files(s).menu} \cup (IF job.flaky THEN {"none"} ELSE {}),
              v \in {Files(s).vobs} \cup (IF job.flaky THEN {<<>>} ELSE {})}

\* The first title set to copy, and the last one.
FirstSet == IF Kind = "mirror" THEN 0 ELSE IF Kind = "titleSet" THEN job.opts.set ELSE feature
LastSet  == IF Kind = "mirror" THEN Len(job.disc.sets) ELSE FirstSet

\* Without an IFO there is no file set; DVDMirror() and DVDMirrorTitleSet() then close
\* the reader, before main() does.
FileSet ==
    /\ pc = "files"
    /\ \/ Exit(-1, IF Kind \in {"mirror", "titleSet"} THEN 2 ELSE 1)
       \/ /\ info' \in {f \in [0 .. Len(job.disc.sets) -> UNION {Seen(s) : s \in 0 .. Len(job.disc.sets)}] :
                          \A s \in DOMAIN f : f[s] \in Seen(s)}
          /\ IF Kind \in {"titles", "chapters"}
               THEN /\ pc' = "cells" /\ UNCHANGED <<set, code, reader>>
               ELSE IF FirstSet > Len(job.disc.sets)
               THEN /\ pc' = "exit" /\ code' = -1 /\ reader' = reader + 1 /\ UNCHANGED set
               ELSE /\ pc' = "title" /\ set' = FirstSet /\ UNCHANGED <<code, reader>>
          /\ UNCHANGED <<job, feature, vob, target, streams>>

-------------------------------------------------------------------------------
(***************************************************************************)
(* DVDMirrorTitleX(): DVDCopyIfoBup(), DVDCopyMenu(), DVDCopyTitleVobX()   *)
(***************************************************************************)
\* A step that changes files of the title set and goes on, or gives up after it.
Copying(next, files, open) ==
    /\ pc' = next /\ target' = [target EXCEPT ![set] = files] /\ streams' = open
    /\ UNCHANGED <<job, info, feature, set, vob, reader, code>>
GivesUp(files, open) ==
    /\ pc' = "exit" /\ code' = -1 /\ reader' = reader + 1
    /\ target' = [target EXCEPT ![set] = files] /\ streams' = open
    /\ UNCHANGED <<job, info, feature, set, vob>>

Here   == target[set]
IfoOut == <<set, "ifoOut">>
BupOut == <<set, "bupOut">>
IfoIn  == <<set, "ifo">>
VobOut == <<set, "vobOut">>
VobIn  == <<set, "vob">>

\* Both files are emptied before anything of the disc is read.
OpenIfoBup ==
    /\ pc = "title"
    /\ \/ info[set].ifo = "empty" /\ Goto("menu")
       \/ info[set].ifo = "ragged" /\ Fails
       \/ info[set].ifo = "sound" /\ Fails
       \/ /\ info[set].ifo = "sound" /\ "other" \notin {Here.ifo, Here.bup} /\ job.place # "file"
          /\ \/ GivesUp([Here EXCEPT !.ifo = "empty"], streams)
             \/ Copying("ifo", [Here EXCEPT !.ifo = "empty", !.bup = "empty"], streams \cup {IfoOut, BupOut})

\* The IFO is read at once.
\* Mutant: the files stay open if the IFO cannot be read.
ReadIfoLeaks == /\ pc = "ifo"
                /\ \/ GivesUp(Here, streams)
                   \/ Copying("writeIfo", Here, streams \cup {IfoIn})

ReadIfo == /\ pc = "ifo"
           /\ \/ GivesUp(Here, streams \ {IfoOut, BupOut})
              \/ Copying("writeIfo", Here, streams \cup {IfoIn})

WriteIfo == /\ pc = "writeIfo"
            /\ \/ GivesUp([Here EXCEPT !.ifo = "part"], streams \ {IfoOut, BupOut, IfoIn})
               \/ Copying("writeBup", [Here EXCEPT !.ifo = "whole"], streams)

\* Then all three files stay open.
WriteBup == /\ pc = "writeBup"
            /\ \/ GivesUp([Here EXCEPT !.bup = "part"], streams \ {IfoOut, BupOut, IfoIn})
               \/ Copying("menu", [Here EXCEPT !.bup = "whole"], streams)

\* The target of a VOB is opened, and emptied if it exists.
Opens(content) == content # "other" /\ job.place # "file"

\* Mutant: a menu that cannot be opened is taken for none.
OpenMenuOrNot ==
    /\ pc = "menu"
    /\ \/ Goto("vobs")
       \/ /\ info[set].menu \in {"ragged", "sound"} /\ Opens(Here.menu)
          /\ Copying("copyMenu", [Here EXCEPT !.menu = "empty"], streams \cup {VobIn, VobOut})

OpenMenu ==
    /\ pc = "menu"
    /\ \/ info[set].menu \in {"none", "empty"} /\ Goto("vobs")
       \/ info[set].menu \in {"ragged", "sound"} /\ Fails
       \/ /\ info[set].menu \in {"ragged", "sound"} /\ Opens(Here.menu)
          /\ Copying("copyMenu", [Here EXCEPT !.menu = "empty"], streams \cup {VobIn, VobOut})

CopyMenu == /\ pc = "copyMenu"
            /\ \/ GivesUp([Here EXCEPT !.menu = "part"], streams \ {VobIn, VobOut})
               \/ Copying("vobs", [Here EXCEPT !.menu = IF info[set].menu = "sound" THEN "whole" ELSE "part"],
                          streams \ {VobIn, VobOut})

\* The next title VOB.  Those of a set whose first one is empty are passed over.
OpenVob ==
    /\ pc = "vobs" /\ vob < Len(info[set].vobs)
    /\ LET size == info[set].vobs[vob + 1]
       IN  \/ /\ "empty" \in {size, info[set].vobs[1]}
              /\ vob' = vob + 1 /\ UNCHANGED <<pc, target, streams, code, reader>>
           \/ /\ "empty" \notin {size, info[set].vobs[1]} /\ size = "sound" /\ Opens(Here.vobs[vob + 1])
              /\ vob' = vob + 1
              /\ target' = [target EXCEPT ![set].vobs[vob + 1] = "empty"]
              /\ \/ pc' = "copyVob" /\ streams' = streams \cup {VobIn, VobOut} /\ UNCHANGED <<code, reader>>
                 \/ pc' = "exit" /\ code' = -1 /\ reader' = reader + 1 /\ UNCHANGED streams
           \/ /\ "empty" \notin {size, info[set].vobs[1]}
              /\ pc' = "exit" /\ code' = -1 /\ reader' = reader + 1
              /\ UNCHANGED <<vob, target, streams>>
    /\ UNCHANGED <<job, info, feature, set>>

CopyVob == /\ pc = "copyVob"
           /\ \/ GivesUp([Here EXCEPT !.vobs[vob] = "part"], streams \ {VobIn, VobOut})
              \/ Copying("vobs", [Here EXCEPT !.vobs[vob] = "whole"], streams \ {VobIn, VobOut})

\* Mutant: DVDMirror() goes on with the next title set before all VOBs are copied.
EndTitleEarly ==
    /\ pc = "vobs"
    /\ \/ /\ set < LastSet
          /\ set' = set + 1 /\ vob' = 0 /\ pc' = "title"
          /\ UNCHANGED <<job, info, feature, target, streams, reader, code>>
       \/ vob = Len(info[set].vobs) /\ set = LastSet /\ Done

\* The title set is complete; DVDMirror() goes on with the next one.
EndTitle ==
    /\ pc = "vobs" /\ vob = Len(info[set].vobs)
    /\ \/ /\ set < LastSet
          /\ set' = set + 1 /\ vob' = 0 /\ pc' = "title"
          /\ UNCHANGED <<job, info, feature, target, streams, reader, code>>
       \/ set = LastSet /\ Done

-------------------------------------------------------------------------------
(***************************************************************************)
(* DVDMirrorTitles(), DVDMirrorChapters() and DVDWriteCells()              *)
(***************************************************************************)
TitleSet == job.disc.titles[job.opts.title].set
IfoInfo  == <<set, "info">>      \* vts_ifo_info

\* The title's IFO is opened and the title VOBs of before are removed.  A title number
\* the disc does not have is used all the same, and so is the Video Manager's IFO.
OpenTitle ==
    /\ pc = "cells"
    /\ \/ Fails
       \/ job.opts.title > Len(job.disc.titles) /\ Goto("crashed")
       \/ job.opts.title <= Len(job.disc.titles) /\ TitleSet = 0 /\ Goto("crashed")
       \/ /\ job.opts.title <= Len(job.disc.titles) /\ TitleSet \in 1 .. Len(job.disc.sets)
          /\ set' = TitleSet
          /\ streams' = streams \cup {<<TitleSet, "info">>}
          /\ target' = [target EXCEPT ![TitleSet].vobs =
                          [v \in 1 .. MaxVobs |-> IF @[v] = "other" THEN @[v] ELSE "none"]]
          /\ pc' = "createVob"
          /\ UNCHANGED <<job, info, feature, vob, reader, code>>

\* The next VOB of the target, and before the first one is written the VOBs of the
\* disc, which stay open if a later one cannot be created.
CreateVob ==
    /\ pc = "createVob"
    /\ \/ /\ pc' = "exit" /\ code' = -1 /\ reader' = reader + 1
          /\ streams' = streams \ {IfoInfo}
          /\ UNCHANGED <<vob, target>>
       \/ /\ vob < MaxVobs /\ Opens(Here.vobs[vob + 1])
          /\ vob' = vob + 1
          /\ target' = [target EXCEPT ![set].vobs[vob + 1] = "empty"]
          /\ \/ /\ pc' = "copyCells" /\ streams' = streams \cup {VobIn, VobOut}
                /\ UNCHANGED <<code, reader>>
             \/ /\ vob = 0 /\ pc' = "exit" /\ code' = -1 /\ reader' = reader + 1
                /\ streams' = streams \ {IfoInfo}
    /\ UNCHANGED <<job, info, feature, set>>

\* Cells are copied until a VOB is full or all are there.  A failed read closes all
\* files, a failed write all but the VOBs of the disc.
CopyCells ==
    /\ pc = "copyCells"
    /\ \/ GivesUp([Here EXCEPT !.vobs[vob] = "part"], streams \ {IfoInfo, VobIn, VobOut})
       \/ GivesUp([Here EXCEPT !.vobs[vob] = "part"], streams \ {IfoInfo, VobOut})
       \/ Copying("createVob", [Here EXCEPT !.vobs[vob] = "cells"], streams \ {VobOut})
       \/ /\ pc' = "exit" /\ code' = 0 /\ reader' = reader + 1
          /\ target' = [target EXCEPT ![set].vobs[vob] = "cells"]
          /\ streams' = streams \ {IfoInfo, VobIn, VobOut}
          /\ UNCHANGED <<job, info, feature, set, vob>>

Terminated == pc \in {"exit", "crashed"} /\ UNCHANGED vars

Main  == Options \/ OpenDisc \/ TitleName \/ Directories \/ GetInfo \/ MirrorCalled \/ FileSet
Title == \/ OpenIfoBup \/ ReadIfo \/ WriteIfo \/ WriteBup
         \/ OpenMenu \/ CopyMenu \/ OpenVob \/ CopyVob \/ EndTitle
TitleCells == OpenTitle \/ CreateVob \/ CopyCells
Next == Main \/ Title \/ TitleCells \/ Terminated

Spec == Init /\ [][Next]_vars

-------------------------------------------------------------------------------
(***************************************************************************)
(* Properties                                                              *)
(***************************************************************************)
\* What was asked for: the title sets to copy, once the disc has been looked at.
Asked == IF Kind \in {"mirror", "titleSet", "feature"} THEN FirstSet .. LastSet ELSE {}

\* The copy of a title set is complete, as far as its files were found: IFO and BUP
\* are two copies of the IFO, the menu and all title VOBs are there.
Complete(s) ==
    /\ info[s].ifo = "sound" => target[s].ifo = "whole" /\ target[s].bup = "whole"
    /\ info[s].menu = "sound" => target[s].menu = "whole"
    /\ \A v \in 1 .. Len(info[s].vobs) :
         "empty" \notin {info[s].vobs[1], info[s].vobs[v]} => target[s].vobs[v] = "whole"

\* At the end the reader is closed once, if there was a file set, and of the files of
\* title sets only those of an IFO and its BUP that have been copied are still open,
\* and the VOBs of the disc, if the copy of a title's cells is given up after one of
\* its VOBs has been begun: no failure of a mirror leaves a file open, and no
\* run that ends with success a VOB (DVDCopyIfoBup(), DVDCopyMenu(),
\* DVDCopyTitleVobX() and DVDWriteCells()).
Released == pc = "exit" =>
    /\ info # <<>> => reader = 1
    /\ streams \ {VobIn} = {s \in DOMAIN info : target[s].bup = "whole"} \X {"ifo", "ifoOut", "bupOut"}
    /\ VobIn \in streams => Kind \in {"titles", "chapters"} /\ code # 0 /\ vob > 0

\* "If you e.g. use the -M (mirror) you will get an exact duplicate" (readme.md, 39):
\* dvdbackup says so only if every title set asked for is complete.
Duplicate == pc = "exit" /\ code = 0 /\ Asked # {} /\ info # <<>> => \A s \in Asked : Complete(s)

\* Files are given up in order: what has been changed of a title set or of one of its
\* files leaves nothing incomplete behind it, so that a run that was interrupted can be
\* completed from the last file on.
InOrder == info # <<>> /\ Kind \notin {"titles", "chapters"} =>
    \A s \in 0 .. Len(job.disc.sets) :
      LET before == job.before[s]
          ready  == info[s].ifo = "sound" => target[s].ifo = "whole" /\ target[s].bup = "whole"
      IN  /\ target[s].bup = "whole" => target[s].ifo = "whole"
          /\ target[s].menu # before.menu \/ target[s].vobs # before.vobs => ready
          /\ target[s] # before => s \in Asked /\ \A r \in Asked : r < s => Complete(r)

\* "-a, --aspect=0 to get aspect ratio 4:3 instead of 16:9 if both are present"
\* (main.c, 104): of two versions of the feature, much larger than the other title
\* sets and with more chapters and as many streams, the one asked for is taken.
Versions(d, a, b) ==
    /\ a # b /\ d.sets[a].aspect # d.sets[b].aspect
    /\ 2 * d.sets[a].size < 3 * d.sets[b].size /\ 2 * d.sets[b].size < 3 * d.sets[a].size
    /\ \A s \in {a, b} :
         /\ \A r \in 1 .. Len(d.sets) :
              /\ d.sets[r].audio <= d.sets[s].audio /\ d.sets[r].sub <= d.sets[s].sub
              /\ d.sets[r].channels <= d.sets[s].channels
              /\ r \notin {a, b} => d.sets[r].size < d.sets[s].size
         /\ Cardinality({t \in 1 .. Len(d.titles) : d.titles[t].set = s}) = 1
         /\ \A t \in 1 .. Len(d.titles) :
              d.titles[t].chapters <= Chapters(d, s) /\ (d.titles[t].set \notin {a, b} => d.titles[t].chapters < Chapters(d, s))
PreferredAspect == feature # 0 =>
    \A a, b \in 1 .. Len(job.disc.sets) :
      Versions(job.disc, a, b) /\ job.disc.sets[a].aspect = job.opts.aspect => feature = a

\* "No matter what we will more or less only return the biggest VOB" (dvdbackup.c, 689):
\* no title set is half as big again as the one taken, unless there are episodes (two
\* title sets of one aspect ratio, of which none is half as big again as the other).
FeatureBig == feature # 0 =>
    \/ \A s \in 1 .. Len(job.disc.sets) : 2 * job.disc.sets[s].size <= 3 * job.disc.sets[feature].size
    \/ \E a, b \in 1 .. Len(job.disc.sets) :
         /\ a # b /\ job.disc.sets[a].aspect = job.disc.sets[b].aspect
         /\ job.disc.sets[a].size < 2 * job.disc.sets[b].size
         /\ \A s \in 1 .. Len(job.disc.sets) : job.disc.sets[s].size <= job.disc.sets[a].size

\* The main feature that -F copies is the one to be expected.
FeatureRight == PreferredAspect /\ FeatureBig
===============================================================================
