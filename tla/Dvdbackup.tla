------------------------------- MODULE Dvdbackup -------------------------------
(***************************************************************************)
(* How dvdbackup copies the title VOBs of a title set (dvdbackup.c):       *)
(*   mirroring   every VOB to a file of its own, by DVDMirrorTitleX(),     *)
(*               DVDCopyTitleVobX() and DVDCopyBlocks(), with one of three *)
(*               strategies for blocks that cannot be read;                *)
(*   chapters    the cells of some chapters of a title to new VOBs of at   *)
(*               most 1 GB, by DVDMirrorChapters() and DVDWriteCells().    *)
(* A block is known by its number among the blocks of the title VOBs (see  *)
(* DvdRead); a file is the sequence of the blocks written to it.           *)
(***************************************************************************)
EXTENDS DvdRead, Sequences

CONSTANTS Jobs,        \* what dvdbackup is asked for, and the disc it reads
          BufferSize,  \* BUFFER_SIZE, blocks read at once
          MaxVob,      \* MAX_VOB_SIZE, blocks of the largest VOB
          MaxFiles     \* bound: number of VOBs written

Strategies == {"abort", "block", "multiblock"}
Blank      == -1       \* a block of zeros written instead of an unreadable one

\* A title as the IFO describes it: cells with their first and last sector, the
\* entry cell of each program and the program of each chapter.
IsTitle(t) ==
    /\ t.cells \in Seq([first : Nat, last : Nat])
    /\ t.map \in Seq(Nat) /\ t.ptt \in Seq(Nat) /\ t.ptt # <<>>
    /\ \A c \in 1 .. Len(t.cells) : t.cells[c].first <= t.cells[c].last
    /\ \A p \in 1 .. Len(t.map) : t.map[p] \in 1 .. Len(t.cells)
    /\ \A c \in 1 .. Len(t.ptt) : t.ptt[c] \in 1 .. Len(t.map)

ASSUME DvdbackupAssumption ==
    /\ BufferSize \in Nat \ {0} /\ MaxVob \in Nat \ {0} /\ MaxFiles \in Nat
    /\ Parts <= MaxFiles
    /\ \A j \in Jobs :
          /\ j.disc \in Media
          /\ \/ j.kind = "mirror" /\ j.strategy \in Strategies
             \/ /\ j.kind = "chapters" /\ IsTitle(j.title)
                /\ j.from \in Nat /\ j.to \in Nat
                /\ 1 <= j.from /\ j.from <= j.to

VARIABLES job,        \* the command line and the disc
          pc,         \* vobs, blocks; cells; done, failed
          vob,        \* number of the VOB that is written
          offset,     \* offset, soffset: the next block to read
          remaining,  \* remaining, left: how many blocks are to be read
          toread,     \* to_read of DVDCopyBlocks()
          pair,       \* bsort_min_to_max(): i and j, from 1 on
          files,      \* the VOBs written
          todo        \* the cells that DVDWriteCells() has not begun

vars == <<job, pc, vob, offset, remaining, toread, pair, files, todo>>

Init == /\ job \in Jobs
        /\ pc = IF job.kind = "mirror" THEN "vobs" ELSE "chapters"
        /\ vob = 0 /\ offset = 0 /\ remaining = 0 /\ toread = 0
        /\ pair = <<1, 1>>
        /\ files = [v \in 1 .. MaxFiles |-> <<>>]
        /\ todo = <<>>

\* write() to the VOB at hand, which may fail after a part has been written.
Write(data) == files' = [files EXCEPT ![vob] = @ \o data]
WriteFails(data) == /\ data # <<>>
                    /\ \E m \in 0 .. Len(data) - 1 : Write(SubSeq(data, 1, m))

-------------------------------------------------------------------------------
(***************************************************************************)
(* DVDMirrorTitleX() and DVDCopyTitleVobX()                                *)
(***************************************************************************)

\* Mutant: the sum of the sizes goes one VOB too far.
OpenVobBehind == /\ pc = "vobs" /\ vob < Parts
                 /\ vob' = vob + 1
                 /\ offset' = Ends[vob + 1]
                 /\ remaining' = Ends[vob + 1] - Ends[vob]
                 /\ toread' = BufferSize
                 /\ pc' \in {"blocks", "failed"}
                 /\ UNCHANGED <<job, pair, files, todo>>

\* The next VOB: it is created or truncated, or that fails.
OpenVob == /\ pc = "vobs" /\ vob < Parts
           /\ vob' = vob + 1
           /\ offset' = Ends[vob]
           /\ remaining' = Ends[vob + 1] - Ends[vob]
           /\ toread' = BufferSize
           /\ pc' \in {"blocks", "failed"}
           /\ UNCHANGED <<job, pair, files, todo>>

EndTitle == /\ pc = "vobs" /\ vob = Parts
            /\ pc' = "done"
            /\ UNCHANGED <<job, vob, offset, remaining, toread, pair, files, todo>>

(***************************************************************************)
(* DVDCopyBlocks()                                                         *)
(***************************************************************************)
\* Mutant: all that was asked for is padded, whatever was read of it.
PaddingAll(n, got) == IF got = n \/ job.strategy = "abort" THEN 0
                      ELSE IF job.strategy = "block" THEN 1 ELSE n

\* Mutant: a single block is skipped only in the messages.
PaddingNone(n, got) == IF job.strategy = "multiblock" THEN n - got ELSE 0

\* How many blocks are padded when only `got' of n blocks were read.
Padding(n, got) == CASE got = n \/ job.strategy = "abort" -> 0
                     [] got < n /\ job.strategy = "block" -> 1
                     [] got < n /\ job.strategy = "multiblock" -> n - got

Blanks(n) == [j \in 1 .. n |-> Blank]

CopyChunk ==
    /\ pc = "blocks" /\ remaining > 0
    /\ LET n    == LeastOf(toread, remaining)
           read == ReadBlocks(job.disc, offset, n)
           got  == IF read.ret < 0 THEN 0 ELSE read.ret
           pad  == Padding(n, got)
           data == read.buf \o Blanks(pad)
       IN  /\ toread' = n
           /\ \/ /\ got = n \/ job.strategy # "abort"
                 /\ Write(data)
                 /\ offset' = offset + (got + pad)
                 /\ remaining' = remaining - (got + pad)
                 /\ UNCHANGED pc
              \/ /\ got < n /\ job.strategy = "abort"
                 /\ Write(read.buf)
                 /\ offset' = offset + got /\ remaining' = remaining - got
                 /\ pc' = "failed"
              \/ /\ WriteFails(data)
                 /\ pc' = "failed" /\ UNCHANGED <<offset, remaining>>
    /\ UNCHANGED <<job, vob, pair, todo>>

EndVob == /\ pc = "blocks" /\ remaining = 0
          /\ pc' = "vobs"
          /\ UNCHANGED <<job, vob, offset, remaining, toread, pair, files, todo>>

(***************************************************************************)
(* DVDMirrorChapters()                                                     *)
(***************************************************************************)
\* Mutant: cells may overlap.
AlignEndsNot(cells) == cells

\* align_end_sector(): a cell ends before the next one begins.
AlignEnds(cells) ==
    [c \in 1 .. Len(cells) |->
        IF c < Len(cells) /\ cells[c].last >= cells[c + 1].first
          THEN [cells[c] EXCEPT !.last = cells[c + 1].first - 1]
          ELSE cells[c]]

\* The cells from the first one of the first chapter to the one before the first
\* one of the chapter after the last.
ChapterCells(title, from, to) ==
    LET chapters == Len(title.ptt)
        end   == LeastOf(to, chapters)
        start == LeastOf(from, chapters)
        first == title.map[title.ptt[start]]
        last  == IF end < chapters THEN title.map[title.ptt[end + 1]] - 1
                                   ELSE Len(title.cells)
    IN  SubSeq(title.cells, first, last)

ChooseCells ==
    /\ pc = "chapters"
    /\ todo' = ChapterCells(job.title, job.from, job.to)
    /\ pair' = <<1, 1>>
    /\ pc' \in {"sort", "failed"}
    /\ UNCHANGED <<job, vob, offset, remaining, toread, files>>

\* bsort_min_to_max(): every two places i and j are compared, in this order.
SortCells ==
    /\ pc = "sort"
    /\ LET n == Len(todo)
           i == pair[1]
           j == pair[2]
       IN  \/ /\ i <= n
              /\ todo' = IF todo[i].first < todo[j].first
                           THEN [todo EXCEPT ![i] = todo[j], ![j] = todo[i]]
                           ELSE todo
              /\ pair' = IF j < n THEN <<i, j + 1>> ELSE <<i + 1, 1>>
              /\ UNCHANGED <<pc, vob>>
           \/ /\ i > n
              /\ todo' = AlignEnds(todo)
              /\ pc' = "cells" /\ vob' = 1
              /\ UNCHANGED pair
    /\ UNCHANGED <<job, offset, remaining, toread, files>>

(***************************************************************************)
(* DVDWriteCells()                                                         *)
(***************************************************************************)

NextCell == /\ pc = "cells" /\ remaining <= 0 /\ todo # <<>>
            /\ offset' = Head(todo).first
            /\ remaining' = Head(todo).last - Head(todo).first
            /\ todo' = Tail(todo)
            /\ UNCHANGED <<job, pc, vob, toread, pair, files>>

\* Up to BufferSize blocks, but not beyond the end of the VOB, which may be full
\* already; then a new VOB is begun if there is more of this cell.
CopyCell ==
    /\ pc = "cells" /\ remaining > 0
    /\ LET n    == LeastOf(LeastOf(remaining, MaxVob - Len(files[vob])), BufferSize)
           read == ReadBlocks(job.disc, offset, n)
       IN  \/ /\ read.ret >= 0
              /\ Write(read.buf)
              /\ offset' = offset + read.ret
              /\ remaining' = remaining - read.ret
              /\ \/ /\ Len(files'[vob]) >= MaxVob /\ remaining' > 0
                    /\ vob < MaxFiles
                    /\ vob' = vob + 1 /\ pc' \in {"cells", "failed"}
                 \/ /\ ~(Len(files'[vob]) >= MaxVob /\ remaining' > 0)
                    /\ UNCHANGED <<vob, pc>>
           \/ /\ read.ret < 0
              /\ pc' = "failed"
              /\ UNCHANGED <<vob, offset, remaining, files>>
           \/ /\ read.ret >= 0 /\ WriteFails(read.buf)
              /\ pc' = "failed"
              /\ UNCHANGED <<vob, offset, remaining>>
    /\ UNCHANGED <<job, toread, pair, todo>>

EndCells == /\ pc = "cells" /\ remaining <= 0 /\ todo = <<>>
            /\ pc' = "done"
            /\ UNCHANGED <<job, vob, offset, remaining, toread, pair, files, todo>>

Terminated == pc \in {"done", "failed"} /\ UNCHANGED vars

Mirror   == OpenVob \/ EndTitle \/ CopyChunk \/ EndVob
Chapters == ChooseCells \/ SortCells \/ NextCell \/ CopyCell \/ EndCells
Next == Mirror \/ Chapters \/ Terminated

\* One process, which runs.
Spec == Init /\ [][Next]_vars /\ WF_vars(Mirror \/ Chapters)

-------------------------------------------------------------------------------
(***************************************************************************)
(* Properties                                                              *)
(***************************************************************************)

\* A mirrored VOB is an image of the VOB of the disc: each block is at its place
\* or blank, so that the sector numbers in the IFO stay right, whatever could not
\* be read and however much was padded for it.
InPlace == job.kind = "mirror" =>
    \A v \in 1 .. Parts : \A j \in 1 .. Len(files[v]) :
        files[v][j] \in {Ends[v - 1] + j - 1, Blank}

\* Nothing is missing at its end, nor written beyond it.
WholeVobs == job.kind = "mirror" =>
    /\ \A v \in 1 .. Parts : Len(files[v]) <= Ends[v] - Ends[v - 1]
    /\ pc = "done" => \A v \in 1 .. Parts : Len(files[v]) = Ends[v] - Ends[v - 1]

BlankNearBad == job.kind = "mirror" =>
    \A v \in 1 .. Parts : \A j \in 1 .. Len(files[v]) :
        files[v][j] = Blank =>
          /\ job.strategy # "abort"
          /\ \E b \in job.disc.bad : LET x == Ends[v - 1] + j - 1
                                 IN  x - BufferSize < b /\ b < x + BufferSize

Chosen    == ChapterCells(job.title, job.from, job.to)
CellBlocks(c) == c.first .. c.last

ChapterBlocks == job.kind = "chapters" =>
    /\ \A v, w \in 1 .. MaxFiles :
          \A i \in 1 .. Len(files[v]), j \in 1 .. Len(files[w]) :
             /\ v < w \/ (v = w /\ i < j)
             /\ Stale \notin {files[v][i], files[w][j]}
             => files[v][i] < files[w][j]
    /\ \A v \in 1 .. MaxFiles : \A i \in 1 .. Len(files[v]) :
          files[v][i] # Stale =>
             \E c \in 1 .. Len(Chosen) : files[v][i] \in CellBlocks(Chosen[c])

\* Which blocks are copied.  A block of a mirrored VOB is given up only for a bad block
\* less than a buffer away, and never when reading is to be aborted: "you normally want
\* to skip the defect sectors" (main.c, 143-146).  What is copied of some chapters are
\* sectors of their cells, each at most once and in the order of the disc, however the
\* cells are ordered in the title and whatever is read again at the seam of two VOBs.
BlocksCopied == BlankNearBad /\ ChapterBlocks

\* The copy ends.
Terminates == <>(pc \in {"done", "failed"})

===============================================================================
