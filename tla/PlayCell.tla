------------------------------- MODULE PlayCell --------------------------------
(***************************************************************************)
(* play_cell (vamps/play_cell.c): a cell of a title is read by its         *)
(* navigation packs and written to standard output, for vamps to read.     *)
(*                                                                         *)
(* Each navigation pack says how many sectors of its VOBU follow it and    *)
(* how far it is to the next one.  With -i what cannot be read is          *)
(* replaced: a sector by a dummy video pack, a navigation pack by one made *)
(* up after a scan for the next.  With -g vamps is told how many sectors   *)
(* between two VOBUs are not of this cell.                                 *)
(*                                                                         *)
(* The sectors of a cell are 1, 2, ...; a sector is                        *)
(*   "nav"    a navigation pack of the cell   "av"   audio, video or other *)
(*   "alien"  one of another, interleaved cell       of a VOBU of the cell *)
(*   "gap"    audio or video of another cell  "sys"  a system header only  *)
(***************************************************************************)
EXTENDS Integers, Sequences

CONSTANTS Jobs,        \* cells, their bad sectors and the options
          Scr,         \* system clock reference of every sector, in units of
                       \* SCR_MIN_FEED, the time a sector takes at least
          MaxRetries,  \* max_read_retries
          BufSecs,     \* BUF_SECS
          Width,       \* 2^16: a cell gap is reported in two bytes
          Stack        \* what an uninitialised vobu_ea may hold

Own   == {"nav", "av"}
Kinds == Own \cup {"alien", "gap", "sys"}

\* A cell begins with a navigation pack, its VOBUs are contiguous.
IsCell(c) == /\ Len(c) > 0 /\ c[1] = "nav"
             /\ \A s \in 1 .. Len(c) : c[s] = "av" => c[s - 1] \in Own

ASSUME PlayCellAssumption ==
    /\ MaxRetries \in Nat /\ BufSecs \in Nat \ {0} /\ Width \in Nat \ {0}
    /\ Stack \subseteq Nat /\ Stack # {}
    /\ \A j \in Jobs :
          /\ j.cell \in Seq(Kinds) /\ IsCell(j.cell) /\ Len(j.cell) < Width
          /\ j.bad \cap j.flaky = {}
          /\ j.ignore \in {"yes", "no"} /\ j.report \in {"yes", "no"}
          /\ \A s \in 1 .. Len(j.cell) : Scr[s] \in Nat
          /\ "alien" \notin {j.cell[s] : s \in 1 .. Len(j.cell)} =>
                \A s \in 2 .. Len(j.cell) : Scr[s] >= Scr[s - 1] + 1

VARIABLES
    job,      \* the cell, its sectors that can (sometimes) not be read, options
    pc,       \* nav, scan, vobu; done, cutoff (by an error), fatal
    sector,   \* sector
    offs,     \* offs, of play_cell() and of the scan
    left,     \* nsectors
    next,     \* next_vobu, 0 for SRI_END_OF_CELL
    tries,    \* i, of the loops that retry
    scr,      \* last_scr
    ea,       \* dsi.dsi_gi.vobu_ea
    eafrom,   \* "disc", "scan", or "stack": dsi is an uninitialised local
    trust,    \* "ok" until a vobu_ea from the stack has been used
    told,     \* sectors accounted for to vamps: packs written, gaps reported
    out       \* the packs written

vars == <<job, pc, sector, offs, left, next, tries, scr, ea, eafrom, trust,
          told, out>>

cell == job.cell
Last == Len(cell)                                       \* last_sector

\* A read may succeed, or fail; of a flaky sector, and of one behind the cell,
\* either.
Reads(s) == s \notin job.bad
Fails(s) == s > Last \/ s \in job.bad \cup job.flaky

Pack(what, s, t) == [what |-> what, sector |-> s, scr |-> t]
Invalid == Pack("invalid", 0, 0)

\* What a navigation pack says: vobu_ea and next_vobu.
Body(s)     == IF cell[s] = "nav" THEN "av" ELSE "gap"
VobuEnd(s)  == CHOOSE n \in 0 .. Last - s :
                 /\ \A t \in s + 1 .. s + n : cell[t] = Body(s)
                 /\ s + n < Last => cell[s + n + 1] # Body(s)
NextVobu(s) == LET later == {t \in s + 1 .. Last : cell[t] = cell[s]}
               IN  IF later = {} THEN 0
                   ELSE (CHOOSE t \in later : \A u \in later : t <= u) - s

\* fwrite() of some packs, which may fail.
Emit(packs, counted, to) ==
    \/ out' = out \o packs /\ told' = told + counted /\ pc' = to
    \/ pc' = "fatal" /\ UNCHANGED <<out, told>>

Init == /\ job \in Jobs
        /\ pc = "nav" /\ sector = 1 /\ offs = 1 /\ left = 0 /\ next = 0
        /\ tries = 0 /\ scr = 0 /\ ea = 0 /\ eafrom = "stack" /\ trust = "ok"
        /\ told = 0 /\ out = <<>>

-------------------------------------------------------------------------------
(***************************************************************************)
(* read_nav_pack()                                                         *)
(***************************************************************************)
ReadNav == /\ pc = "nav" /\ Reads(sector) /\ cell[sector] \in {"nav", "alien"}
           /\ ea' = VobuEnd(sector) /\ eafrom' = "disc"
           /\ left' = VobuEnd(sector) /\ next' = NextVobu(sector)
           /\ scr' = Scr[sector]
           /\ offs' = 1 /\ tries' = 0
           /\ Emit(<<Pack("sector", sector, Scr[sector])>>, 1, "vobu")
           /\ UNCHANGED <<job, sector, trust>>

\* The scan has found a system header that is not part of a navigation pack.
NotNav == /\ pc = "nav" /\ Reads(sector) /\ cell[sector] \notin {"nav", "alien"}
          /\ pc' = "fatal"
          /\ UNCHANGED <<job, sector, offs, left, next, tries, scr, ea, eafrom,
                         trust, told, out>>

RetryNav == /\ pc = "nav" /\ Fails(sector) /\ tries < MaxRetries
            /\ tries' = tries + 1
            /\ UNCHANGED <<job, pc, sector, offs, left, next, scr, ea, eafrom,
                           trust, told, out>>

\* An invalid sector is written "to have Vamps fail", or errors are ignored.
NavLost == /\ pc = "nav" /\ Fails(sector) /\ tries = MaxRetries
           /\ \/ /\ job.ignore = "no"
                 /\ pc' = "fatal" /\ out' = Append(out, Invalid)
                 /\ UNCHANGED <<offs, ea, eafrom>>
              \/ /\ job.ignore = "yes"
                 /\ pc' = "scan" /\ offs' = 1
                 /\ ea' \in Stack /\ eafrom' = "stack"
                 /\ UNCHANGED out
           /\ UNCHANGED <<job, sector, left, next, tries, scr, trust, told>>

\* The scan passes a sector that cannot be read in any of the tries, or a pack
\* of audio or video, up to which the VOBU then is taken to reach.
ScanPack ==
    /\ pc = "scan" /\ sector + offs <= Last
    /\ \/ Fails(sector + offs) /\ UNCHANGED <<ea, eafrom>>
       \/ /\ Reads(sector + offs) /\ cell[sector + offs] \in {"av", "gap"}
          /\ ea' = offs /\ eafrom' = "scan"
    /\ offs' = offs + 1
    /\ UNCHANGED <<job, pc, sector, left, next, tries, scr, trust, told, out>>

\* Mutant: the VOBU reaches up to the navigation pack, including it.
ScanFoundIncluded ==
    /\ pc = "scan" /\ sector + offs <= Last
    /\ Reads(sector + offs) /\ cell[sector + offs] \in {"nav", "alien", "sys"}
    /\ next' = offs /\ left' = offs
    /\ trust' = IF eafrom = "stack" THEN "gone" ELSE trust
    /\ scr' = scr + 1
    /\ offs' = 1 /\ tries' = 0
    /\ Emit(<<Pack("nav", sector, scr + 1)>>, 1, "vobu")
    /\ UNCHANGED <<job, sector, ea, eafrom>>

\* The next navigation pack, or what looks like one; insert_nav_pack().
ScanFound ==
    /\ pc = "scan" /\ sector + offs <= Last
    /\ Reads(sector + offs) /\ cell[sector + offs] \in {"nav", "alien", "sys"}
    /\ next' = offs /\ left' = ea
    /\ trust' = IF eafrom = "stack" THEN "gone" ELSE trust
    /\ scr' = scr + 1
    /\ offs' = 1 /\ tries' = 0
    /\ Emit(<<Pack("nav", sector, scr + 1)>>, 1, "vobu")
    /\ UNCHANGED <<job, sector, ea, eafrom>>

ScanEnd == /\ pc = "scan" /\ sector + offs > Last
           /\ pc' = "cutoff"
           /\ UNCHANGED <<job, sector, offs, left, next, tries, scr, ea, eafrom,
                          trust, told, out>>

(***************************************************************************)
(* read_blocks() and the loop over a VOBU                                  *)
(***************************************************************************)
\* Mutant: the count stays the same for all retries.
WantedAll == 1 .. (IF left < BufSecs THEN left ELSE BufSecs)

\* "set sector count to 1 for all retries"
Wanted == 1 .. (IF tries > 0 THEN 1 ELSE IF left < BufSecs THEN left ELSE BufSecs)
Chunk  == {sector + offs + n - 1 : n \in Wanted}

CopyBlocks ==
    /\ pc = "vobu" /\ left > 0 /\ \A s \in Chunk : Reads(s)
    /\ LET start == sector + offs - 1
           n     == CHOOSE m \in Wanted : \A k \in Wanted : k <= m
       IN  /\ Emit([i \in Wanted |-> Pack("sector", start + i, Scr[start + i])],
                   n, "vobu")
           /\ scr' = Scr[start + n]
           /\ offs' = offs + n /\ left' = left - n
    /\ tries' = 0
    /\ UNCHANGED <<job, sector, next, ea, eafrom, trust>>

\* Mutant: the tries are not counted.
RetryBlocksAgain ==
    /\ pc = "vobu" /\ left > 0 /\ \E s \in Chunk : Fails(s)
    /\ tries < MaxRetries + 1
    /\ tries' = 1
    /\ UNCHANGED <<job, pc, sector, offs, left, next, scr, ea, eafrom, trust,
                   told, out>>

RetryBlocks ==
    /\ pc = "vobu" /\ left > 0 /\ \E s \in Chunk : Fails(s)
    /\ tries < MaxRetries + 1
    /\ tries' = tries + 1
    /\ UNCHANGED <<job, pc, sector, offs, left, next, scr, ea, eafrom, trust,
                   told, out>>

\* insert_dummy_pack() instead of the sector, or an invalid one and the end.
BlockLost ==
    /\ pc = "vobu" /\ left > 0 /\ \E s \in Chunk : Fails(s)
    /\ tries = MaxRetries + 1
    /\ \/ /\ job.ignore = "no"
          /\ pc' = "fatal" /\ out' = Append(out, Invalid)
          /\ UNCHANGED <<offs, left, tries, scr, told>>
       \/ /\ job.ignore = "yes"
          /\ Emit(<<Pack("dummy", sector + offs, scr + 1)>>, 1, "vobu")
          /\ scr' = scr + 1
          /\ offs' = offs + 1 /\ left' = left - 1 /\ tries' = 0
    /\ UNCHANGED <<job, sector, next, ea, eafrom, trust>>

(***************************************************************************)
(* The loop over the cell: insert_private_2_pack(), on to the next VOBU    *)
(***************************************************************************)
\* Mutant: the cell's last sector is not counted.
CellGapShort == (IF next = 0 THEN Last - sector ELSE next) - offs

CellGap == (IF next = 0 THEN Last - sector + 1 ELSE next) - offs

EndVobu ==
    /\ pc = "vobu" /\ left = 0
    /\ LET to == IF next = 0 THEN "done" ELSE "nav"
       IN  \/ /\ job.report = "yes" /\ CellGap # 0
              /\ Emit(<<Pack("gap", 0, scr)>>, CellGap % Width, to)
           \/ /\ ~(job.report = "yes" /\ CellGap # 0)
              /\ pc' = to /\ UNCHANGED <<out, told>>
    /\ sector' = sector + next /\ tries' = 0
    /\ UNCHANGED <<job, offs, left, next, scr, ea, eafrom, trust>>

Terminated == pc \in {"done", "cutoff", "fatal"} /\ UNCHANGED vars

Step == \/ ReadNav \/ NotNav \/ RetryNav \/ NavLost
        \/ ScanPack \/ ScanFound \/ ScanEnd
        \/ CopyBlocks \/ RetryBlocks \/ BlockLost \/ EndVobu
Next == Step \/ Terminated

\* One process, which runs.
Spec == Init /\ [][Next]_vars /\ WF_vars(Step)

-------------------------------------------------------------------------------
(***************************************************************************)
(* Properties                                                              *)
(***************************************************************************)

\* The cell is not interleaved with another one.
Alone == "alien" \notin {cell[s] : s \in 1 .. Last}

\* No sector is written twice and none before an earlier one, whether itself or
\* a pack in its place.
SectorsForward == trust = "ok" =>
    \A i, j \in 1 .. Len(out) :
       i < j /\ {out[i].what, out[j].what} \subseteq {"sector", "dummy", "nav"} =>
          out[i].sector < out[j].sector

\* "SCR moves backward" (play_cell.c, 6) never: a pack in place of one that could
\* not be read is dated after the one before it and not after the next.
ScrForward == (trust = "ok" /\ Alone) =>
    \A i, j \in 1 .. Len(out) :
       i < j /\ "invalid" \notin {out[i].what, out[j].what} =>
          out[i].scr <= out[j].scr

\* The packs of a cell come out in order and in time, also when navigation packs are
\* skipped or made up, the buffer is smaller than a VOBU or another cell is
\* interleaved - unless a vobu_ea that nothing has set was used.
InOrder == SectorsForward /\ ScrForward

\* "report cell gaps to Vamps" (play_cell.c, 616): packs written and gaps reported
\* add up to the sectors gone through, so that vamps' count of what it has read
\* of the program stream stays right, read errors or not.
Accounted == (job.report = "yes" /\ trust = "ok") =>
    /\ pc = "nav"  => told = sector - 1
    /\ pc = "done" => told = Last

\* A sector is replaced only if it could not be read alone, and none that can be
\* read is left out of a cell that is read to its end, wherever in its VOBUs
\* others are bad.
Salvaged ==
    /\ \A i \in 1 .. Len(out) :
          out[i].what \in {"dummy", "nav"} => Fails(out[i].sector)
    /\ (pc = "done" /\ trust = "ok" /\ Alone) =>
          \A s \in 1 .. Last : cell[s] \in Own /\ ~Fails(s) =>
             \E i \in 1 .. Len(out) : out[i].what = "sector" /\ out[i].sector = s

\* The cell ends.
Terminates == <>(pc \in {"done", "cutoff", "fatal"})
===============================================================================
