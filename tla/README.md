# A verification development for wdvdtools

wdvdtools is a collection of programs that read, copy and shrink DVDs: `vamps`
(with `play_cell`), `dvdbackup`, `vobcopy`, `lsdvd`, `subtitleripper`,
`regionset`, and the library `libdvdread` that most of them read with.  This
directory holds TLA+ models of the parts where the order of events, the sizes of
buffers and the failure of single steps decide whether the output is right,
configurations to check them with TLC, and proofs of what matters most for TLAPS.

To check everything: `tlc -workers 2 -config MCX.cfg MCX` for each run below
(`PROJECT.json` names the files), and `tlapm XProofs.tla` for each of the
proof modules.

## Inventory

| component | state it keeps | operations | what is hard | what makes it correct | status |
|---|---|---|---|---|---|
| vamps, hand-over (`vamps.c` requant, `requant.h` LOCK) | rqt_rcnt, rqt_wcnt, request fields, two mutexes, two condition variables | a request, a reply, the refill in the middle of a header | two threads, two mutexes for one pair of counters, spurious wake-ups | it acts as a subroutine: no stale reply, no lost wake-up, buffers never shared | modelled |
| vamps, stream (`vamps.c` lock .. vaporize) | rbuf, wbuf and their pointers, the GOP's length, pack counters | leader, phase 1, phase 2, trailer | sizes at limits, short reads, a sector looked at twice, packs in any mixture | an ordered selection of the input; nothing lost, all wanted packs there | modelled |
| vamps, packets (`vamps.c` check_/gen_video_packet) | the lengths inside one sector | refill a packet with fewer bytes | 0 to 7 missing bytes | a sector is full and accepted by the same program | modelled |
| play_cell | the cell's position, the last SCR | navigation walk, block reads with retries, scan for the next navigation pack | read errors in the middle of a unit | packs in order and in time, nothing readable lost; packs and gaps add up | modelled |
| dvdbackup, mirror | offset, remaining, the output file | copy a VOB block by block, padding errors | partial reads, three strategies, failed writes | every VOB has the disc's layout | modelled |
| dvdbackup, chapters | the cells left, the current VOB, its size | choose, sort, trim, copy, roll over | overlapping and unordered cells, the 1 GB limit | the sectors of the chapters, once, in order | modelled |
| dvdbackup, the whole run | the reader, open files, arrays sorted in parallel, the target directory | options, the guess of the main feature, IFO/BUP, menu and title copies | a failure between any two of them, files of an earlier run | success means a complete copy; the reader is closed once, and it is known which files are not | modelled |
| vobcopy | position, parts, the .partial file | rip with retries, rename, mirror a directory | retries, interrupted runs, loss of power, what the user answers | nothing of before is lost without consent; what has its name is on the disk | modelled |
| libdvdread, VOB reads (`dvd_reader.c`, `dvd_input.c`) | the sizes of up to nine files | a block read over the seam of two files | the first part is short | the blocks asked for, or a count of those that are | modelled |
| libdvdread, IFO (`ifo_read.c`) | tables, reference counts, the BUP flags | open with fall-back, shared PGCs and tables, close | a failure in any of a dozen tables | each object is freed once; a damaged IFO gives way to its BUP | modelled |
| libdvdread, lookup, files, keys (`dvd_udf.c`, `dvd_reader.c`) | the cache of lookups, open files, the copies of small files, which key the device has | find, open, stat, block and byte reads, seek | a failed read whose error counts as success, a key retrieved in the middle of an open | a lookup is right; data are read with their own key | partly |
| subtitleripper | the fragment buffer, the decoder, .sub and .idx, queues | assemble, decode, crop, write, read back | lost and reordered packets, alignment, blocks | a title shows its own picture; the index points where it says | partly |
| vamps, slices (`requant.c` 420-2656) | the headers read last, the scale and address written last, what was left out, the tables | recode or leave out a macroblock, keep or give up the slice | what is left out changes the address, the scale and the predictors of what follows | a decoder gets each macroblock in its place and with its own values, nearly | modelled |
| vamps, forecast (`vaporize`) | pack counters | the factor for the next GOP | floating point near zero | never switches off what it is to force | no |
| vamps, command line and injections | a status file | read at the start, written at the end | a run that dies | - | no |
| libdvdread, NAV parsing, printing, MD5, logging | none | straight-line copies, text, a hash | - | - | no |
| srttool, lsdvd, regionset | none to speak of | text conversion, printing, two ioctls | - | - | no |

How they interact: through pipes (`play_cell | vamps`; `play_cell` tells
`vamps` of sectors it left out by a "Vamps-data" pack), through files (the
`.sub` and `.idx` files, the `.partial` file, the directory an earlier run of
`dvdbackup` or `vobcopy` left), and by calls of libdvdread.  Inside vamps the
main thread and the requantization thread share memory.  `PROJECT.json` lists
the hazards of this code with the line of each and the properties that watch it.

## Modules

| module | models | composed with |
|---|---|---|
| `VampsCall` | the subroutine that requant() pretends to be (abstract) | |
| `VampsHandoff` | both threads of vamps up to the bytes consumed and written | implements `VampsCall` |
| `VampsFilter` | the ordered selection of sectors that vamps promises (abstract) | |
| `VampsStream` | the main thread of vamps, sector by sector | implements `VampsFilter` |
| `VampsPacket` | one video sector and its rewriting, byte by byte | a video sector of `VampsStream`, whose units stand for its bytes |
| `VampsSlice` | the requantizer from start code to start code: headers, and slices macroblock after macroblock | its slices are what `VampsHandoff` calls `Slice` |
| `PlayCell` | a cell read VOBU by VOBU, with retries, the scan, made-up packs and gap packs | |
| `DvdRead` | DVDReadBlocksPath() over a set of VOBs, two kinds of reader | |
| `Dvdbackup` | mirroring and chapter extraction | on top of `DvdRead` |
| `MainFeature` | DVDGetInfo(): which title set is the main feature | |
| `Backup` | dvdbackup from its options to its exit code | uses `MainFeature`; a block copy is what `Dvdbackup` shows it to be |
| `Vobcopy` | vobcopy: one title or the directory, run after run | |
| `DvdIfo` | ifoOpen() and its variants, the tables, ifoClose() | |
| `DvdUdf` | where a file of a disc image lies, with the cache | |
| `DvdReader` | the reader of an image: open, stat, read, seek, keys, copies | on top of `DvdUdf` |
| `Spudec` | subtitle2pgm: assembly, control sequences, pictures, cropping | |
| `Vobsub` | subtitle2vobsub and vobsub2pgm over the same two files | the writer composed with the reader |
| `*Proofs` | the theorems about the module in their name; `VampsProofs` those about `VampsHandoff`, `VampsSlice`, `VampsStream` and `VampsPacket`, `SubtitleProofs` those about `Spudec` and `Vobsub` | |
| `MC*` | the instances that TLC checks | |

### VampsHandoff

`mpc` and `rpc` are the places of the two threads; a place is a point between
two operations on shared state.  `mutr`, `mutw` are the mutexes, `rcnt`, `wcnt`
are rqt_rcnt and rqt_wcnt.  A thread in pthread_cond_wait() is at `waitr` or
`waitw` and holds no mutex; a signal moves it to the lock operation by which the
wait ends, and `SpuriousMain`, `SpuriousRqt` do the same without a signal.
The code's loop `while (!rqt_wcnt)` is therefore `LockReply`, `TestReply`, and
back.  The recoding loop consumes `left` and produces `done`: a byte that is
copied or dropped as stuffing (`CopyByte`), a start code (`StartCode`), the
bytes of a header (`CopyHeader`, 1, 4, 5 or 8 of them) and a slice (`Slice`),
which comes out no longer than it was - `requant.c` falls back to the original.
A slice ends at a start code, at the latest at the sentinel: the bits of a slice are
read without LOCK, so that a damaged one could go on behind the GOP, which is not modelled.
When LOCK needs more than there is, the thread answers and asks (`Refill`).

Assumed: a GOP begins with a start code, is not empty, and is at least so long
that with the sentinel one peek succeeds (`HandoffAssumption`).

Fairness: the threads of a POSIX process that can run do run (weak); a thread
that wants a mutex gets it in the end although the other one may take it again
after each spurious wake-up (strong, on the four lock operations).  Spurious
wake-ups are never owed.  `Enter`, `Bypass` and `Exit` depend on the input and
are not fair.

### VampsStream and VampsFilter

A sector is a number and a kind; the buffers are counted in sectors.  `base` is
the distance of rptr from the start of rbuf, so that an overrun, which is an end
(`overrun`), can be told from a buffer that is full.  `vi`, `vo` count units of
elementary stream.  One action is one turn of the loop of vap_leader(),
vap_phase1(), vap_phase2() or vap_trailer(), or one read() by lock().  Ways to
end are `done`, `fatal` (fatal(), for a pack of no known kind or a read() or write()
that fails), `overrun`, and `hang` (requant() of nothing).
The forecast factor is a floating point figure, so `Shrink` may requantize or
copy any GOP.  The pack counters stop at `MaxCount`.

`VampsFilter` promises, of an orderly stream (`Orderly`: no padding or unknown
packs, read in whole sectors, written without an error, with a leader and GOPs that fit in rbuf), that each
sector is passed on or dropped as its kind says, in order, up to the end.  Of any other stream it promises nothing
(`Whatever`); `Selected` and the first half of `RoomForAll` are what still holds.

### VampsPacket

The lengths of one sector: optional header, video bytes, padding packet.
`Accepted` is what check_video_packet() lets pass.  Any accepted sector may be
refilled any number of times, as the output of vamps can be its input; that
ends when the header is longer than `MaxHeader` by stuffing.

### VampsSlice

A place is `scan` (between start codes), `macroblock` and `address` (the loop of
mpeg2_slice(), before a macroblock and before the address of the next), `flush`
and `ended`.  Headers come in any order, legal or not; `picture` is what the stream's
own picture is, to be compared with `picture_coding_type` and `ext`, which the code
keeps.  A macroblock is its modes (a set of flags), its scale and its blocks; a block
is a sequence of [run, level], as the code's tables of variable-length codes give it.
`Requantised`, `Saved` and `Flags` are what the code makes of them: levels divided by
`Requant` (the code fills tables by the same rule), the coefficient put back at the ends
of a row, the flag of the scale.  `h_offset`, `mb_add` and `mb_skip` are the code's
column, increment and what was left out.  Two decoders written from ISO/IEC 13818-2
(external) follow the original (`orig`) and the recoded slice (`seen`): column,
scale, and for each predictor how many differences it has added up.  Left open are the
stress factor (any larger scale may be tried), the lengths in bits (whether the
recoded slice is longer), and where an error is met.

The thread fills its tables before the first request has brought a factor
(`FillTables`), so they are always the ones that round.

### PlayCell

A sector is its number in the cell and one of five kinds; `VobuEnd` and
`NextVobu` are what a navigation pack says (vobu_ea, next_vobu).  The places are
`nav` (read_nav_pack()), `scan` (its search after a failure) and `vobu` (the loop
over the VOBU's sectors).  `ReadNav`, `CopyBlocks`, `BlockLost`, `ScanFound` and
`EndVobu` include the fwrite() that follows, which may fail.  `tries` counts the
turns of the retry loops; a `flaky` sector may be read in any of them.  Time is
in units of SCR_MIN_FEED.  The DSI is a local that nothing initialises: if no
pack is seen in the scan, `ea` is any value of `Stack`, and once it has been used
`trust` is "gone" and no property but `Terminates` and the bounds is claimed.
A scan that meets the cell's end leaves the rest out (`cutoff`).
Assumed: a cell begins with a navigation pack and its VOBUs are contiguous; a
gap is less than 2^16 sectors, as it is reported in two bytes; the SCRs of a cell
that is not interleaved (`Alone`) rise.  Of an interleaved one neither `ScrForward`
nor that all is there is claimed: the sectors of the other cell are left out by
design.  Fairness: one process, which runs (weak).

### DvdRead and Dvdbackup

A block is its number in the title VOBs, a file is a sequence of them, `Blank`
is a block of zeros and `Stale` a place in the buffer that no read has filled.
A medium is a reader and a set of bad blocks: read(2) loses the whole read,
libdvdcss (external) returns the blocks before the bad one.  A write may fail
after any part of its data.  For chapters the IFO's cells, program map and
chapter table are the input (`IsTitle` says of what form), and the exchange sort is
one action per comparison, of the cells i < j of `pair`.  A title has one PGC, as the comment in DVDMirrorChapters() also
assumes; cells lie within the VOBs; the target directory is empty at the start.
Fairness: one process, which runs (weak).

### MainFeature and Backup

`Backup` has the places of main() (`options`, `open`, `name`, `directories`) and
of what it calls (`files`, `ifo`, `writeIfo`, `writeBup`, `menu`, `vobs`, ...);
`set` and `vob` are the loop counters, `target` the directory with for each file
one of "none", "other" (not a plain file), "old" (whatever an earlier run has left),
"empty", "part", "whole" and "cells".  `streams` is the set of descriptors and IFO handles held, `reader` counts
DVDClose() calls, `info` is what DVDGetFileSet() found.  Each read and each write
may fail.  Of a title or of chapters it has what is opened, created and closed: the
IFO of the title (`OpenTitle`), a VOB of the target and, before the first one is written,
those of the disc (`CreateVob`), the cells up to the end of a VOB (`CopyCells`, which cells
is the subject of `Dvdbackup`).  `Released` says which files stay open: those of
each IFO and BUP that have been copied and, where the copying of cells was given up by a
failed write or a next VOB that could not be created, those of the disc.  The
descriptor of the device, which DVDGetTitleName() does not close, is not followed.
What the disc's files look
like to DVDFileStat() depends on luck (`Seen`): it leaves out what it could not
stat.  `MainFeature` is DVDGetInfo() with its exchange sort, the comparison of
sizes, of audio, subpicture and channel counts and of chapters; floating point
ratios are compared with integers multiplied out.

### Vobcopy

One run after another over the same directory (`runs`), of the same command line.
A file is its data and how much of it is synchronised (`synced`, -1 if it is not
there); `partial` and `final` are the names with and without ".partial".  The
places: `setup`, `path`, `partial` (have_access() of the .partial file, whose
question is `said`), `read` (rip_vob_file(): `CopySector`, `Retry`,
`SkipSector`), `sync`, `rename`, `move`; for -m also `listing`, `entry`, `info`.
`Interrupt` is a signal, the watchdog or loss of power at any time: what was not
synchronised may be gone; `Restart` is the next run.  A job carries what the
machine makes of the command line: the mount found or not, the space, the
directory as readdir() gives it.  Assumed, of the disc's format
(`FormatAssumption`): a file of a title set has one digit for its part, and no BUP
is empty.  Fairness: the process runs (weak); an
interruption and another run are not owed.

### DvdIfo

A table is read by its parts; a part is a set of sectors and its reading is
"read", "short" or "lost" - a failed read is a negative number that every caller
takes for success.  `pgcs` and `its` are the shared objects with their reference
counts (`refs`) and whether they are live; `todo` is the list of tables still to
be read, in the order of the code; `rel` what is being released.  After `died`
nothing is claimed: where the code's behaviour is undefined (a null pointer, an
object freed twice) the program may die or go on.  An IFO and its BUP have the
same contents.  Assumed of the contents of a title (`WellFormed`): the
mandatory tables are there, all parts lie inside the file, an entry of a table names a PGC of the title, and a table
has at most `MaxSrps` entries; copies may be cut off and damaged anywhere.

### DvdUdf and DvdReader

A place stands for a block, an ICB or an extent and is named by what lies there.
`find` is a lookup in progress, with a counter of the failed reads in it;
`avdp`, `partition`, `rooticb`, `pvd`, `dirs`, `maps` are the cache, which a failed
read can leave with what was not read.  `DvdReader` adds `files` (with start,
position, size, copy of a small file), `css_state`, `css_title`, the `key` the
device was last given, `call` (what waits for which lookup) and `last` (the
answer).  `wary` is off once the selection of a key failed, or a file was
opened at a wrong place after a failed read, as from there the device may have
another key.  The layout of extents is contiguous, as the
code takes it to be.  There is at least one title set and one part
(`ReaderAssumption`).

### Spudec

A unit is a subtitle as its author coded it: the width, the lines as runs of a
length and a pixel value, the lengths of its fragments, its control blocks, its
time.  `RunCode`, `LineCode` and `FieldCode` are the run-length code of the
standard (external); `CodeAt`, `OneRun`, `Turn` and `Decoded` decode it as the
program does, with `Aligned` lines and the two fields.  `Assemble` is
spudec_assemble() with its three decisions (time gone on, first fragment, another
one), `Commands` the commands of a unit in the order in which
spudec_process_control() comes by them, `Command` what each does, `CropBox` the
search for the box that is not background.  A fragment may be lost (`Lose`);
lengths read from the wrong place are `Garbage`.

A title that is ended only by the start of the next one gets the picture of that one's
packet, as the program decodes what is in the buffer when a title ends (spudec.c:179-182).
`PictureRight` therefore leaves out a title that one packet starts and another one ends,
and the title a packet writes after having ended an earlier one (`alone`); `EveryTitle`
says of all titles that they come, in order, once and at their times, and nothing of pictures.

Assumed of every unit (`SpudecAssumption`): the runs of a line cover it, and the
one that goes up to the end of the line is its last (`WellDrawn`); a fragment has
two bytes at least (`WellSent`), as spudec_assemble() looks at no less; the
commands say where the picture is before they show it (`Programmed`).  Of a disc
in order (`Orderly`) a unit starts one title at most, and time does not go back;
only `EveryTitle` needs it.

### Vobsub

`sub` is the file as a sequence of MPEG elements with sizes, `idx` the lines of
the index.  `OpenOut`, `Convert`, `CloseOut` are the writer, whose static
variables survive from one packet to the next; `OpenIn`, `ParseLine`,
`EndIndex`, `ReadElement`, `EndStream`, `GetNext` the reader, with or without
the index, over the whole file or one cut off.  A queue is its packets and
current_index: `Begun`, `Reached`, `Place` and `Taken` are what vobsub_open() does
with it for each packet of the file.

Assumed (`VobsubAssumption`): a fragment is not empty and fits into a block with
its headers, as it comes from a pack of a DVD.  That the index gives no time twice
(the end of `LinesPoint`) needs that time does not go back in a stream and
that a language is added once to the files that are kept (`OneEach`): the program
checks neither.  The milliseconds of a line come from doubles that are cut off
(vobsub.c:1169-1176), so that a time on a millisecond may be listed one too low (2.57 s
gives 569); which times these are is the constant `RoundedDown`, the same in all runs,
and `RoundTrip` is to a millisecond inclusive.

## Runs

| run | question | instance |
|---|---|---|
| `handoff` | do the threads implement a subroutine that returns? | GOPs of 5 and 11 bytes, three requests, headers of 1, 4, 5, 8 bytes, the code's own look-ahead 8 and sentinel 3 |
| `stream` | is the output the promised selection, with counters right, what holds of any input, and is every rewritten sector full and accepted? | orderly streams of up to 4 sectors of seven kinds, and of up to 7 with a GOP start first; every sequence of up to 5 sectors of five kinds with padding, unknown packs, reads and writes that fail; rbuf of 4 sectors, wbuf of 2, reads of up to 2; beside the empty stream, sectors of 48 bytes with headers of up to 12, all fills, repeated |
| `slice` | does a decoder get the same picture, nearly, and the slice whole? | pictures of two rows of four macroblocks with two blocks of up to two coefficients; two scale tables, three picture types; headers and errors in any order |
| `play_cell` | do packs and gaps add up, in order and in time, whatever can be read? | eight cells of up to 6 sectors and three VOBUs, empty and interleaved ones among them; every choice of up to 2 bad and 1 flaky sectors; all options; buffer of 2, one retry |
| `dvdbackup` | are mirrors images, and chapters ordered, with errors anywhere? | VOBs of 4 and 3 blocks, at most 2 bad blocks, both readers, all strategies; three cells of 1 or 4 sectors anywhere, in any order; buffer of 3, VOB limit of 4 |
| `backup` | does success mean a complete copy, and is the main feature plausible? | 13 824 pairs of disc and aspect ratio to guess of; two discs to copy with all actions, a directory that is new, old, half full or in the way, a failure at any step; command lines that are refused |
| `vobcopy` | is anything lost, out of order or named before it is on the disk? | thirteen command lines; titles of 3 and 2 sectors, one and two parts, a hard sector in a title and one in an IFO; two attempts; two runs, interrupted anywhere, every answer |
| `vobcopy_partial` | does a short copy keep its .partial name? - no | one command line of the above |
| `ifo` | are shared tables released once, does the BUP replace a damaged IFO? | the disc's IFO and a title set's with shared PGCs and shared language units, each copy missing, cut off anywhere or with one bad sector; two calls |
| `dvdread` | do lookups, sizes and keys stay right after a failed read? | an image with a title set, its menu and two VOBs of which a third is missing; two files open, cache of files of up to 3 blocks, one failing read, both key states, cache on or off |
| `spudec` | does each title show its own picture, also after a loss? | 250 small pictures, and long or wide ones whose runs have codes of every length; 256 sequences of three units with one to three fragments, one lost; gaps long and short; cropping off, 0 and 1; -e |
| `vobsub` | is what is written read back in order and in time? | one language of up to three fragments, or two of two, of the four sizes around which the padding changes; times equal, less than 1 ms and more apart, and a millisecond that comes out one too low; cut-off files |

Why the bounds are enough.  Two lengths of GOP tell a stale reply from the
right one, and three requests let a reply of the first meet the request of the
third.  5 bytes is the shortest GOP for which a peek of 8 succeeds with the
sentinel; 11 leaves room for a header of 8 and for a slice.  A read buffer of 4
sectors is filled exactly, wrapped, and left empty in streams of 5 to 7
sectors; wbuf of 2 is flushed inside every loop.  48 bytes per sector leave the
shapes of all three cases of gen_video_packet() and every amount missing from 0
to 7; the theorem covers 2048.  A row of four macroblocks has two that may be left
out between two that may not, so that skipped ones add up; two rows make a slice that
leaves its row and one that ends with the picture.  The blocks have a coefficient that
stays and one that becomes 0 before or behind it.  A
buffer of 2 sectors is smaller than, equal to and larger than a VOBU of the cells;
two bad sectors lose two navigation packs, one and a sector of the VOBU before or
behind it, or two of one VOBU.  A buffer of 3 blocks and VOBs of 4 and 3 make a
VOB end inside and at the end of a buffer and a cell cross the seam; the cells'
lengths of 1 and 4 are those with nothing, and with exactly one buffer, to copy.
For vobcopy a second run is what meets the files of a first one, interrupted or
not; a title of 3 sectors has a sector before, at and behind the hard one; two
attempts make a sector that is read by the last one, and one that is not.  In an
IFO a table is cut off before its head, between head and body, or not at all, so
a length for every sector is every case; two calls let the BUP flag of the one
meet the other.  In the image one failing read decides each cache entry once; two
files, one open while the other is opened, retrieve the keys in between.  Three
subtitles are one that is damaged, one that is misread for it, and one that must
be right again; the pictures have all runs of up to five pixels with a change of
colour, of an odd and an even number of code units, which is what alignment
depends on.  2017, 2020 and 2024 bytes fill a block up to the padding that does
not fit, fits exactly, and does fit; two fragments already share a millisecond.

A deadlock is looked for in every run but `ifo`, `spudec` and `vobsub`, whose
programs end.

Every property of a passing run comes with a mutant of the code (an operator
beside the definition it replaces, `PROJECT.json` "mutants") under which TLC
finds it violated: a stale counter, a wait without a second test, a missing
signal, a lost flush, a wrong index, an amount of padding taken from the wrong
figure, a reference not counted, a key chosen by the wrong state, and the like.

## What is proved

All of it holds for every value of the constants that meets the modules' named
assumptions.

*VampsProofs*, of the hand-over (`Invariance`, `TypeCorrect`, `Exclusion`, `Replies`,
`Refinement`).  `IInv` is inductive.  Mutual exclusion of the buffers is
not, by itself: that rqt takes a request only when main waits follows from what
has become of the request (`RequestInv`: pending, being worked on with nothing
pending, or answered and not yet read), which needs the mutexes to say what they
protect (`MutexInv`) and an answer to be more than zero (`OutputInv`: a GOP whose
bytes have begun to go has output).  From it follow `TypeOK`,
`BuffersExclusive`, `ReplyIsOurs` and that every step is a step of `VampsCall`
or a stutter.

Of the stream (`Selection`, `RoomToWrite`, `NeverOverrun`, `RoomEverywhere`,
`ForecastCounts`, `FilterRefined`, and for `VampsPacket` `PacketInvariance`), for
all streams and buffers.  The first is carried by a decomposition of what has been
written into what each sector worked off has contributed, which every copying or
skipping action extends by one sector.  `RunInv` says for each phase which sectors have
been read (`Pointers`), that the leader has no sequence header (`Leader`), and that a GOP
begins with one and has no other (`Gop`).  From the former two follows that lock() stays
inside rbuf (`InBuffer`), from the last that a read() of nothing in vap_phase1() is the
end of an orderly stream and not a full buffer, and so that every step is a step of
`VampsFilter` or a stutter.  That the requantized video of a GOP has room in its sectors
(`EsPlaced`) is carried by `EsInv` with partial sums (`Units(s)`, the units in the first
sectors of a stream): what has been gathered is the sum over the GOP's
sectors, and what is left to place is no more than the sum over those not yet
reached.  `CountInv` says of every phase what the pack counters make of the
sectors seen (`RestUpTo`); `ForecastCounts` has the hypothesis `Below`, that no counter has
stopped at the model's bound.  Of a packet `PacketTypeOK`, `Rewritable` and
`FillsUp` together are inductive.

Of the slices it has `SamePredictions`, `SlicesAreWhole`, `HeadersAreOwn` and `Recodes`,
for every size of picture, scale table and macroblock.  `Together` says that the two
decoders agree when nothing is pending (`mb_skip` = 0), and otherwise are apart by what
is pending, which has reset all predictors of the original's decoder, as skipping it will
those of the other (`ComeTogether`).  `RowInv` couples the column of the code with that
of the decoder, by which nothing is pending at the end of a row.  `Recodes` rests on
lemmas on blocks: their places rise (`PlacesRise`), the list of what stays is in order and
has all that does not become 0 (`StayingOf`), the runs told anew add up to the same places
(`RequantisedOf`), and a level from either table is within a step (`TableNear`, by
`Quotient`).  `ScaleInv` says that the recoder's last scale is the decoder's, whatever
was dropped or written without one.

*PlayCellProofs* (`GapsAddUp`, `PacksInOrder`, `OnlyBadIsLost`): `Accounted`, `InOrder` and
`Salvaged`, for all cells, all patterns of failures and all buffers.  `AInv` says where
in a VOBU the sum stands (`Sum`), that the VOBU and the gap behind it end where the
next begins (`Fits`), and that the scan takes a VOBU to end before the navigation pack
found (`Scanned`).  Two lemmas say that what a disc's navigation packs tell has this
form.  For the other two `OInv` says how far the cell has been gone through
(`Passed`) and that what has been written is behind that, in order (`Sectors`) and in
time (`Times`), that the SCR remembered is not after the sector to come (`Clock`), that
what has been passed and can be read is written (`Kept`), that only failed sectors are
passed by the scan (`Lost`), and that none is to be read between a VOBU and the next
(`Bare`).

*DvdbackupProofs* (`MirrorInPlace`, `MirrorWhole`, `RightBlocksCopied`).  `MirrorInv` couples the
position in the disc with the length of the file: in VOB v, offset = Ends[v-1] +
Len(files[v]) and offset + remaining = Ends[v].  Its lemmas say what ReadBlocks()
returns inside one VOB (a run of blocks from the offset, never more than asked,
with no holes).  `InPlace` and `WholeVobs` follow, and that padding is written only for
a block less than a buffer away from a bad one (`Nearness`).  For chapters `ChapterInv`
has the invariant of the exchange sort (`SortedUpTo`: what is before the i-th cell is sorted,
and a greatest one is at i, or at i - 1 until j has come that far), which is not the one that
the loops suggest; that cells cut to their seams follow each other (`Lined`);
that what is copied is of a chosen cell (`OfChosen`) and lies behind the position
(`Behind`).  A read over the seam of two files is a run with holes (`ReadRun`), which
the order survives.

*VobcopyProofs* (`NamedAreSynced`, `AllAccounted`, `NothingWithoutConsent`, `MirrorsAreOwn`).  For every
disc, command line and number of runs.  `NamedIsSynced` needs to know that at the places where a file
is renamed all its data are synchronised (`Synced`) and that what is being written
is there (`Opened`); `Accounted` that a sector passed over has been tried
(`Tried`) and that the file is opened empty.  `Consent` follows from what the program
knows between a question and the step it was asked for (`Asked`): without a reply the
place that is about to be written to is free, and every other step only adds to a file.
`MirrorOwn` is carried by `MirrorInv`: from the listing to the renaming the source, its
first sector, the buffer of an IFO and the file belong to the entry; it
uses `FormatAssumption`.

*DvdIfoProofs* (`RefsAreCounted`, `OpensRightly`), for every disc, damaged anywhere, and every
well-formed content.  `RefInv` says that each count is the number of places that
refer to the object, as the cardinality of the set of these places (`Tallied` for the tables of
PGCs, `Shared` for the PGCs in them), that all indices are those of objects (`Linked`),
which references there are between the parts of an open and of a close
(`Handle`), and that no table is read twice (`Plan`).  A count changes as a set of places
gains or loses one.  `HeadInv` says that a mandatory table is still to be read
or has its head; `CopyInv` says of each way to give up a copy that this copy is
damaged.  `OpensRightly` has the hypothesis `FlagsApart`, that no two titles of the
disc share a BUP flag: without it the theorem is false, as title 33 is read from
its BUP only once title 1 has been.

*DvdReaderProofs* (`LookupsAreRight`, `CopyAlwaysCovers`, `KeyIsAlwaysOwn`, `AnswersAreRight`).
`UdfInv` is a list of what every cache entry may be (`CacheInv`) and, by the step of a lookup, of what
its variables hold as long as it has met no failed read (`FindInv`).  The theorem
is for any set of broken entries and any number of failures, while the run has
an image without broken entries and one failure.  `CopyCovers` is that no file's
copy is kept when the file is taken to be longer.  `KeyIsOwn` is carried by `KeyInv`: no
VOB is open while the keys are still to be retrieved, which moves the key behind
css_title's back, and afterwards the selected key is that of css_title.  `RightAnswer` is
carried by `Stages`: at each stage of a call in which no read has failed, what
has been added up and the parts still to be asked for are the title.  It has the
hypothesis `NoneBroken`, that every file entry of the image is sound.

*BackupProofs* (`FeatureIsRight`, `OnlyTheseStayOpen`, `SuccessIsComplete`, `NothingLeftBehind`), for
every disc, command line and target directory of `BackupAssumption`: which says that a
disc has a title set and a title, what the sizes of its files may be, that counts are
not negative, and what can be in the target directory.  `FeatureRight`
is a fact about the analysis: the sort does not only order its array, it moves each
title set together with its figure (`SortedOf`, by the smallest entry's way through the
passes: `Passed`); the comparison of sizes is 2x < 3y (`SimilarOf`); two versions take the first two
places by size and by chapters (`TopTwo`), and are first by streams (`AllFound`).
The others follow from `Known`, which says what holds at each stage of the run.  While files are copied
(`Frontier`) the title sets before `set` are complete, those behind it are as they were
before, and of `set` nothing is changed behind something incomplete (`Ordered`); `Stage` says how
far each file has come, and the open files are those a complete BUP has left
open (`Held`) and those of the copy that is running (`Running`).  While cells are copied
(`CellCopy`) no IFO has been, and what is open is the IFO of the title, the VOB that is
being written and, once one has been begun, the VOBs of the disc.

*SubtitleProofs*, of subtitle2pgm (`ForgetsTheLost`, `PicturesAreRight`, `TitlesAreWritten`), for
every stream, picture and loss.  `AssembleInv` says what the buffer holds when nothing is
missing (`AtHand`): the first fragments of the unit that is read, none if there are
none.  The picture is followed from the code to the pixels: where in the nibbles each run is
(`LineCodeIs`, `FieldIs`: a line begins behind the ones before it of its field, on a
whole byte), that `CodeAt` tells its length and value from there (`RunRead`, by the
four lengths of a code), and that the loop, in front of run k of line y, has drawn all that
is before it and has the positions of both fields (`Reading`); an induction over
its turns (`Progress`) ends with the picture complete, as each turn gets one pixel on at
least.  `PictureInv` carries that through the commands of a unit, and the box of each title
(`BoxRight`).  `TitlesInv` says that what has been written are the titles of the units
read, without the one that is open (`Told`), which the next start or stop adds;
it has the hypothesis `Orderly`, under which the run is made too.

Of the VobSub files (`LinesAlwaysPoint`, `ReadsBack`), for all runs of the writer.
`WriterInv` says that the .sub file is the blocks written, 2048 bytes each (`FileRight`),
that a line of the index stands for one of them (`IndexRight`), and what the static
variables know of the last one (`Writing`).  `TimesInv` says that the
times of a language rise in the index; it has the hypothesis `OneEach`.  For
reading, `ReaderInv`: while the index is read, each queue holds the lines of its
language so far (`Listing`); while the .sub file is read up to some block, the first
packets of a queue hold the blocks of its language up to there, in order, and
the others wait for blocks behind it (`Filling`, `Awaits`), which is why the scan for
the packet to fill never passes one that is still wanted; times are off by at most a
millisecond, and so is the difference that is remembered for a packet without a
line (`Timed`).  `ReadsBack` needs no hypothesis on times: it holds of
streams in which time goes back, which the runs do not have.

Every invariant that a passing run checks is proved.  Only model-checked is liveness
(`Terminates`, `RipEnds`, and the fairness part of the two refinements), which the
prover does not treat.

## Where code and documents differ

`vobcopy_partial` is the one disagreement with a run of its own: every copy is
renamed, also one that is too short (vobcopy.c:801), where the README says that
"the .partial will stay to indicate that something is wrong".  While modelling
these were seen as well; the models follow the code:

- vamps.c:586 says the sentinel "ensures for the requant thread to stop at this GOP's
  end"; the loop of requant.c:2384 goes on past it, into what lies behind, before it asks.
- vamps.c:46 has "support for mere padding packets"; vamps.c:786 checks one and
  does not move past it, so that it is looked at for ever.
- requant.c:61 says of the tables that round to the nearest that "this is disabled"
  (max_alt_table is 0.00), but requant.c:2336 compares fact_x while it is still 0.0, so
  that they are always used; i_factor, p_factor and b_factor (2271-2323) are those of a
  factor of 1 for the same reason.
- vamps.c:381 promises the next `size` bytes in the buffer; with a GOP as long as rbuf
  read() is called for 0 bytes (vamps.c:399), which counts as the end of the stream.
- dvdbackup.c:279 takes the difference of a cell's inclusive sectors for its length, so
  its last sector is left out, where readme.md:92 says "all sectors that belongs to the
  title" are backed up.
- dvd_reader.c:1352 promises "the number of blocks read"; at the seam of two files
  (1417) a short first part and the whole second one are added up, with a hole between.
- README.subtitle2pgm:73 has -e extract only n subtitles; subtitle2pgm.c:410 compares for
  equality after each packet, and a packet that writes two titles jumps past n.
- ifo_read.h:34 says an IFO is "completely parsed"; a read that fails leaves zeros
  behind and is taken for success.
- dvd_udf.c:975 uses a cached descriptor that a failed read filled (911-912).

What the models of libdvdread, vobcopy and dvdbackup show of their code, as facts
the properties are stated around:

- libdvdread: TT_SRPT and FP_PGC are freed twice on some failures; a PGC that was not
  read is looked up again through a null pointer (ifo_read.c:1925); the BUP flags of
  titles 32 apart are one bit (dvdread_internal.h:42); ifoOpenVMGI() does not try the
  BUP of a missing IFO.
- vobcopy: mirror mode never checks the space; the size of a title set is looked up
  under the number of the title; "[o]verwrite" stands for all files that follow; the
  first two directory entries are taken for "." and ".."; a failed read of an IFO
  writes the buffer of before, so what follows moves; get_device()'s test of mtab is
  inverted (dvd.c:243).
- dvdbackup: a disc of few title sets has arrays read past their end while they are
  sorted (659-664); a title set's number is used as an index of a sorted array
  (665-669); IFO and BUP are emptied before the disc is read (1169-1188); what cannot
  be stat'ed is left out of the copy (1470, 1494); an IFO and BUP that have been
  copied leave their three files open (1253); a write of cells that fails (301-305), or a
  next VOB that cannot be created (324-328, with the buffer), leaves the VOBs of the disc
  open; DVDGetTitleName() does not close the device whose title it has read (1305-1345); a VOB 1 of no length hides the others (958); VOBs above 10
  of an earlier run stay (226).

## Not modelled

- The forecast's floating point (vamps.c 1212-1239) and the stress factor of the
  requantizer (getNewQuant): neither TLC nor the provers have their rounding, and their
  results are choices in the models.  Growing of the video buffers.
- Of the requantizer the tables of variable-length codes and the bit buffers: how many
  bits a slice has is a choice.  Saturation at the largest level that has a code.  Of a
  slice that begins in the middle of a row or leaves it, `WholeSlice` says nothing: its
  first macroblock may be left out (requant.c:2053), and DVD video has none.
- Command lines and the injections file of vamps: straight-line, by one thread.
- Opening of discs by path (findDVDFile, DVDOpenFilePath, DVDOpenVOBPath,
  DVDFileStatVOBPath), the choice of a drive in DVDOpenCommon(), DVDISOVolumeInfo():
  what they look up is the host's file system.  Reading past the end of an IFO of an
  image, where the sector behind is another file's.
- NAV packets, printing, MD5, logging: no state whose order could go wrong.
- srttool, lsdvd, regionset: text in, text out, or two ioctls behind a prompt.
- Of subtitleripper the formats of images and tags, grey levels (-g), failing writes,
  and vobsub_get_packet(), which nothing calls.  The factor on times of subtitle2vobsub -t
  (subtitle2vobsub.c:548) and a negative start of the output of -e, of which the program only
  warns (317-319).  subtitle2pgm -e with no titles at all, which stops after the first
  fragment (subtitle2pgm.c:410).
- Build files, fonts and data are not code of the system.

What the prover cannot reach here: liveness and ENABLED, and theorems with an
operator as a parameter, the library's inductions among them.  That a
function defined by recursion on numbers exists, and an induction over its values, is
proved where it is needed from the well-foundedness of the naturals, as a statement
about sets (`SetInduction`): so it is done for the sums, the run-length code, the
turns of the decoder and the commands of a unit.
