------------------------------- MODULE DvdRead --------------------------------
(***************************************************************************)
(* Reading blocks of the title VOBs of a title set with libdvdread         *)
(* (dvd_reader.c: DVDReadBlocksPath; dvd_input.c: file_read).              *)
(*                                                                         *)
(* The VOBs VTS_xx_1.VOB to VTS_xx_n.VOB are one sequence of blocks, known *)
(* by their number in it; Ends[i] is the number of blocks up to the end of *)
(* the i-th.  A medium says which blocks cannot be read and which of two   *)
(* readers is in use: "file" is read(2), "css" is libdvdcss.               *)
(***************************************************************************)
EXTENDS Integers

CONSTANTS Parts,     \* number of title VOBs
          Ends       \* where they end

ASSUME DvdReadAssumption ==
    /\ Parts \in Nat \ {0}
    /\ Ends \in [0 .. Parts -> Nat]
    /\ Ends[0] = 0
    /\ \A i, j \in 0 .. Parts : i < j => Ends[i] < Ends[j]

LeastOf(a, b) == IF a < b THEN a ELSE b

Blocks == 0 .. Ends[Parts] - 1
Media  == [mode : {"file", "css"}, bad : SUBSET Blocks]

\* What is in a buffer where nothing has been read into it.
Stale == -2

\* dvdinput_read() of n blocks from block off on, of a VOB that ends at `end'.
\* read(2) fails as a whole if one block fails: "We won't even bother returning
\* the reads that went OK"; libdvdcss returns the blocks before the bad one.
InputRead(medium, off, n, end) ==
    LET last   == LeastOf(off + n, end) - 1
        failed == medium.bad \cap (off .. last)
        first  == CHOOSE b \in failed : \A c \in failed : b <= c
    IN  IF failed = {} THEN last + 1 - off
        ELSE IF medium.mode = "file" \/ first = off THEN -1
        ELSE first - off

\* The blocks that an InputRead() of length ret puts into the buffer.
Filled(off, ret) == [j \in 1 .. ret |-> off + j - 1]

\* DVDReadBlocksPath(): a read that goes over the end of a VOB is done in two
\* parts, the second of which is put where it belongs if the first was complete.
ReadBlocks(medium, off, n) ==
    IF off >= Ends[Parts] THEN [ret |-> 0, buf |-> <<>>]
    ELSE LET i    == CHOOSE p \in 1 .. Parts : Ends[p - 1] <= off /\ off < Ends[p]
             part == Ends[i] - off
             one  == InputRead(medium, off, LeastOf(n, part), Ends[i])
             two  == InputRead(medium, Ends[i], n - part, Ends[i + 1])
         IN  IF n <= part \/ one < 0 \/ i = Parts
               THEN [ret |-> one, buf |-> Filled(off, one)]
             ELSE IF two < 0 THEN [ret |-> two, buf |-> <<>>]
             ELSE [ret |-> one + two,
                   buf |-> [j \in 1 .. one + two |->
                              IF j <= one THEN off + j - 1
                              ELSE IF j <= part THEN Stale
                              ELSE off + j - 1]]
===============================================================================
