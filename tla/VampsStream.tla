----------------------------- MODULE VampsStream ------------------------------
(***************************************************************************)
(* The main thread of vamps (vamps.c): a program stream is read from       *)
(* standard input into rbuf, its sectors are copied through wbuf to        *)
(* standard output or skipped, and every GOP of video is requantized.      *)
(*                                                                         *)
(* A sector is known by its number in the stream and by its kind:          *)
(*   "seq"   video beginning with a sequence header                        *)
(*   "pts"   video with a time stamp and no sequence header at its start   *)
(*   "vid"   other video                                                   *)
(*   "aux"   audio or subpicture with a track in the translation maps      *)
(*   "drop"  audio or subpicture without one                               *)
(*   "nav"   system header and PCI/DSI                                     *)
(*   "pad"   nothing but a padding packet                                  *)
(*   "gap"   the "Vamps-data" pack of play_cell                            *)
(*   "bad"   anything else                                                 *)
(* Buffers are counted in sectors and video elementary streams in units of *)
(* which a video sector holds a few; positions in rbuf are kept, so that   *)
(* the pointers' arithmetic is that of the code.  What the requantization  *)
(* thread does to a GOP is the subject of VampsHandoff.                    *)
(***************************************************************************)
EXTENDS Integers, Sequences, FiniteSets

CONSTANTS Streams,    \* the program streams vamps is given
          RBUF, WBUF, \* capacity of rbuf and wbuf in sectors
          ReadMax,    \* most sectors one read() returns (a pipe's capacity)
          Faulty,     \* those of which a read() or write() may fail, or a
                      \* read() end inside a sector
          Content,    \* video units in a sector of each video kind
          Room,       \* video units that fit when the sector is reused
          Gap,        \* sectors play_cell left out before a "gap" pack
          MaxCount    \* bound: at which the pack counters stop

VideoKinds == {"seq", "pts", "vid"}
Kinds == VideoKinds \cup {"aux", "drop", "nav", "pad", "gap", "bad"}

ASSUME StreamAssumption ==
    /\ \A s \in Streams : s \in Seq(Kinds)
    /\ RBUF \in Nat \ {0} /\ WBUF \in Nat \ {0} /\ ReadMax \in Nat \ {0}
    /\ Faulty \subseteq Streams
    /\ Gap \in Nat \ {0} /\ MaxCount \in Nat
    /\ Content \in [VideoKinds -> Nat \ {0}]
    /\ Room \in [VideoKinds -> Nat]
    /\ \A v \in VideoKinds : Content[v] <= Room[v]

VARIABLES
    ps,       \* the stream
    pc,       \* leader, phase1, shrink, phase2, trailer, or how it all ended
    rd,       \* sectors read from standard input
    rp,       \* sectors before rptr
    base,     \* rptr - rbuf
    seq,      \* seq_length
    k,        \* loop index of vap_phase2() and vap_trailer()
    vi,       \* viptr - vibuf, at the end vilen
    vo,       \* vohwp - voptr
    wb,       \* the sectors in wbuf
    out,      \* the sectors written to standard output
    eof,      \* v_eof
    count     \* the pack counters

vars == <<ps, pc, rd, rp, base, seq, k, vi, vo, wb, out, eof, count>>

Counters == {"total", "video", "skipped_video", "aux", "skipped_aux", "nav",
             "gap", "seqhdr"}

NoCount == [c \in Counters |-> 0]

MinOf(a, b) == IF a < b THEN a ELSE b

Plus(n, cs) == [c \in Counters |-> IF c \in cs THEN MinOf(count[c] + n, MaxCount)
                                              ELSE count[c]]

avail == rd - rp                      \* rhwp - rptr

Init == /\ ps \in Streams
        /\ pc = "leader"
        /\ rd = 0 /\ rp = 0 /\ base = 0 /\ seq = 0 /\ k = 0 /\ vi = 0 /\ vo = 0
        /\ wb = <<>> /\ out = <<>> /\ eof = FALSE
        /\ count = NoCount

-------------------------------------------------------------------------------
(***************************************************************************)
(* The buffers                                                             *)
(***************************************************************************)

\* Sectors a read() may return: it asks for RBUF - avail of them, and 0 is what
\* it returns both at the end of the stream and when it is asked for nothing.
Readable == LET most == MinOf(ReadMax, MinOf(RBUF - avail, Len(ps) - rd))
            IN  IF most = 0 THEN {0} ELSE 1 .. most

\* Mutant: what is left is never moved to the start of rbuf.
LockInPlace(size, n) == /\ avail < size
                        /\ n \in Readable
                        /\ rd' = rd + n
                        /\ base' = base

\* lock(): what is left is moved to the start of rbuf - unless nothing is left,
\* when the pointers stay where they are - and more is read behind it.
Lock(size, n) ==
    /\ avail < size
    /\ n \in Readable
    /\ rd' = rd + n
    /\ base' = IF avail > 0 THEN 0 ELSE base

\* What the caller does next, unless rbuf has been overrun.
Then(next) == pc' = IF base' + avail + (rd' - rd) <= RBUF THEN next ELSE "overrun"

\* flush() after wbuf has become full.
Put(w) == IF Len(w) = WBUF THEN wb' = <<>> /\ out' = out \o w
                           ELSE wb' = w /\ out' = out
Flush  == wb' = <<>> /\ out' = out \o wb

Copy == /\ Put(Append(wb, rp + 1))
        /\ rp' = rp + 1 /\ base' = base + 1
Skip == /\ rp' = rp + 1 /\ base' = base + 1
        /\ UNCHANGED <<wb, out>>
\* A padding pack's length is checked, but it is neither copied nor skipped.
Stay == UNCHANGED <<rp, base, wb, out>>

-------------------------------------------------------------------------------
(***************************************************************************)
(* vap_leader()                                                            *)
(***************************************************************************)
LeaderRead ==
    /\ pc = "leader"
    /\ \E n \in Readable :
         /\ Lock(1, n)
         /\ \/ n > 0 /\ Then("leader") /\ UNCHANGED <<eof, wb, out>>
            \/ /\ n = 0 /\ eof' = TRUE /\ Flush
               /\ pc' = "done"
    /\ UNCHANGED <<ps, rp, seq, k, vi, vo, count>>

\* At the first sequence header vaporize() counts one navigation pack and this
\* video pack, whatever the leader was.
LeaderSector ==
    /\ pc = "leader" /\ avail >= 1
    /\ LET kind == ps[rp + 1] IN
         \/ /\ kind = "seq"
            /\ pc' = "phase1"
            /\ count' = [count EXCEPT !["total"] = 2, !["nav"] = 1, !["video"] = 1]
            /\ Stay
         \/ /\ kind \in {"pts", "vid", "aux", "nav"}
            /\ Copy
            /\ count' = IF kind = "pts" THEN Plus(1, {"seqhdr"}) ELSE count
            /\ UNCHANGED pc
         \/ kind \in {"drop", "gap"} /\ Skip /\ UNCHANGED <<pc, count>>
         \/ kind = "pad" /\ Stay /\ UNCHANGED <<pc, count>>
    /\ UNCHANGED <<ps, rd, seq, k, vi, vo, eof>>

(***************************************************************************)
(* vap_phase1()                                                            *)
(***************************************************************************)
Phase1Read ==
    /\ pc = "phase1"
    /\ \E n \in Readable :
         /\ Lock(seq + 1, n)
         /\ \/ n > 0 /\ Then("phase1") /\ UNCHANGED <<eof, k>>
            \/ n = 0 /\ eof' = TRUE /\ pc' = "trailer" /\ k' = 0
    /\ UNCHANGED <<ps, rp, seq, vi, vo, wb, out, count>>

\* Mutant: no pack is counted as skipped.
CountedNoSkip(kind) ==
    LET first == seq = 0
        each  == (IF first THEN {} ELSE {"total"})
                   \cup (IF kind \in VideoKinds /\ ~first THEN {"video"} ELSE {})
                   \cup (IF kind = "pts" \/ (kind = "seq" /\ ~first)
                           THEN {"seqhdr"} ELSE {})
                   \cup (IF kind \in {"aux", "drop"} THEN {"aux"} ELSE {})
                   \cup (IF kind = "nav" THEN {"nav"} ELSE {})
    IN  Plus(1, each)

\* What phase 1 counts for a sector; the GOP's first was counted before.
Counted(kind) ==
    LET first == seq = 0
        each  == (IF first THEN {} ELSE {"total"})
                   \cup (IF kind \in VideoKinds /\ ~first THEN {"video"} ELSE {})
                   \cup (IF kind = "pts" \/ (kind = "seq" /\ ~first)
                           THEN {"seqhdr"} ELSE {})
                   \cup (IF kind \in {"aux", "drop"} THEN {"aux"} ELSE {})
                   \cup (IF kind \in {"drop", "pad"} THEN {"skipped_aux"} ELSE {})
                   \cup (IF kind = "nav" THEN {"nav"} ELSE {})
        once  == Plus(1, each)
    IN  IF kind # "gap" THEN once
        ELSE [once EXCEPT !["gap"] = MinOf(@ + Gap, MaxCount),
                          !["total"] = MinOf(@ + (Gap - 1), MaxCount)]

Phase1Sector ==
    /\ pc = "phase1" /\ avail >= seq + 1
    /\ LET kind == ps[rp + seq + 1] IN
         /\ kind # "bad"
         /\ count' = Counted(kind)
         /\ \/ /\ kind = "seq" /\ seq > 0
               /\ pc' = "shrink" /\ UNCHANGED <<seq, vi>>
            \/ /\ ~(kind = "seq" /\ seq > 0)
               /\ seq' = seq + 1
               /\ vi' = IF kind \in VideoKinds THEN vi + Content[kind] ELSE vi
               /\ UNCHANGED pc
    /\ UNCHANGED <<ps, rd, rp, base, k, vo, wb, out, eof>>

(***************************************************************************)
(* The loop body of vaporize() between the phases: with a forecast factor  *)
(* above 1 requant() returns a shorter ES - or never, given an empty one - *)
(* and otherwise the ES is copied.  Which one it is depends on floating    *)
(* point figures that are left open here.                                  *)
(***************************************************************************)
Shrink ==
    /\ pc = "shrink" /\ k' = 0
    /\ \/ \E v \in 1 .. vi : vo' = v /\ pc' = "phase2"
       \/ vo' = vi /\ pc' = "phase2"
       \/ vi = 0 /\ pc' = "hang" /\ UNCHANGED vo
    /\ UNCHANGED <<ps, rd, rp, base, seq, vi, wb, out, eof, count>>

(***************************************************************************)
(* vap_phase2() with gen_video_packet()                                    *)
(***************************************************************************)
\* Mutant: packs that are not selected are copied.
Phase2SectorAll ==
    /\ pc = "phase2" /\ k < seq
    /\ k' = k + 1
    /\ LET kind == ps[rp + 1] IN
         \/ /\ kind \in VideoKinds /\ vo > 0
            /\ vo' = vo - MinOf(vo, Room[kind])
            /\ Copy /\ UNCHANGED count
         \/ /\ kind \in VideoKinds /\ vo = 0
            /\ Skip /\ count' = Plus(1, {"skipped_video"}) /\ UNCHANGED vo
         \/ /\ kind \in {"aux", "drop", "nav", "gap"}
            /\ Copy /\ UNCHANGED <<vo, count>>
         \/ kind = "pad" /\ Stay /\ UNCHANGED <<vo, count>>
    /\ UNCHANGED <<ps, pc, rd, seq, vi, eof>>

Phase2Sector ==
    /\ pc = "phase2" /\ k < seq
    /\ k' = k + 1
    /\ LET kind == ps[rp + 1] IN
         \/ /\ kind \in VideoKinds /\ vo > 0
            /\ vo' = vo - MinOf(vo, Room[kind])
            /\ Copy /\ UNCHANGED count
         \/ /\ kind \in VideoKinds /\ vo = 0
            /\ Skip /\ count' = Plus(1, {"skipped_video"}) /\ UNCHANGED vo
         \/ kind \in {"aux", "nav"}  /\ Copy /\ UNCHANGED <<vo, count>>
         \/ kind \in {"drop", "gap"} /\ Skip /\ UNCHANGED <<vo, count>>
         \/ kind = "pad" /\ Stay /\ UNCHANGED <<vo, count>>
    /\ UNCHANGED <<ps, pc, rd, seq, vi, eof>>

EndGop ==
    /\ pc = "phase2" /\ k = seq
    /\ pc' = "phase1" /\ seq' = 0 /\ vi' = 0 /\ k' = 0
    /\ UNCHANGED <<ps, rd, rp, base, vo, wb, out, eof, count>>

(***************************************************************************)
(* vap_trailer()                                                           *)
(***************************************************************************)
\* Mutant: the trailer is copied as it is.
TrailerSectorAll ==
    /\ pc = "trailer" /\ k < seq
    /\ k' = k + 1 /\ Copy
    /\ UNCHANGED <<ps, pc, rd, seq, vi, vo, eof, count>>

TrailerSector ==
    /\ pc = "trailer" /\ k < seq
    /\ k' = k + 1
    /\ LET kind == ps[rp + 1] IN
         \/ kind \notin {"drop", "gap", "pad"} /\ Copy
         \/ kind \in {"drop", "gap"} /\ Skip
         \/ kind = "pad" /\ Stay
    /\ UNCHANGED <<ps, pc, rd, seq, vi, vo, eof, count>>

EndTrailer ==
    /\ pc = "trailer" /\ k = seq
    /\ Flush /\ pc' = "done"
    /\ UNCHANGED <<ps, rd, rp, base, seq, k, vi, vo, eof, count>>

(***************************************************************************)
(* fatal(): a pack of no known kind, a read() in lock() that fails or ends *)
(* inside a sector, or a write() in flush() that fails                     *)
(***************************************************************************)
Reading == \/ pc = "leader" /\ avail < 1
           \/ pc = "phase1" /\ avail < seq + 1

\* The sector that is copied now fills wbuf, or the last ones are flushed.
Writing == \/ /\ Len(wb) + 1 = WBUF
              /\ \/ pc = "leader" /\ avail >= 1 /\ ps[rp + 1] \in {"pts", "vid", "aux", "nav"}
                 \/ pc = "phase2" /\ k < seq /\ ps[rp + 1] \in {"aux", "nav"}
                 \/ pc = "phase2" /\ k < seq /\ ps[rp + 1] \in VideoKinds /\ vo > 0
                 \/ pc = "trailer" /\ k < seq /\ ps[rp + 1] \notin {"drop", "gap", "pad"}
           \/ /\ wb # <<>>
              /\ \/ pc = "leader" /\ avail < 1 /\ Readable = {0}
                 \/ pc = "trailer" /\ k = seq

Fatal ==
    /\ \/ pc = "leader" /\ avail >= 1 /\ ps[rp + 1] = "bad"
       \/ pc = "phase1" /\ avail >= seq + 1 /\ ps[rp + seq + 1] = "bad"
       \/ ps \in Faulty /\ (Reading \/ Writing)
    /\ pc' = "fatal"
    /\ UNCHANGED <<ps, rd, rp, base, seq, k, vi, vo, wb, out, eof, count>>

Ended == {"done", "fatal", "overrun", "hang"}
Terminated == pc \in Ended /\ UNCHANGED vars

Step == \/ LeaderRead \/ LeaderSector
        \/ Phase1Read \/ Phase1Sector
        \/ Shrink \/ Phase2Sector \/ EndGop
        \/ TrailerSector \/ EndTrailer
        \/ Fatal
Next == Step \/ Terminated

\* One thread, which runs.
Spec == Init /\ [][Next]_vars /\ WF_vars(Step)

-------------------------------------------------------------------------------
(***************************************************************************)
(* Properties                                                              *)
(***************************************************************************)
Written == out \o wb

\* copy() never finds wbuf full ("Write buffer overflow"): every loop that copies
\* flushes in time, whatever mixture of kinds comes.
WriteRoom == Len(wb) < WBUF

\* What has been written of the sectors worked off so far, in any stream: they
\* are in order and once each, all navigation and selected audio and subpicture
\* packs are among them and none that is not selected (vamps.c, 1085-1087).
Selected ==
    /\ \A i, j \in 1 .. Len(Written) : i < j => Written[i] < Written[j]
    /\ \A i \in 1 .. Len(Written) : Written[i] <= rp
    /\ \A s \in 1 .. rp : LET there == \E i \in 1 .. Len(Written) : Written[i] = s
                          IN  /\ ps[s] \in {"aux", "nav"}  => there
                              /\ ps[s] \in {"drop", "gap"} => ~there

\* The leader ends early: vap_leader() never moves the pointers back when it has
\* used up all, and needs room for one more read().
ShortLeader(s) == \E i \in 1 .. Len(s) : i <= RBUF - ReadMax + 1 /\ s[i] = "seq"

\* Streams of known packs, read in whole sectors and written, whose leader and
\* GOPs fit in rbuf.
GopsFit(s) == \A i \in 1 .. Len(s) :
                s[i] = "seq" /\ i + RBUF <= Len(s) =>
                  \E j \in i + 1 .. i + RBUF - 1 : s[j] = "seq"
Orderly(s) == /\ \A i \in 1 .. Len(s) : s[i] \notin {"pad", "bad"}
              /\ s \notin Faulty
              /\ Len(s) <= RBUF \/ ShortLeader(s)
              /\ GopsFit(s)

EsPlaced == pc = "phase2" /\ k = seq /\ Orderly(ps) => vo = 0

\* The packs vaporize() reckons with as not shrinkable when it forecasts the
\* factor (`restpacks', vamps.c 1217) are the navigation and the selected audio
\* and subpicture packs phase 1 has seen, whatever was skipped or missing, in an
\* orderly stream.
FirstSeq == CHOOSE s \in 1 .. Len(ps) : /\ ps[s] = "seq"
                                        /\ \A r \in 1 .. s - 1 : ps[r] # "seq"
RestPacks ==
    pc \in {"phase1", "shrink"} /\ Orderly(ps) =>
        count["total"] - (count["video"] + count["skipped_aux"] + count["gap"])
          = 1 + Cardinality({s \in FirstSeq .. rp + seq : ps[s] \in {"aux", "nav"}})

InBuffer == ShortLeader(ps) => pc # "overrun"

\* There is room for what is stored.  lock() makes "the next `size' input bytes ...
\* available in buffer" (vamps.c, 380): what it reads is put inside rbuf, as long as the
\* leader is short.  And no video of an orderly stream is lost in phase 2: the sectors of
\* a GOP have room for all of its requantized ES, however the units are spread over full
\* and short packets.
RoomForAll == InBuffer /\ EsPlaced

\* The sectors of an orderly stream are worked off as VampsFilter promises, to the
\* end (vaporize()).
Filter == INSTANCE VampsFilter
            WITH stream <- ps, pos <- rp, written <- Written, over <- pc = "done",
                 orderly <- Orderly(ps),
                 Kept <- {"aux", "nav"}, Dropped <- {"drop", "gap"},
                 Video <- VideoKinds
ImplementsFilter == Filter!FilterSpec
===============================================================================
