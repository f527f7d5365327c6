------------------------------- MODULE Vobsub -------------------------------
(***************************************************************************)
(* The VobSub files of subtitleripper: subtitle2vobsub.c writes a stream   *)
(* of subtitle fragments to a .sub file of 2 KiB blocks and an .idx file   *)
(* that says where in it which time starts, once for every language, and   *)
(* vobsub2pgm.c reads them back (both through vobsub.c).                   *)
(*                                                                         *)
(* Times are in ticks of 1/90000 s.  The .sub file is the sequence of its  *)
(* MPEG elements, records [kind, size, ...]; a position in the file is the *)
(* sum of the sizes in front of it.  Writing to the files does not fail.   *)
(***************************************************************************)
EXTENDS Integers, SequencesExt

CONSTANTS Jobs,        \* runs of subtitle2vobsub, one after the other
          Streams,     \* the numbers of languages
          RoundedDown  \* times whose double comes out just below their millisecond

(***************************************************************************)
(* A run of subtitle2vobsub is a record                                    *)
(*   index   the language (-a), append  whether the old files are kept     *)
(*   named   the IFO file gives the language a code                        *)
(*   first, last, start  the range of -e and the time its output starts at *)
(*   input   the fragments [len, pts] of the stream                        *)
(* Times are not scaled (-t), and none becomes negative.                   *)
(***************************************************************************)
Block == 2048
PerMs == 90

\* A fragment is not empty, and has come in a packet of a block of a DVD
WellFormed(j) ==
  /\ j.index \in Streams /\ j.append \in BOOLEAN /\ j.named \in BOOLEAN
  /\ j.first \in Nat /\ j.last \in Nat /\ j.start \in Nat
  /\ j.input \in Seq([len : 1 .. Block - 24, pts : Nat])

ASSUME VobsubAssumption ==
  /\ \A t \in RoundedDown : t \in Nat /\ t > 0 /\ t % PerMs = 0
  /\ \A js \in Jobs : Len(js) \in Nat /\ DOMAIN js = 1 .. Len(js) /\ \A k \in DOMAIN js : WellFormed(js[k])

\* Time does not go back in a stream, and a language is added once to the
\* files that are kept.
Rising(input) == \A m, n \in DOMAIN input : m <= n => input[m].pts <= input[n].pts
OneEach ==
  \A js \in Jobs : \A k \in DOMAIN js :
    /\ Rising(js[k].input)
    /\ \A i \in 1 .. k - 1 : js[i].index = js[k].index => \E m \in i + 1 .. k : ~js[m].append

VARIABLES
  jobs,      \* the runs
  job,       \* the run that is going on, Len(jobs) + 1 when all are over
  next,      \* its fragment that is read next, 0 before vobsub_out_open
  sub, idx,  \* the files
  statics,   \* the static variables of vobsub_out_output
  reader,    \* the reading program, see Closed
  written    \* what was given to vobsub_out_output, a block each: [stream, pts,
             \* stamped], the last FALSE for a time stamp that did not fit

vobsubvars == <<jobs, job, next, sub, idx, statics, reader, written>>

Unset == -1
NoData == 0

\* The size of the first k elements of a file
Through(file, k) ==
  LET n[i \in 0 .. k] == IF i = 0 THEN 0 ELSE n[i - 1] + file[i].size IN n[k]
SizeOf(file) == Through(file, Len(file))

(***************************************************************************)
(* Writing.                                                                *)
(***************************************************************************)
Fresh == [last_pts |-> Unset, last_ms |-> Unset, last_code |-> Unset]

\* vobsub_out_open of an index file that is empty, and of one that is not
Header(j) == <<[kind |-> "langidx", index |-> j.index]>>
Title(j) == <<[kind |-> "id", index |-> j.index, named |-> j.named]>>

\* remove_old_sub_idx_files
Old(j, file) == IF j.append THEN file ELSE <<>>

\* vobsub_out_open
OutIndex(j, old) == (IF old = <<>> THEN Header(j) ELSE old) \o Title(j)

OpenOut ==
  /\ job <= Len(jobs) /\ next = 0
  /\ LET j == jobs[job] IN
     /\ sub' = Old(j, sub)
     /\ idx' = OutIndex(j, Old(j, idx))
     /\ written' = Old(j, written)
  /\ statics' = Fresh
  /\ next' = 1
  /\ UNCHANGED <<jobs, job, reader>>

\* One block of the .sub file: pack header, packet, padding.  A packet that is
\* too long for its time stamp is written without one.
PtsLength(pts) == IF statics.last_code = pts THEN 0 ELSE 5
Room(len, ptslen) == Block - 24 - len - ptslen

\* Mutant: what does not fit with its time stamp keeps it
KeepsStamp(len, pts) == PtsLength(pts)

StampLength(len, pts) == IF Room(len, PtsLength(pts)) < 0 THEN 0 ELSE PtsLength(pts)

HeaderPadding(len, pts) ==
  IF Room(len, PtsLength(pts)) \in 0 .. 6 THEN Room(len, PtsLength(pts)) ELSE 0

Padding(remain) == IF remain >= 6 THEN <<[kind |-> "pad", size |-> remain]>>
                   ELSE IF remain > 0 THEN <<[kind |-> "zeros", size |-> remain]>>
                   ELSE <<>>

BlockOf(stream, data, len, pts) ==
  LET stamp == StampLength(len, pts)
      size  == 10 + stamp + HeaderPadding(len, pts) + len
  IN  <<[kind |-> "pack", size |-> 14],
        [kind |-> "packet", size |-> size, aid |-> stream, data |-> data,
         pts |-> IF stamp > 0 THEN pts ELSE Unset]>>
      \o Padding(Block - 14 - size)

\* The milliseconds of a time.  They are computed with doubles and cut off, so
\* that a time on a millisecond may give the one before it (2.57 s gives 569);
\* it is taken to give the same one in all runs.
Millis(pts) == (IF pts \in RoundedDown THEN pts - 1 ELSE pts) \div PerMs

NewLine(pts) == statics.last_pts # pts /\ statics.last_ms # Millis(pts)

\* vobsub_out_output
Output(j, f, pts) ==
  /\ sub' = sub \o BlockOf(j.index, Len(written) + 1, f.len, pts)
  /\ idx' = IF NewLine(pts)
            THEN Append(idx, [kind |-> "timestamp", ms |-> Millis(pts), filepos |-> SizeOf(sub)])
            ELSE idx
  /\ statics' = [last_pts |-> pts, last_code |-> pts,
                 last_ms |-> IF NewLine(pts) THEN Millis(pts) ELSE statics.last_ms]
  /\ written' = Append(written, [stream |-> j.index, pts |-> pts,
                                 stamped |-> StampLength(f.len, pts) = PtsLength(pts)])

\* The loop of subtitle2vobsub: fragments outside the range are left out
Convert ==
  /\ job <= Len(jobs) /\ next \in 1 .. Len(jobs[job].input)
  /\ LET j == jobs[job]
         f == j.input[next]
     IN IF j.first <= f.pts /\ f.pts <= j.last
        THEN Output(j, f, f.pts - j.first + j.start)
        ELSE UNCHANGED <<sub, idx, statics, written>>
  /\ next' = next + 1
  /\ UNCHANGED <<jobs, job, reader>>

CloseOut ==
  /\ job <= Len(jobs) /\ next > Len(jobs[job].input)
  /\ job' = job + 1 /\ next' = 0
  /\ UNCHANGED <<jobs, sub, idx, statics, reader, written>>

(***************************************************************************)
(* Reading.  A queue is [packets, current]; a packet [pts100, filepos,     *)
(* data].  Positions in the queue count from 1.                            *)
(***************************************************************************)
EmptyQueue == [packets |-> <<>>, current |-> 1]
Entry(pts, pos) == [pts100 |-> pts, filepos |-> pos, data |-> NoData]

Closed == [phase |-> "closed", line |-> 1, element |-> 1, stream |-> Unset, pts |-> 0,
           diff |-> 0, queue |-> [s \in Streams |-> EmptyQueue], got |-> <<>>]

\* vobsub_open: the .idx file may be missing (force is 1)
OpenIn ==
  /\ job > Len(jobs) /\ reader.phase = "closed"
  /\ \E phase \in {"index", "stream"} : reader' = [reader EXCEPT !.phase = phase]
  /\ UNCHANGED <<jobs, job, next, sub, idx, statics, written>>

\* vobsub_parse_one_line.  vobsub_id is 0 in vobsub2pgm, so langidx is ignored;
\* the id says which language the following lines belong to.  An id without
\* a language code is an error, and nothing behind it is read.
Readable(l) == l.kind = "id" => l.named

\* vobsub_parse_timestamp; a line is read as the milliseconds it was written with
Parsed(l) == Entry(l.ms * PerMs, l.filepos)

\* vobsub_add_timestamp
Listed(queue, stream, l) == [queue EXCEPT ![stream].packets = Append(@, Parsed(l))]

ParseLine ==
  /\ reader.phase = "index" /\ reader.line <= Len(idx) /\ Readable(idx[reader.line])
  /\ LET l == idx[reader.line]
     IN reader' = [reader EXCEPT
          !.line   = @ + 1,
          !.stream = IF l.kind = "id" THEN l.index ELSE @,
          !.queue  = IF l.kind = "timestamp" THEN Listed(@, reader.stream, l) ELSE @]
  /\ UNCHANGED <<jobs, job, next, sub, idx, statics, written>>

EndIndex ==
  /\ reader.phase = "index"
  /\ reader.line <= Len(idx) => ~Readable(idx[reader.line])
  /\ reader' = [reader EXCEPT !.phase = "stream"]
  /\ UNCHANGED <<jobs, job, next, sub, idx, statics, written>>

\* The packet of the queue to fill: the last one that starts at pos or before
Reached(q, pos) ==
  LET later == {k \in q.current + 1 .. Len(q.packets) :
                  \A m \in q.current + 1 .. k : q.packets[m].filepos <= pos}
  IN  IF later = {} THEN q
      ELSE [q EXCEPT !.current = CHOOSE k \in later : \A m \in later : m <= k]

\* Mutant: it is put in front of the packet that is there
InsertedBefore(q, pts) ==
  LET old == q.packets[q.current]
  IN  [packets |-> InsertAt(q.packets, q.current,
                            [old EXCEPT !.pts100 = pts, !.data = NoData]),
       current |-> q.current]

\* packet_queue_insert: a packet without a line of its own follows the one
\* before it, at the time of the file moved by the last difference seen
Inserted(q, pts) ==
  LET old == q.packets[q.current]
  IN  [packets |-> InsertAt(q.packets, q.current + 1,
                            [old EXCEPT !.pts100 = pts, !.data = NoData]),
       current |-> q.current + 1]

Place(q, pts) == IF q.packets[q.current].data = NoData THEN q ELSE Inserted(q, pts)

Alone(q) == Len(q.packets) = 1

\* packet_queue_grow
Begun(q) == IF q.packets = <<>> THEN [q EXCEPT !.packets = <<Entry(0, 0)>>] ELSE q

\* The current packet takes the data; alone in its queue it takes the time as well
Taken(q, data, pts) ==
  LET p == q.packets[q.current]
  IN  [q EXCEPT !.packets[q.current] =
         [p EXCEPT !.data = data, !.pts100 = IF Alone(q) THEN pts ELSE p.pts100]]

\* mpeg_run, and what vobsub_open does with the packet.  Zeros are passed over
\* in search of the next element.
Fill(e, pos, pts) ==
  LET q == Place(Reached(Begun(reader.queue[e.aid]), pos), pts + reader.diff)
  IN  [reader EXCEPT
        !.pts = pts,
        !.diff = IF Alone(q) THEN reader.diff ELSE q.packets[q.current].pts100 - pts,
        !.queue[e.aid] = Taken(q, e.data, pts)]

ReadElement ==
  /\ reader.phase = "stream" /\ reader.element <= Len(sub)
  /\ LET e == sub[reader.element]
         r == IF e.kind = "packet"
              THEN Fill(e, Through(sub, reader.element - 1),
                        IF e.pts = Unset THEN reader.pts ELSE e.pts)
              ELSE reader
     IN  reader' = [r EXCEPT !.element = @ + 1]
  /\ UNCHANGED <<jobs, job, next, sub, idx, statics, written>>

\* The end of the .sub file, which may have been cut off anywhere
EndStream ==
  /\ reader.phase = "stream"
  /\ \E s \in Streams : reader' = [reader EXCEPT !.phase = "read", !.stream = s, !.line = 1]
  /\ UNCHANGED <<jobs, job, next, sub, idx, statics, written>>

\* vobsub_get_next_packet, called until the queue is empty.  line counts
\* what is handed out; current_index of the queue was set back before.
GetNext ==
  /\ reader.phase = "read"
  /\ LET q == reader.queue[reader.stream].packets
     IN reader' = IF reader.line > Len(q) THEN [reader EXCEPT !.phase = "done"]
                  ELSE [reader EXCEPT !.line = @ + 1, !.got = Append(@, q[reader.line])]
  /\ UNCHANGED <<jobs, job, next, sub, idx, statics, written>>

VobsubInit ==
  /\ jobs \in Jobs /\ job = 1 /\ next = 0
  /\ sub = <<>> /\ idx = <<>> /\ statics = Fresh
  /\ reader = Closed /\ written = <<>>

VobsubNext ==
  \/ OpenOut \/ Convert \/ CloseOut
  \/ OpenIn \/ ParseLine \/ EndIndex \/ ReadElement \/ EndStream \/ GetNext

VobsubSpec == VobsubInit /\ [][VobsubNext]_vobsubvars

(***************************************************************************)
(* Properties.                                                             *)
(***************************************************************************)

Stamps == {k \in DOMAIN idx : idx[k].kind = "timestamp"}
Lang(k) == idx[CHOOSE i \in 1 .. k : /\ idx[i].kind = "id"
                                     /\ \A m \in i + 1 .. k : idx[m].kind # "id"].index
Held(k) == written[idx[k].filepos \div Block + 1]

\* Every line of the index stands for a block of the .sub file: it gives the
\* start of one, and that block holds the first packet of that time of the
\* language of the line; no time is given twice (vobsub_out_output).
LinesPoint ==
  \A k \in Stamps :
    /\ idx[k].filepos % Block = 0 /\ idx[k].filepos \div Block < Len(written)
    /\ Held(k).stream = Lang(k) /\ Millis(Held(k).pts) = idx[k].ms
    /\ \A m \in Stamps \ {k} : Lang(m) = Lang(k) => idx[m].ms # idx[k].ms

\* The blocks of a language, and what was handed out with data in it
Own(s) == {d \in DOMAIN written : written[d].stream = s}
Handed == {i \in DOMAIN reader.got : reader.got[i].data # NoData}

Complete ==
  reader.phase = "done" =>
    LET got == reader.got
        own == Own(reader.stream)
    IN  /\ \A i \in Handed : got[i].data \in own
        /\ \A i, j \in Handed : i < j => got[i].data < got[j].data
        /\ \A i \in Handed : \A d \in own : d < got[i].data => \E j \in Handed : got[j].data = d
        /\ reader.element > Len(sub) => \A d \in own : \E j \in Handed : got[j].data = d

InTime ==
  (reader.phase = "done" /\ \A d \in DOMAIN written : written[d].stamped) =>
    \A i \in Handed :
      LET p == reader.got[i]
      IN  p.pts100 - written[p.data].pts <= PerMs /\ written[p.data].pts - p.pts100 <= PerMs

\* What is read back of a language is what was written of it, in order, with or
\* without the index; a .sub file that was cut off gives the first part.  It comes at
\* its time, at most a millisecond off, unless the time stamp of a packet did not fit into its
\* block (vobsub_out_output, vobsub_open, vobsub_get_next_packet).
RoundTrip == Complete /\ InTime

=============================================================================
