------------------------------- MODULE Spudec -------------------------------
(***************************************************************************)
(* subtitle2pgm (src/subtitleripper/subtitle2pgm.c) and its decoder        *)
(* spudec.c.  A stream of subtitle fragments is put together to packets,   *)
(* the commands of a packet start and stop titles, and each title is       *)
(* unpacked from its run-length code, cropped and written.                 *)
(*                                                                         *)
(* A subpicture unit of the stream is a record                             *)
(*   width, lines   its picture as the author coded it: lines of runs      *)
(*            <<length, pixel value 0..3>>; a last run of length 0 goes up *)
(*            to the end of the line                                       *)
(*   lens     the lengths of its fragments                                 *)
(*   padded   the size it announces is one more than it has                *)
(*   program  its control blocks [date, cmds], in order                    *)
(*   pts      its time stamp, carried by every fragment                    *)
(* Fragments can be lost on the way, the only fault spudec.c provides for. *)
(***************************************************************************)
EXTENDS Integers, SequencesExt, FiniteSets

CONSTANTS Scripts,     \* the streams, sequences of units
          Borders,     \* values of crop_border_size, -1 for no cropping
          Froms,       \* the times -e may start at
          Wants,       \* the numbers of titles -e may ask for
          Gap,         \* the 10000 hundredths of a second of spudec_assemble
          Garbage,     \* sizes that a fragment taken for a first one may announce
          MaxLost      \* bound on lost fragments

VARIABLES
  script, border, from, want,    \* the stream and the options
  at,        \* <<unit, fragment>> that is read next
  packet,    \* the fragments in this->packet, its packet_offset their length
  packet_size, packet_pts,
  dec,       \* the rest of the spudec_handle_t, see Decoder
  titles,    \* what has been written to the tag file, with the image of each
  run,       \* "going", "ended" (end of stream or enough titles), "failed"
             \* (the stream is not as expected), "died" (assert)
  lost, clean    \* fragments lost; none of them since the last long gap

vars == <<script, border, from, want, at, packet, packet_size, packet_pts, dec,
          titles, run, lost, clean>>

None == 0
Open == -1
Junk == -2           \* a pixel nothing was ever written to

Least(S) == CHOOSE n \in S : \A m \in S : n <= m
Most(S) == CHOOSE n \in S : \A m \in S : n >= m

(***************************************************************************)
(* The stream.                                                             *)
(***************************************************************************)
Unit(f) == script[f[1]]
LengthOf(f) == Unit(f).lens[f[2]]
Offset(b) ==
  LET n[k \in 0 .. Len(b)] == IF k = 0 THEN 0 ELSE n[k - 1] + LengthOf(b[k])
  IN  n[Len(b)]
Whole(u) == [k \in 1 .. Len(script[u].lens) |-> <<u, k>>]
Announced(u) == Offset(Whole(u)) + (IF script[u].padded THEN 1 ELSE 0)
AllRead == at[1] > Len(script)
After(f) == IF f[2] < Len(Unit(f).lens) THEN <<f[1], f[2] + 1>> ELSE <<f[1] + 1, 1>>

\* The pixels of the first k runs of a line, and the pixel in column x
Columns(line, k) ==
  LET n[i \in 0 .. k] == IF i = 0 THEN 0 ELSE n[i - 1] + line[i][1] IN n[k]
PixelAt(line, x) ==
  line[Least({k \in DOMAIN line : line[k][1] = 0 \/ x < Columns(line, k)})][2]

\* The runs of a line cover it
Covers(line, width) ==
  /\ Len(line) > 0
  /\ \A k \in 1 .. Len(line) - 1 : line[k][1] > 0
  /\ IF line[Len(line)][1] = 0 THEN Columns(line, Len(line)) < width
                               ELSE Columns(line, Len(line)) = width

WellDrawn(u) ==
  /\ u.width \in Nat \ {0}
  /\ u.lines \in Seq(Seq((0 .. 255) \X (0 .. 3))) /\ Len(u.lines) > 1
  /\ \A y \in DOMAIN u.lines : Covers(u.lines[y], u.width)

\* Fragments of less than 2 bytes are not looked at (spudec_assemble)
WellSent(u) ==
  /\ u.lens \in Seq(Nat \ {0, 1}) /\ u.lens # <<>>
  /\ u.padded \in BOOLEAN /\ u.pts \in Nat

\* The commands of a block up to its end or to one that is not known
Known(cmds) ==
  LET bad == {k \in DOMAIN cmds : cmds[k] = "unknown"}
  IN  IF bad = {} THEN cmds ELSE SubSeq(cmds, 1, Least(bad) - 1)

\* The commands of a program, each with the date of its block
Commands(program) ==
  FlattenSeq([b \in 1 .. Len(program) |->
                [c \in 1 .. Len(Known(program[b].cmds)) |->
                   [cmd |-> program[b].cmds[c], date |-> program[b].date]]])

\* The commands of a unit say where the picture is before they show it.
Shows == {"start", "force"}
Programmed(u) ==
  LET cs == Commands(u.program)
  IN  /\ u.program \in Seq([date : Nat, cmds : Seq(STRING)])
      /\ \A i \in DOMAIN cs : cs[i].cmd \in Shows \cup {"stop"} =>
           \A c \in {"area", "lines"} : \E j \in 1 .. i - 1 : cs[j].cmd = c

ASSUME SpudecAssumption ==
  /\ Gap \in Nat /\ MaxLost \in Nat
  /\ Borders \subseteq Nat \cup {-1} /\ Froms \subseteq Nat /\ Wants \subseteq Nat
  /\ Garbage \subseteq Nat
  /\ \A s \in Scripts :
       /\ Len(s) \in Nat /\ DOMAIN s = 1 .. Len(s)
       /\ \A i \in DOMAIN s : WellDrawn(s[i]) /\ WellSent(s[i]) /\ Programmed(s[i])

\* Of a disc that is in order every unit starts one title at most, which it may
\* stop, and time does not go back.
Starts(u) == {c \in ToSet(Commands(u.program)) : c.cmd \in Shows}
OneTitle(cs) ==
  /\ \A i \in DOMAIN cs : cs[i].cmd = "stop" => \E j \in 1 .. i - 1 : cs[j].cmd \in Shows
  /\ \A i \in DOMAIN cs : \A j \in 1 .. i - 1 :
       /\ ~(cs[i].cmd \in Shows /\ cs[j].cmd \in Shows)
       /\ ~(cs[i].cmd = "stop" /\ cs[j].cmd = "stop")
       /\ cs[j].date <= cs[i].date
Orderly ==
  \A s \in Scripts : \A i \in DOMAIN s :
    /\ OneTitle(Commands(s[i].program))
    /\ \A j \in 1 .. i - 1 : \A c \in Starts(s[i]), d \in Starts(s[j]) :
         s[j].pts + d.date <= s[i].pts + c.date

(***************************************************************************)
(* The author's run-length code: a run of n pixels of value p is the       *)
(* number 4n + p in as few nibbles as its length can be told from, the one *)
(* up to the end of the line in 4; a line ends on a whole byte.  The even  *)
(* lines follow byte 4 of the packet, the odd lines follow the even ones.  *)
(***************************************************************************)
RunCode(r) ==
  LET n == 4 * r[1] + r[2]
  IN  IF r[1] \in 1 .. 3        THEN <<n>>
      ELSE IF r[1] \in 4 .. 15  THEN <<n \div 16, n % 16>>
      ELSE IF r[1] \in 16 .. 63 THEN <<0, n \div 16, n % 16>>
      ELSE <<0, n \div 256, (n \div 16) % 16, n % 16>>

LineCode(line) ==
  LET body == FlattenSeq([k \in 1 .. Len(line) |-> RunCode(line[k])])
  IN  IF Len(body) % 2 = 1 THEN Append(body, 0) ELSE body

FieldCode(u, odd) ==
  LET lines == script[u].lines
  IN  FlattenSeq([j \in 1 .. (Len(lines) + 1 - odd) \div 2 |-> LineCode(lines[2 * j - 1 + odd])])

Nibbles(u) == FieldCode(u, 0) \o FieldCode(u, 1)     \* from nibble 8 on
ControlStart(data) == 4 + Len(data) \div 2
LineStarts(u) == <<8, 8 + Len(FieldCode(u, 0))>>
Width(u) == script[u].width
Height(u) == Len(script[u].lines) - 1        \* end_row - start_row

(***************************************************************************)
(* spudec_process_data.  One step decodes one run.  The state of the loop  *)
(* is s = [nibble, odd, x, y, image], nibble the positions of both fields. *)
(* A nibble behind the end of the data reads as 0 and moves nothing.       *)
(***************************************************************************)
NibbleAt(data, p) == IF p \div 2 < ControlStart(data) THEN data[p - 7] ELSE 0

\* The code at position p: <<number of nibbles read, number>>
CodeAt(data, p) ==
  LET n1 == NibbleAt(data, p)
      n2 == 16 * n1 + NibbleAt(data, p + 1)
      n3 == 16 * n2 + NibbleAt(data, p + 2)
      n4 == 16 * n3 + NibbleAt(data, p + 3)
  IN  IF n1 >= 4 THEN <<1, n1>>
      ELSE IF n2 >= 16 THEN <<2, n2>>
      ELSE IF n3 >= 64 THEN <<3, n3>>
      ELSE <<4, n4>>

\* Mutant: the next line starts where the code of this one ended
Unaligned(p) == p

Aligned(p) == p + (p % 2)

Advanced(data, p, n) ==
  IF p \div 2 >= ControlStart(data) THEN p
  ELSE IF p + n > 2 * ControlStart(data) THEN 2 * ControlStart(data) ELSE p + n

\* The length of a run: a code of length 0 or one too long fills the line
RunLength(asked, left) == IF asked > left \/ asked = 0 THEN left ELSE asked

\* len pixels are set; ends: they are the last of their line
Painted(s, len, ends, pixel, moved) ==
  [nibble |-> [s.nibble EXCEPT ![s.odd + 1] = IF ends THEN Aligned(moved) ELSE moved],
   odd    |-> IF ends THEN 1 - s.odd ELSE s.odd,
   x      |-> IF ends THEN 0 ELSE s.x + len,
   y      |-> IF ends THEN s.y + 1 ELSE s.y,
   image  |-> [c \in DOMAIN s.image |->
                 IF c[1] = s.y /\ c[2] \in s.x .. s.x + len - 1 THEN pixel ELSE s.image[c]]]

RunOf(data, d, s, p, code) ==
  LET len == RunLength(code[2] \div 4, d.width - s.x)
  IN  Painted(s, len, s.x + len >= d.width, code[2] % 4, Advanced(data, p, code[1]))

OneRun(data, d, s) ==
  LET p == s.nibble[s.odd + 1] IN RunOf(data, d, s, p, CodeAt(data, p))

\* image is kept from title to title
Canvas(d) == [c \in (0 .. d.height - 1) \X (0 .. d.width - 1) |->
                IF c \in DOMAIN d.image THEN d.image[c] ELSE Junk]

Going(data, d, s) ==
  /\ s.nibble[1] < d.nibble[2]
  /\ s.nibble[2] \div 2 < ControlStart(data)
  /\ s.y < d.height
Turn(data, d, s) == IF Going(data, d, s) THEN OneRun(data, d, s) ELSE s
First(d) == [nibble |-> d.nibble, odd |-> 0, x |-> 0, y |-> 0, image |-> Canvas(d)]

Decoded(data, d) ==
  LET turn[n \in 0 .. d.width * d.height] ==
        IF n = 0 THEN First(d) ELSE Turn(data, d, turn[n - 1])
  IN  turn[d.width * d.height]

Kept(d, s) == [d EXCEPT !.nibble = s.nibble, !.image = s.image]
ProcessData(u, d) == Kept(d, Decoded(Nibbles(u), d))

(***************************************************************************)
(* spudec_crop_image: the box <<first row, last row, first column, last    *)
(* column>> around everything that differs from the upper left pixel.      *)
(***************************************************************************)
Inked(d) == {c \in DOMAIN d.image : d.image[c] # d.image[<<0, 0>>]}
WholeBox(d) == <<0, d.height - 1, 0, d.width - 1>>

Lower(n) == IF n > border THEN n - border ELSE 0
Upper(n, size) == IF n + border < size THEN n + border ELSE size - 1

CropBox(d) ==
  LET rows == {c[1] : c \in Inked(d)}
      cols == {c[2] : c \in Inked(d)}
  IN  IF border < 0 \/ Inked(d) = {} THEN WholeBox(d)
      ELSE <<Lower(Least(rows)), Upper(Most(rows), d.height),
             Lower(Least(cols)), Upper(Most(cols), d.width)>>

(***************************************************************************)
(* spudec_process_control.  u is the unit that is in the packet buffer.    *)
(* The last fields of a title say where it came from.                      *)
(***************************************************************************)
Decoder == [width |-> 0, height |-> 0, nibble |-> <<0, 0>>, image |-> <<>>,
            start_pts |-> 0, end_pts |-> 0, forced |-> FALSE,
            opened |-> None, done |-> <<>>]

\* spudec_handle_rest: decode, crop, write the image and the tag (clean: see Emit)
Written(u, d) ==
  [d EXCEPT !.done = Append(@,
     [start |-> d.start_pts, end |-> d.end_pts, forced |-> d.forced,
      image |-> d.image, box |-> CropBox(d),
      opened |-> d.opened, closed |-> u, alone |-> d.done = <<>>, clean |-> TRUE])]
HandleRest(u, d) == Written(u, ProcessData(u, d))

\* Mutant: a title that nothing has stopped is not written when the next one starts
Forgets(u, d, cmd, now) ==
  [d EXCEPT !.forced = (cmd = "force"), !.start_pts = now, !.end_pts = Open, !.opened = u]

Started(u, d, cmd, now) ==
  LET e == IF d.end_pts = Open THEN HandleRest(u, [d EXCEPT !.end_pts = now]) ELSE d
  IN  [e EXCEPT !.forced = (cmd = "force"), !.start_pts = now, !.end_pts = Open,
                !.opened = u]

Command(u, d, cmd, now) ==
  CASE cmd \in Shows -> Started(u, d, cmd, now)
    [] cmd = "stop"  -> HandleRest(u, [d EXCEPT !.end_pts = now])
    [] cmd = "area"  -> [d EXCEPT !.width = Width(u), !.height = Height(u)]
    [] cmd = "lines" -> [d EXCEPT !.nibble = LineStarts(u)]
    [] OTHER         -> d

ProcessControl(u, pts) ==
  LET cs == Commands(script[u].program)
      d[k \in 0 .. Len(cs)] ==
        IF k = 0 THEN [dec EXCEPT !.done = <<>>]
        ELSE Command(u, d[k - 1], cs[k].cmd, pts + cs[k].date)
  IN  d[Len(cs)]

\* spudec_decode, with what it has written moved to titles
Emit(d) ==
  /\ dec' = [d EXCEPT !.done = <<>>]
  /\ titles' = titles \o [k \in DOMAIN d.done |-> [d.done[k] EXCEPT !.clean = clean']]
Decode(u, pts) == Emit(ProcessControl(u, pts))

(***************************************************************************)
(* spudec_assemble.                                                        *)
(***************************************************************************)
\* Mutant: only a gap in front of a full packet starts anew
TooLongAndFull(pts) == packet_pts + Gap < pts /\ Offset(packet) = packet_size

TooLong(pts) == packet_pts + Gap < pts

Before(pts) == IF TooLong(pts) THEN <<>> ELSE packet

\* The walk through the control pointers: units whose commands are found.
\* What a mixture of units holds at these places can be anything: nothing
\* that ends on itself, or the commands of one of them.
Chained(b) == IF b = Whole(b[1][1]) THEN {b[1][1]}
              ELSE {None} \cup {f[1] : f \in ToSet(b)}

Collected(b, size, pts) ==
  IF Offset(b) \in {size, size - 1}
  THEN /\ packet' = <<>>
       /\ \E u \in Chained(b) :
            IF u = None THEN packet_size' = 0 /\ UNCHANGED <<dec, titles>>
            ELSE packet_size' = size /\ Decode(u, pts)
  ELSE packet' = b /\ packet_size' = size /\ UNCHANGED <<dec, titles>>

\* The first fragment is copied whatever it announces, and the assertion
\* behind it ends the program when that was too little.
FirstFragment(f, pts) ==
  \E size \in (IF f[2] = 1 THEN {Announced(f[1])} ELSE Garbage) :
    IF LengthOf(f) > size
    THEN run' = "died" /\ UNCHANGED <<packet, packet_size, dec, titles>>
    ELSE Collected(<<f>>, size, pts) /\ UNCHANGED run

NextFragment(f, pts) ==
  /\ UNCHANGED run
  /\ IF packet_size < Offset(packet) + LengthOf(f)
     THEN packet' = <<>> /\ packet_size' = 0 /\ UNCHANGED <<dec, titles>>
     ELSE Collected(Append(packet, f), packet_size, pts)

Assemble(f) ==
  LET pts == Unit(f).pts
  IN  /\ packet_pts' = pts
      /\ clean' = (clean \/ (f[2] = 1 /\ packet_pts + Gap < pts))
      /\ IF Before(pts) = <<>> THEN FirstFragment(f, pts) ELSE NextFragment(f, pts)

(***************************************************************************)
(* The loop of subtitle2pgm.                                               *)
(***************************************************************************)
Options == <<script, border, from, want>>
\* As many titles as asked for with -e, which are one at least.
Enough == want # None /\ Len(titles) + 1 = want + 1

\* A fragment that never gets here
Lose ==
  /\ run = "going" /\ ~AllRead /\ ~Enough /\ lost < MaxLost
  /\ lost' = lost + 1 /\ clean' = FALSE /\ at' = After(at)
  /\ UNCHANGED <<Options, packet, packet_size, packet_pts, dec, titles, run>>

\* -e: everything before the wanted time is ignored
Ignore ==
  /\ run = "going" /\ ~AllRead /\ ~Enough
  /\ Unit(at).pts < from
  /\ at' = After(at)
  /\ UNCHANGED <<Options, packet, packet_size, packet_pts, dec, titles, run, lost, clean>>

Fragment ==
  /\ run = "going" /\ ~AllRead /\ ~Enough
  /\ Unit(at).pts >= from
  /\ Assemble(at)
  /\ at' = After(at)
  /\ UNCHANGED <<Options, lost>>

\* The stream ends inside a fragment or what comes next is not one of this
\* version: the program exits and leaves its files as they are
BadStream ==
  /\ run = "going" /\ ~AllRead /\ ~Enough
  /\ run' = "failed"
  /\ UNCHANGED <<Options, at, packet, packet_size, packet_pts, dec, titles, lost, clean>>

\* spudec_free: what is still open or in the buffer is not written
End ==
  /\ run = "going" /\ (AllRead \/ Enough)
  /\ run' = "ended"
  /\ UNCHANGED <<Options, at, packet, packet_size, packet_pts, dec, titles, lost, clean>>

Init ==
  /\ script \in Scripts /\ border \in Borders /\ from \in Froms /\ want \in Wants
  /\ at = <<1, 1>>
  /\ packet = <<>> /\ packet_size = 0 /\ packet_pts = 0
  /\ dec = Decoder /\ titles = <<>> /\ run = "going"
  /\ lost = 0 /\ clean = TRUE

Next == Lose \/ Ignore \/ Fragment \/ BadStream \/ End

Spec == Init /\ [][Next]_vars

(***************************************************************************)
(* Properties.                                                             *)
(***************************************************************************)

\* What the author drew, without the last line, which the code leaves out.
Drawn(u) == [c \in (0 .. Height(u) - 1) \X (0 .. Width(u) - 1) |->
               PixelAt(script[u].lines[c[1] + 1], c[2])]

\* A title that one packet starts and stops is written with the picture of
\* that packet, pixel by pixel, if no fragment is missing and the packet did
\* not have to end an earlier title first: that one gets its picture
\* (spudec_process_data, spudec_process_control).
OwnPicture ==
  \A k \in DOMAIN titles :
    LET t == titles[k]
    IN  (t.clean /\ t.alone /\ t.opened = t.closed) => t.image = Drawn(t.opened)

\* The box that is written lies in the picture and holds every pixel that
\* differs from the background (spudec_crop_image).
NothingCutOff ==
  \A k \in DOMAIN titles :
    LET t    == titles[k]
        rows == t.box[1] .. t.box[2]
        cols == t.box[3] .. t.box[4]
    IN  /\ rows \X cols \subseteq DOMAIN t.image
        /\ \A c \in DOMAIN t.image :
             t.image[c] # t.image[<<0, 0>>] => c \in rows \X cols

\* What is written of a title is what its author drew, and all of it.
PictureRight == OwnPicture /\ NothingCutOff

\* Lost fragments are forgotten at the next long gap: from there on the buffer
\* holds the first fragments of the unit that is being read and nothing else,
\* and the assertion of spudec_assemble holds.
Resynchronised ==
  clean => /\ run # "died"
           /\ packet # <<>> => /\ ~AllRead
                               /\ packet = SubSeq(Whole(at[1]), 1, at[2] - 1)

\* Without losses every title that was started is written once, in order, from
\* its own start to a time not before it; only a title that is still open at
\* the end of the stream is missing.
EveryTitle ==
  LET Seen == {u \in DOMAIN script : Starts(script[u]) # {} /\ script[u].pts >= from}
  IN  (run = "ended" /\ lost = 0 /\ want = None) =>
        /\ {titles[k].opened : k \in DOMAIN titles}
             = Seen \ (IF dec.end_pts = Open THEN {dec.opened} ELSE {})
        /\ dec.end_pts = Open => \A u \in Seen : u <= dec.opened
        /\ \A k \in DOMAIN titles :
             /\ \A j \in 1 .. k - 1 : titles[j].opened < titles[k].opened
             /\ \E c \in Starts(script[titles[k].opened]) :
                  titles[k].start = script[titles[k].opened].pts + c.date
             /\ titles[k].end >= titles[k].start

=============================================================================
