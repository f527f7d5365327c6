---------------------------- MODULE DvdbackupProofs ----------------------------
(***************************************************************************)
(* What dvdbackup mirrors is an image of the title VOBs: InPlace and       *)
(* WholeVobs, for every disc, buffer size and strategy; and only the right *)
(* blocks are copied, of a mirrored VOB and of some chapters: BlocksCopied.*)
(***************************************************************************)
EXTENDS Dvdbackup, SequenceTheorems, WellFoundedInduction, TLAPS

LEMMA Least ==
    ASSUME NEW S \in SUBSET Nat, S # {}
    PROVE  \E b \in S : \A c \in S : b <= c
<1>1. \E b \in S : \A c \in S : ~ (<<c, b>> \in OpToRel(<, Nat))
  BY NatLessThanWellFounded, WFMin
<1>2. \A b, c \in S : ~ (<<c, b>> \in OpToRel(<, Nat)) => b <= c
  BY DEF OpToRel
<1> QED BY <1>1, <1>2

\* A read of n blocks fails or gives a part of them.
LEMMA InputReadLength ==
    ASSUME NEW m \in Media, NEW off \in Nat, NEW n \in Nat, NEW end \in Nat,
           off < end
    PROVE  /\ InputRead(m, off, n, end) \in {-1} \cup 0 .. n
           /\ (InputRead(m, off, n, end) # n /\ off + n <= end) =>
                 \E b \in m.bad : off <= b /\ b < off + n
<1> DEFINE last   == LeastOf(off + n, end) - 1
           failed == m.bad \cap (off .. last)
           first  == CHOOSE b \in failed : \A c \in failed : b <= c
<1>1. last \in Int /\ last < off + n /\ off <= last + 1 /\ (off + n <= end => last = off + n - 1)
  BY DEF LeastOf
<1>2. CASE failed = {}
  BY <1>1, <1>2 DEF InputRead
<1>3. CASE failed # {}
  <2>1. failed \in SUBSET Nat
    BY <1>1
  <2>2. first \in failed
    BY <2>1, <1>3, Least
  <2>3. first \in off .. off + n - 1 /\ first \in m.bad
    BY <2>2, <1>1
  <2> QED BY <1>3, <2>3 DEF InputRead
<1> QED BY <1>2, <1>3

LEMMA FilledSeq ==
    ASSUME NEW off \in Nat, NEW n \in Nat
    PROVE  /\ Filled(off, n) \in Seq(Int) /\ Len(Filled(off, n)) = n
           /\ \A j \in 1 .. n : Filled(off, n)[j] = off + j - 1
BY DEF Filled

LEMMA FilledNot == ASSUME NEW off \in Nat PROVE Filled(off, -1) = Filled(off, 0)
<1>1. 1 .. -1 = 1 .. 0
  OBVIOUS
<1> QED BY <1>1 DEF Filled

\* A read that stays inside a VOB never has a hole.
LEMMA ReadInside ==
    ASSUME NEW m \in Media, NEW v \in 1 .. Parts, NEW off \in Nat, NEW n \in Nat,
           Ends[v - 1] <= off, off < Ends[v], n <= Ends[v] - off
    PROVE  /\ ReadBlocks(m, off, n).ret \in {-1} \cup 0 .. n
           /\ ReadBlocks(m, off, n).buf = Filled(off, ReadBlocks(m, off, n).ret)
           /\ ReadBlocks(m, off, n).ret # n =>
                 \E b \in m.bad : off <= b /\ b < off + n
<1> DEFINE i == CHOOSE p \in 1 .. Parts : Ends[p - 1] <= off /\ off < Ends[p]
<1>1. /\ Parts \in Nat \ {0}
      /\ \A p \in 0 .. Parts : Ends[p] \in Nat
      /\ \A p, q \in 0 .. Parts : p < q => Ends[p] < Ends[q]
  BY DvdReadAssumption
<1>2. off < Ends[Parts]
  <2>1. v = Parts \/ Ends[v] < Ends[Parts]
    BY <1>1
  <2> QED BY <2>1, <1>1
<1>3. i \in 1 .. Parts /\ Ends[i - 1] <= off /\ off < Ends[i]
  OBVIOUS
<1>4. i = v
  <2>1. ~(i < v)
    <3> SUFFICES ASSUME i < v PROVE FALSE
      OBVIOUS
    <3>1. i = v - 1 \/ Ends[i] < Ends[v - 1]
      BY <1>1, <1>3
    <3> QED BY <3>1, <1>1, <1>3
  <2>2. ~(v < i)
    <3> SUFFICES ASSUME v < i PROVE FALSE
      OBVIOUS
    <3>1. v = i - 1 \/ Ends[v] < Ends[i - 1]
      BY <1>1, <1>3
    <3> QED BY <3>1, <1>1, <1>3
  <2> QED BY <2>1, <2>2, <1>3
<1> DEFINE one == InputRead(m, off, n, Ends[v])
<1>5. one \in {-1} \cup 0 .. n /\ (one # n => \E b \in m.bad : off <= b /\ b < off + n)
  <2>1. Ends[v] \in Nat /\ off + n <= Ends[v]
    BY <1>1
  <2> QED BY <2>1, InputReadLength
<1>6. LeastOf(n, Ends[v] - off) = n
  BY <1>1 DEF LeastOf
<1> DEFINE part(p) == InputRead(m, off, LeastOf(n, Ends[p] - off), Ends[p])
<1>7. n <= Ends[i] - off /\ part(i) = one
  BY <1>4, <1>6
<1>8. ~(off >= Ends[Parts])
  BY <1>1, <1>2
<1>9. ReadBlocks(m, off, n) = [ret |-> part(i), buf |-> Filled(off, part(i))]
  BY <1>7, <1>8 DEF ReadBlocks
<1> HIDE DEF i, one, part
<1> QED BY <1>5, <1>7, <1>9

\* The beginning of an image of VOB v.
ImageOf(v, s) == /\ s \in Seq(Int)
                 /\ Len(s) <= Ends[v] - Ends[v - 1]
                 /\ \A j \in 1 .. Len(s) : s[j] \in {Ends[v - 1] + j - 1, Blank}

\* What may be written behind the first p blocks of VOB v.
MayFollow(v, p, data) == /\ data \in Seq(Int)
                     /\ p + Len(data) <= Ends[v] - Ends[v - 1]
                     /\ \A j \in 1 .. Len(data) :
                           data[j] \in {Ends[v - 1] + p + j - 1, Blank}

LEMMA AppendImage ==
    ASSUME NEW v \in 1 .. Parts, NEW s, ImageOf(v, s), NEW data, MayFollow(v, Len(s), data)
    PROVE  ImageOf(v, s \o data) /\ Len(s \o data) = Len(s) + Len(data)
<1>1. Ends[v] \in Nat /\ Ends[v - 1] \in Nat
  BY DvdReadAssumption
<1>2. /\ s \in Seq(Int) /\ Len(s) \in Nat
      /\ data \in Seq(Int) /\ Len(data) \in Nat
  BY LenProperties DEF ImageOf, MayFollow
<1>3. /\ s \o data \in Seq(Int)
      /\ Len(s \o data) = Len(s) + Len(data)
      /\ \A j \in 1 .. Len(s) + Len(data) :
            (s \o data)[j] = IF j <= Len(s) THEN s[j] ELSE data[j - Len(s)]
  BY <1>2, ConcatProperties
<1>4. ASSUME NEW j \in 1 .. Len(s) + Len(data)
      PROVE  (s \o data)[j] \in {Ends[v - 1] + j - 1, Blank}
  <2>1. CASE j <= Len(s)
    BY <2>1, <1>2, <1>3 DEF ImageOf
  <2>2. CASE j > Len(s)
    <3>1. j - Len(s) \in 1 .. Len(data)
      BY <2>2, <1>2
    <3>2. data[j - Len(s)] \in {Ends[v - 1] + Len(s) + (j - Len(s)) - 1, Blank}
      BY <3>1 DEF MayFollow
    <3>3. Ends[v - 1] + Len(s) + (j - Len(s)) - 1 = Ends[v - 1] + j - 1
      BY <1>1, <1>2
    <3>4. (s \o data)[j] = data[j - Len(s)]
      BY <2>2, <1>2, <1>3
    <3> QED BY <3>2, <3>3, <3>4
  <2> QED BY <2>1, <2>2, <1>2
<1> QED BY <1>1, <1>2, <1>3, <1>4 DEF ImageOf, MayFollow

LEMMA Shorter ==
    ASSUME NEW p \in Nat, NEW l \in Nat, NEW m \in Nat, m < l, NEW r \in Int, p + l <= r
    PROVE  p + m <= r
OBVIOUS

LEMMA PartMayFollow ==
    ASSUME NEW v \in 1 .. Parts, NEW p \in Nat, NEW data, MayFollow(v, p, data),
           NEW m \in 0 .. Len(data) - 1
    PROVE  MayFollow(v, p, SubSeq(data, 1, m))
<1>1. Ends[v] \in Nat /\ Ends[v - 1] \in Nat
  BY DvdReadAssumption
<1>2. data \in Seq(Int) /\ Len(data) \in Nat
  BY LenProperties DEF MayFollow
<1>3. \A j \in 1 .. m : data[j] \in Int
  BY <1>2, ElementOfSeq
<1>4. /\ SubSeq(data, 1, m) \in Seq(Int)
      /\ Len(SubSeq(data, 1, m)) = m
      /\ \A j \in 1 .. m : SubSeq(data, 1, m)[j] = data[j]
  BY <1>2, <1>3, SubSeqProperties
<1>5. p + m <= Ends[v] - Ends[v - 1]
  <2>1. p + Len(data) <= Ends[v] - Ends[v - 1] /\ m < Len(data) /\ m \in Nat
    BY <1>2 DEF MayFollow
  <2>2. Ends[v] - Ends[v - 1] \in Int
    BY <1>1
  <2> QED BY <1>2, <2>1, <2>2, Shorter
<1>6. \A j \in 1 .. m : data[j] \in {Ends[v - 1] + p + j - 1, Blank}
  BY <1>2 DEF MayFollow
<1> QED BY <1>4, <1>5, <1>6 DEF MayFollow

LEMMA BlanksSeq ==
    ASSUME NEW n \in Nat
    PROVE  /\ Blanks(n) \in Seq(Int) /\ Len(Blanks(n)) = n
           /\ \A j \in 1 .. n : Blanks(n)[j] = Blank
BY DEF Blanks, Blank

LEMMA PadAfter ==
    ASSUME NEW v \in 1 .. Parts, NEW p \in Nat, NEW buf, MayFollow(v, p, buf),
           NEW pad \in Nat, p + Len(buf) + pad <= Ends[v] - Ends[v - 1]
    PROVE  /\ MayFollow(v, p, buf \o Blanks(pad))
           /\ Len(buf \o Blanks(pad)) = Len(buf) + pad
<1> DEFINE blanks == Blanks(pad)
           all    == buf \o blanks
<1>1. Ends[v] \in Nat /\ Ends[v - 1] \in Nat
  BY DvdReadAssumption
<1>2. /\ buf \in Seq(Int) /\ Len(buf) \in Nat
      /\ \A j \in 1 .. Len(buf) : buf[j] \in {Ends[v - 1] + p + j - 1, Blank}
  BY LenProperties DEF MayFollow
<1>3. /\ blanks \in Seq(Int) /\ Len(blanks) = pad
      /\ \A j \in 1 .. pad : blanks[j] = Blank
  BY BlanksSeq
<1> HIDE DEF blanks
<1>4. /\ all \in Seq(Int) /\ Len(all) = Len(buf) + pad
      /\ \A j \in 1 .. Len(buf) + pad :
            all[j] = IF j <= Len(buf) THEN buf[j] ELSE blanks[j - Len(buf)]
  BY <1>2, <1>3, ConcatProperties
<1> HIDE DEF all
<1>5. ASSUME NEW j \in 1 .. Len(all) PROVE all[j] \in {Ends[v - 1] + p + j - 1, Blank}
  <2>1. CASE j <= Len(buf)
    <3>1. j \in 1 .. Len(buf) /\ all[j] = buf[j]
      BY <2>1, <1>2, <1>4
    <3> QED BY <3>1, <1>2
  <2>2. CASE j > Len(buf)
    <3>1. j - Len(buf) \in 1 .. pad
      BY <2>2, <1>2, <1>4
    <3>2. all[j] = Blank
      BY <3>1, <2>2, <1>2, <1>3, <1>4
    <3> QED BY <3>2
  <2> QED BY <2>1, <2>2, <1>2
<1>6. MayFollow(v, p, all) /\ Len(all) = Len(buf) + pad
  <2>1. p + Len(all) <= Ends[v] - Ends[v - 1]
    BY <1>1, <1>2, <1>4
  <2> QED BY <2>1, <1>4, <1>5 DEF MayFollow
<1> QED BY <1>6 DEF all, blanks

\* The blocks that were read, then some blanks.
LEMMA ChunkFollows ==
    ASSUME NEW v \in 1 .. Parts, NEW p \in Nat, NEW got \in Nat, NEW pad \in Nat,
           p + got + pad <= Ends[v] - Ends[v - 1]
    PROVE  /\ MayFollow(v, p, Filled(Ends[v - 1] + p, got))
           /\ Len(Filled(Ends[v - 1] + p, got)) = got
           /\ MayFollow(v, p, Filled(Ends[v - 1] + p, got) \o Blanks(pad))
           /\ Len(Filled(Ends[v - 1] + p, got) \o Blanks(pad)) = got + pad
<1> DEFINE off == Ends[v - 1] + p
           buf == Filled(off, got)
<1>1. Ends[v] \in Nat /\ Ends[v - 1] \in Nat /\ off \in Nat
  BY DvdReadAssumption
<1> HIDE DEF off
<1>2. /\ buf \in Seq(Int) /\ Len(buf) = got
      /\ \A j \in 1 .. got : buf[j] = off + j - 1
  BY <1>1, FilledSeq
<1> HIDE DEF buf
<1>3. MayFollow(v, p, buf)
  <2>1. p + Len(buf) <= Ends[v] - Ends[v - 1]
    BY <1>1, <1>2
  <2>2. \A j \in 1 .. Len(buf) : buf[j] = Ends[v - 1] + p + j - 1
    BY <1>2 DEF off
  <2> QED BY <2>1, <2>2, <1>2 DEF MayFollow
<1>4. p + Len(buf) + pad <= Ends[v] - Ends[v - 1]
  BY <1>2
<1>5. MayFollow(v, p, buf \o Blanks(pad)) /\ Len(buf \o Blanks(pad)) = got + pad
  <2>1. /\ MayFollow(v, p, buf \o Blanks(pad))
        /\ Len(buf \o Blanks(pad)) = Len(buf) + pad
    BY <1>3, <1>4, PadAfter
  <2> QED BY <2>1, <1>2
<1> QED BY <1>2, <1>3, <1>5 DEF buf, off

Fits(v, p, got, pad) == /\ v \in 1 .. Parts /\ p \in Nat /\ got \in Nat /\ pad \in Nat
                        /\ p + got + pad <= Ends[v] - Ends[v - 1]
Chunk(v, p, got, pad, buf) ==
    /\ MayFollow(v, p, buf) /\ Len(buf) = got
    /\ MayFollow(v, p, buf \o Blanks(pad)) /\ Len(buf \o Blanks(pad)) = got + pad

LEMMA ChunkFilled == ASSUME NEW v, NEW p, NEW got, NEW pad, Fits(v, p, got, pad)
                   PROVE  Chunk(v, p, got, pad, Filled(Ends[v - 1] + p, got))
<1>1. /\ v \in 1 .. Parts /\ p \in Nat /\ got \in Nat /\ pad \in Nat
      /\ p + got + pad <= Ends[v] - Ends[v - 1]
  BY DEF Fits
<1> QED BY <1>1, ChunkFollows DEF Chunk

-------------------------------------------------------------------------------
\* Every VOB is an image as far as it goes: whole before the one at hand, empty
\* behind it; and the counters say how far that one is.
Images ==
    /\ pc \in {"vobs", "blocks", "done", "failed"}
    /\ vob \in 0 .. Parts
    /\ files \in [1 .. MaxFiles -> Seq(Int)]
    /\ \A v \in 1 .. Parts : ImageOf(v, files[v])
    /\ \A v \in 1 .. Parts : v > vob => files[v] = <<>>
    /\ \A v \in 1 .. Parts : v < vob \/ (v = vob /\ pc \in {"vobs", "done"})
                              => Len(files[v]) = Ends[v] - Ends[v - 1]
    /\ pc = "blocks" => /\ vob \in 1 .. Parts
                        /\ offset = Ends[vob - 1] + Len(files[vob])
                        /\ remaining = Ends[vob] - offset
                        /\ toread \in 1 .. BufferSize
    /\ pc = "done" => vob = Parts

MirrorInv == job \in Jobs /\ (job.kind = "mirror" => Images)

LEMMA Sizes ==
    /\ Parts \in Nat \ {0} /\ MaxFiles \in Nat /\ Parts <= MaxFiles
    /\ BufferSize \in Nat \ {0}
    /\ \A v \in 0 .. Parts : Ends[v] \in Nat
    /\ \A v \in 1 .. Parts : Ends[v - 1] < Ends[v]
BY DvdReadAssumption, DvdbackupAssumption

LEMMA WriteKeepsImages ==
    ASSUME Images, pc = "blocks", NEW data, MayFollow(vob, Len(files[vob]), data),
           Write(data)
    PROVE  /\ files' \in [1 .. MaxFiles -> Seq(Int)]
           /\ \A v \in 1 .. Parts : ImageOf(v, files'[v])
           /\ \A v \in 1 .. Parts : v # vob => files'[v] = files[v]
           /\ Len(files'[vob]) = Len(files[vob]) + Len(data)
<1>1. vob \in 1 .. Parts /\ vob \in 1 .. MaxFiles
  BY Sizes DEF Images
<1>2. /\ ImageOf(vob, files[vob] \o data)
      /\ Len(files[vob] \o data) = Len(files[vob]) + Len(data)
  BY <1>1, AppendImage DEF Images
<1>3. files' = [files EXCEPT ![vob] = files[vob] \o data]
  BY DEF Write
<1>4. files[vob] \o data \in Seq(Int)
  BY <1>2 DEF ImageOf
<1>5. files \in [1 .. MaxFiles -> Seq(Int)] /\ \A v \in 1 .. Parts : ImageOf(v, files[v])
  BY DEF Images
<1>6. files'[vob] = files[vob] \o data /\ \A v \in 1 .. Parts : v # vob => files'[v] = files[v]
  BY <1>1, <1>3, <1>5, Sizes
<1>7. files' \in [1 .. MaxFiles -> Seq(Int)]
  BY <1>1, <1>3, <1>4, <1>5
<1>8. ASSUME NEW v \in 1 .. Parts PROVE ImageOf(v, files'[v])
  <2>1. CASE v = vob
    BY <2>1, <1>2, <1>6
  <2>2. CASE v # vob
    BY <2>2, <1>5, <1>6
  <2> QED BY <2>1, <2>2
<1> QED BY <1>2, <1>6, <1>7, <1>8

LEMMA InVob ==
    ASSUME NEW e \in Nat, NEW p \in Nat, NEW f \in Nat, NEW o, o = e + p,
           NEW r, r = f - o, r > 0
    PROVE  o \in Nat /\ e <= o /\ o < f
OBVIOUS

\* What DVDCopyBlocks() has at hand belongs where it is about to be written.
LEMMA ChunkFits ==
    ASSUME MirrorInv, job.kind = "mirror", pc = "blocks", remaining > 0
    PROVE  LET n    == LeastOf(toread, remaining)
               read == ReadBlocks(job.disc, offset, n)
               got  == IF read.ret < 0 THEN 0 ELSE read.ret
               pad  == Padding(n, got)
               data == read.buf \o Blanks(pad)
           IN  /\ n \in 1 .. BufferSize /\ got \in 0 .. n /\ pad \in 0 .. n - got
               /\ n <= remaining
               /\ MayFollow(vob, Len(files[vob]), read.buf) /\ Len(read.buf) = got
               /\ MayFollow(vob, Len(files[vob]), data) /\ Len(data) = got + pad
<1> DEFINE n    == LeastOf(toread, remaining)
           read == ReadBlocks(job.disc, offset, n)
           got  == IF read.ret < 0 THEN 0 ELSE read.ret
           pad  == Padding(n, got)
           p    == Len(files[vob])
<1>1. /\ vob \in 1 .. Parts /\ toread \in 1 .. BufferSize
      /\ offset = Ends[vob - 1] + p /\ remaining = Ends[vob] - offset
      /\ ImageOf(vob, files[vob])
  BY DEF MirrorInv, Images
<1>2. p \in Nat /\ Ends[vob - 1] \in Nat /\ Ends[vob] \in Nat
  BY <1>1, Sizes, LenProperties DEF ImageOf
<1>3. n \in Nat /\ n \in 1 .. BufferSize /\ n <= remaining /\ n <= Ends[vob] - offset
  BY <1>1, <1>2, Sizes DEF LeastOf
<1>4. job.disc \in Media /\ job.strategy \in Strategies
  BY DvdbackupAssumption DEF MirrorInv
<1>5. /\ offset \in Nat /\ Ends[vob - 1] <= offset /\ offset < Ends[vob]
  <2> HIDE DEF p
  <2> QED BY <1>1, <1>2, InVob
<1> HIDE DEF n, p
<1>6. read.ret \in {-1} \cup 0 .. n /\ read.buf = Filled(offset, read.ret)
  BY <1>1, <1>3, <1>4, <1>5, ReadInside
<1> HIDE DEF read
<1>7. got \in 0 .. n
  BY <1>3, <1>6
<1>8. read.buf = Filled(offset, got)
  <2>1. CASE read.ret = -1
    BY <2>1, <1>5, <1>6, FilledNot DEF got
  <2>2. CASE read.ret \in 0 .. n
    BY <2>2, <1>3, <1>6 DEF got
  <2> QED BY <2>1, <2>2, <1>6
<1> HIDE DEF got
<1>9. pad \in 0 .. n - got
  BY <1>3, <1>4, <1>7 DEF Padding, Strategies
<1> HIDE DEF pad
<1>10. Fits(vob, p, got, pad)
  BY <1>1, <1>2, <1>3, <1>7, <1>9 DEF Fits
<1>11. /\ MayFollow(vob, p, read.buf) /\ Len(read.buf) = got
       /\ MayFollow(vob, p, read.buf \o Blanks(pad))
       /\ Len(read.buf \o Blanks(pad)) = got + pad
  <2>1. read.buf = Filled(Ends[vob - 1] + p, got)
    BY <1>1, <1>8
  <2>2. Chunk(vob, p, got, pad, Filled(Ends[vob - 1] + p, got))
    BY <1>10, ChunkFilled
  <2>3. Chunk(vob, p, got, pad, read.buf)
    BY <2>1, <2>2
  <2> QED BY <2>3 DEF Chunk
<1>12. /\ n \in 1 .. BufferSize /\ got \in 0 .. n /\ pad \in 0 .. n - got
       /\ n <= remaining
  BY <1>3, <1>7, <1>9
<1> USE DEF n, p, read, got, pad
<1> QED BY <1>11, <1>12

\* What a write to the VOB at hand leaves behind, when it goes d blocks further.
LEMMA ImagesAfterWrite ==
    ASSUME Images, pc = "blocks", NEW data, MayFollow(vob, Len(files[vob]), data),
           Write(data), pc' \in {"blocks", "failed"},
           vob' = vob, toread' \in 1 .. BufferSize,
           pc' = "blocks" => /\ offset' = offset + Len(data)
                             /\ remaining' = remaining - Len(data)
    PROVE  Images'
<1>1. /\ files' \in [1 .. MaxFiles -> Seq(Int)]
      /\ \A v \in 1 .. Parts : ImageOf(v, files'[v])
      /\ \A v \in 1 .. Parts : v # vob => files'[v] = files[v]
      /\ Len(files'[vob]) = Len(files[vob]) + Len(data)
  BY WriteKeepsImages
<1>2. /\ vob \in 1 .. Parts
      /\ offset = Ends[vob - 1] + Len(files[vob]) /\ remaining = Ends[vob] - offset
      /\ files[vob] \in Seq(Int)
  BY Sizes DEF Images
<1>3. /\ Len(files[vob]) \in Nat /\ Len(data) \in Nat
      /\ Ends[vob - 1] \in Nat /\ Ends[vob] \in Nat
  BY <1>2, Sizes, LenProperties DEF MayFollow
<1>4. pc' = "blocks" => /\ offset' = Ends[vob - 1] + Len(files'[vob])
                        /\ remaining' = Ends[vob] - offset'
  <2> SUFFICES ASSUME pc' = "blocks" PROVE /\ offset' = Ends[vob - 1] + Len(files'[vob])
                                           /\ remaining' = Ends[vob] - offset'
    OBVIOUS
  <2>1. offset' = offset + Len(data) /\ remaining' = remaining - Len(data)
    OBVIOUS
  <2>2. Len(files'[vob]) = Len(files[vob]) + Len(data)
    BY <1>1
  <2>3. offset' = Ends[vob - 1] + Len(files'[vob])
    <3> DEFINE e == Ends[vob - 1]
               b == Len(files[vob])
               d == Len(data)
    <3>1. e \in Nat /\ b \in Nat /\ d \in Nat
      BY <1>3
    <3>2. offset = e + b /\ offset' = offset + d /\ Len(files'[vob]) = b + d
      BY <2>1, <2>2, <1>2
    <3> HIDE DEF e, b, d
    <3>3. offset' = e + (b + d)
      BY <3>1, <3>2
    <3>4. offset' = e + Len(files'[vob])
      BY <3>2, <3>3
    <3> QED BY <3>4 DEF e
  <2>4. remaining' = Ends[vob] - offset'
    BY <2>1, <1>2, <1>3
  <2> QED BY <2>3, <2>4
<1>5. \A v \in 1 .. Parts : v > vob => files'[v] = <<>>
  BY <1>1, <1>2 DEF Images
<1>6. \A v \in 1 .. Parts : v < vob => Len(files'[v]) = Ends[v] - Ends[v - 1]
  BY <1>1, <1>2 DEF Images
<1>7. (\A v \in 1 .. Parts : ImageOf(v, files[v]))' <=>
        \A v \in 1 .. Parts : ImageOf(v, files'[v])
  BY DEF ImageOf
<1> QED BY <1>1, <1>2, <1>4, <1>5, <1>6, <1>7 DEF Images

LEMMA InitMirror == Init => MirrorInv
<1> SUFFICES ASSUME Init PROVE MirrorInv
  OBVIOUS
<1>1. ASSUME NEW v \in 1 .. Parts PROVE ImageOf(v, files[v])
  <2>1. files[v] = <<>>
    BY Sizes DEF Init
  <2>2. <<>> \in Seq(Int) /\ Len(<<>>) = 0
    OBVIOUS
  <2>3. Ends[v - 1] \in Nat /\ Ends[v] \in Nat /\ Ends[v - 1] < Ends[v]
    BY Sizes
  <2> QED BY <2>1, <2>2, <2>3 DEF ImageOf
<1>2. files \in [1 .. MaxFiles -> Seq(Int)] /\ \A v \in 1 .. Parts : files[v] = <<>>
  BY Sizes DEF Init
<1> QED BY <1>1, <1>2, Sizes DEF Init, MirrorInv, Images

\* One step per action; those of DVDMirrorChapters() are not reached.
LEMMA MirrorStep == MirrorInv /\ [Next]_vars => MirrorInv'
<1> SUFFICES ASSUME MirrorInv, [Next]_vars, job.kind = "mirror" PROVE Images'
  <2>1. MirrorInv /\ [Next]_vars => job' = job
    BY DEF Next, Mirror, Chapters, OpenVob, EndTitle, CopyChunk, EndVob, ChooseCells,
           SortCells, NextCell, CopyCell, EndCells, Terminated, vars
  <2> QED BY <2>1 DEF MirrorInv
<1> USE DEF MirrorInv
<1>1. CASE OpenVob
  <2>1. /\ vob' \in 1 .. Parts /\ vob' = vob + 1 /\ files' = files
        /\ offset' = Ends[vob] /\ remaining' = Ends[vob + 1] - Ends[vob]
        /\ toread' \in 1 .. BufferSize /\ pc' \in {"blocks", "failed"}
    <3>1. vob \in 0 .. Parts /\ vob # Parts
      BY <1>1 DEF OpenVob, Images
    <3>2. vob + 1 \in 1 .. Parts
      BY <3>1, Sizes
    <3>3. /\ vob' = vob + 1 /\ files' = files
          /\ offset' = Ends[vob] /\ remaining' = Ends[vob + 1] - Ends[vob]
          /\ toread' \in 1 .. BufferSize /\ pc' \in {"blocks", "failed"}
      BY <1>1, Sizes DEF OpenVob
    <3> QED BY <3>2, <3>3
  <2>2. files[vob'] = <<>> /\ Len(files[vob']) = 0
    BY <2>1, <1>1 DEF Images, OpenVob
  <2>3. offset' = Ends[vob' - 1] + Len(files'[vob']) /\ remaining' = Ends[vob'] - offset'
    <3>1. vob \in 0 .. Parts /\ vob + 1 \in 0 .. Parts
      BY <2>1 DEF Images
    <3>2. vob' - 1 = vob
      BY <3>1, <2>1
    <3>3. Ends[vob] \in Nat /\ Ends[vob + 1] \in Nat
      BY <3>1, Sizes
    <3> QED BY <3>2, <3>3, <2>1, <2>2
  <2>4. \A v \in 1 .. Parts : v < vob' => Len(files'[v]) = Ends[v] - Ends[v - 1]
    BY <2>1, <1>1 DEF Images, OpenVob
  <2> QED BY <2>1, <2>3, <2>4, <1>1 DEF Images, OpenVob, ImageOf
<1>2. CASE EndTitle
  BY <1>2 DEF EndTitle, Images, ImageOf
<1>3. CASE CopyChunk
  <2> DEFINE n    == LeastOf(toread, remaining)
             read == ReadBlocks(job.disc, offset, n)
             got  == IF read.ret < 0 THEN 0 ELSE read.ret
             pad  == Padding(n, got)
             data == read.buf \o Blanks(pad)
  <2>1. /\ pc = "blocks" /\ remaining > 0 /\ vob' = vob /\ toread' = n
        /\ \/ /\ Write(data) /\ pc' = pc
              /\ offset' = offset + (got + pad)
              /\ remaining' = remaining - (got + pad)
           \/ Write(read.buf) /\ pc' = "failed"
           \/ WriteFails(data) /\ pc' = "failed"
    BY <1>3 DEF CopyChunk
  <2>2. /\ n \in 1 .. BufferSize
        /\ MayFollow(vob, Len(files[vob]), read.buf)
        /\ MayFollow(vob, Len(files[vob]), data) /\ Len(data) = got + pad
    BY <2>1, ChunkFits
  <2>3. Images /\ toread' \in 1 .. BufferSize
    BY <2>1, <2>2
  <2> HIDE DEF n, read, got, pad, data
  <2>4. CASE /\ Write(data) /\ pc' = pc
             /\ offset' = offset + (got + pad)
             /\ remaining' = remaining - (got + pad)
    <3>1. /\ offset' = offset + Len(data) /\ remaining' = remaining - Len(data)
          /\ pc' \in {"blocks", "failed"}
      BY <2>1, <2>2, <2>4
    <3> QED BY <2>1, <2>2, <2>3, <2>4, <3>1, ImagesAfterWrite
  <2>5. CASE Write(read.buf) /\ pc' = "failed"
    BY <2>1, <2>2, <2>3, <2>5, ImagesAfterWrite
  <2>6. CASE WriteFails(data) /\ pc' = "failed"
    <3>1. PICK m \in 0 .. Len(data) - 1 : Write(SubSeq(data, 1, m))
      BY <2>6 DEF WriteFails
    <3>2. Len(files[vob]) \in Nat /\ vob \in 1 .. Parts
      BY <2>1, <2>3, Sizes, LenProperties DEF Images
    <3>3. MayFollow(vob, Len(files[vob]), SubSeq(data, 1, m))
      BY <2>2, <3>2, PartMayFollow
    <3> QED BY <2>1, <2>3, <2>6, <3>1, <3>3, ImagesAfterWrite
  <2> QED BY <2>1, <2>4, <2>5, <2>6
<1>4. CASE EndVob
  <2>1. /\ pc = "blocks" /\ pc' = "vobs" /\ remaining = 0
        /\ UNCHANGED <<vob, offset, toread, files>>
    BY <1>4 DEF EndVob
  <2>2. /\ vob \in 1 .. Parts /\ offset = Ends[vob - 1] + Len(files[vob])
        /\ Ends[vob] - offset = 0 /\ files[vob] \in Seq(Int)
    BY <2>1, Sizes DEF Images
  <2>3. /\ Len(files[vob]) \in Nat /\ Ends[vob - 1] \in Nat /\ Ends[vob] \in Nat
    BY <2>2, Sizes, LenProperties
  <2>4. Len(files[vob]) = Ends[vob] - Ends[vob - 1]
    BY <2>2, <2>3
  <2> QED BY <2>1, <2>2, <2>4 DEF Images, ImageOf
<1>5. CASE Chapters
  BY <1>5 DEF Chapters, ChooseCells, SortCells, NextCell, CopyCell, EndCells, Images
<1>6. CASE UNCHANGED vars
  BY <1>6 DEF vars, Images, ImageOf
<1>7. CASE Terminated
  BY <1>6, <1>7 DEF Terminated
<1> QED BY <1>1, <1>2, <1>3, <1>4, <1>5, <1>6, <1>7 DEF Next, Mirror

THEOREM Mirroring == Spec => []MirrorInv
BY InitMirror, MirrorStep, PTL DEF Spec

\* dvdbackup never puts a block of a mirrored VOB in another's place: for every
\* set of unreadable blocks, strategy, buffer size and division into VOBs.
THEOREM MirrorInPlace == Spec => []InPlace
<1>1. MirrorInv => InPlace
  BY DEF MirrorInv, Images, ImageOf, InPlace
<1> QED BY <1>1, Mirroring, PTL

\* The VOBs mirrored are as long as those of the disc when dvdbackup is done and
\* at no time longer.
THEOREM MirrorWhole == Spec => []WholeVobs
<1>1. MirrorInv => WholeVobs
  BY DEF MirrorInv, Images, ImageOf, WholeVobs
<1> QED BY <1>1, Mirroring, PTL

-------------------------------------------------------------------------------
(***************************************************************************)
(* What is given up of a mirrored VOB: BlankNearBad                        *)
(***************************************************************************)
GivenUp(x) == /\ job.strategy # "abort"
              /\ \E b \in job.disc.bad : x - BufferSize < b /\ b < x + BufferSize

LEMMA BlanksNearBad ==
    ASSUME MirrorInv, job.kind = "mirror", pc = "blocks", remaining > 0
    PROVE  LET n    == LeastOf(toread, remaining)
               read == ReadBlocks(job.disc, offset, n)
               got  == IF read.ret < 0 THEN 0 ELSE read.ret
               data == read.buf \o Blanks(Padding(n, got))
           IN  /\ \A k \in 1 .. Len(read.buf) : read.buf[k] # Blank
               /\ \A k \in 1 .. Len(data) : data[k] = Blank => GivenUp(offset + k - 1)
<1> DEFINE n    == LeastOf(toread, remaining)
           read == ReadBlocks(job.disc, offset, n)
           got  == IF read.ret < 0 THEN 0 ELSE read.ret
           pad  == Padding(n, got)
           data == read.buf \o Blanks(pad)
           p    == Len(files[vob])
<1>1. /\ n \in 1 .. BufferSize /\ got \in 0 .. n /\ pad \in 0 .. n - got
      /\ n <= remaining /\ Len(read.buf) = got /\ Len(data) = got + pad
      /\ MayFollow(vob, Len(files[vob]), read.buf)
  BY ChunkFits
<1>2. /\ vob \in 1 .. Parts /\ toread \in 1 .. BufferSize
      /\ offset = Ends[vob - 1] + p /\ remaining = Ends[vob] - offset
      /\ ImageOf(vob, files[vob])
  BY DEF MirrorInv, Images
<1>3. p \in Nat /\ Ends[vob - 1] \in Nat /\ Ends[vob] \in Nat /\ BufferSize \in Nat
  BY <1>2, Sizes, LenProperties DEF ImageOf
<1>4. job.disc \in Media /\ job.strategy \in Strategies
  BY DvdbackupAssumption DEF MirrorInv
<1>5. job.disc.bad \subseteq Nat
  <2>1. Ends[Parts] \in Nat
    BY Sizes
  <2>2. Blocks \subseteq Nat
    BY <2>1 DEF Blocks
  <2> QED BY <1>4, <2>2 DEF Media
<1> HIDE DEF p, n
<1>6. offset \in Nat /\ Ends[vob - 1] <= offset /\ offset < Ends[vob] /\ n \in Nat
      /\ n <= Ends[vob] - offset
  <2>1. offset \in Nat /\ Ends[vob - 1] <= offset /\ offset < Ends[vob]
    BY <1>2, <1>3, InVob
  <2>2. n \in Nat /\ n <= Ends[vob] - offset
    BY <1>1, <1>2, <1>3
  <2> QED BY <2>1, <2>2
<1>7. /\ read.ret \in {-1} \cup 0 .. n
      /\ read.buf = Filled(offset, read.ret)
      /\ read.ret # n => \E b \in job.disc.bad : offset <= b /\ b < offset + n
  BY <1>2, <1>4, <1>6, ReadInside
<1> HIDE DEF read
<1>8. /\ read.buf \in Seq(Int)
      /\ \A k \in 1 .. got : read.buf[k] = offset + k - 1
  <2>1. CASE read.ret = -1
    BY <1>1, <1>6, <1>7, <2>1, FilledNot, FilledSeq
  <2>2. CASE read.ret \in 0 .. n
    <3>1. got = read.ret /\ got \in Nat
      BY <1>6, <2>2 DEF got
    <3> HIDE DEF got
    <3>2. /\ Filled(offset, got) \in Seq(Int)
          /\ \A k \in 1 .. got : Filled(offset, got)[k] = offset + k - 1
      BY <1>6, <3>1, FilledSeq
    <3>3. read.buf = Filled(offset, got)
      BY <1>7, <3>1
    <3> QED BY <3>2, <3>3
  <2> QED BY <1>7, <2>1, <2>2
<1>9. \A k \in 1 .. got : read.buf[k] # Blank
  BY <1>1, <1>6, <1>8 DEF Blank
<1>10. pad # 0 => read.ret # n /\ job.strategy # "abort"
  BY <1>4, <1>6, <1>7 DEF Padding, Strategies
<1> HIDE DEF got, pad
<1>11. ASSUME NEW k \in 1 .. Len(data), data[k] = Blank
       PROVE  GivenUp(offset + k - 1)
  <2>1. Blanks(pad) \in Seq(Int) /\ Len(Blanks(pad)) = pad /\ pad \in Nat /\ got \in Nat
    <3>1. pad \in Nat /\ got \in Nat
      BY <1>1, <1>6
    <3> QED BY <3>1, BlanksSeq
  <2>2. k <= got => data[k] = read.buf[k]
    BY <1>1, <1>8, <2>1, ConcatProperties
  <2>3. k > got /\ k <= n /\ k \in Nat /\ pad # 0
    BY <1>1, <1>9, <1>11, <2>1, <2>2
  <2>4. PICK c \in job.disc.bad : offset <= c /\ c < offset + n
    BY <1>7, <1>10, <2>3
  <2>5. c \in Nat /\ n <= BufferSize
    BY <1>1, <1>5
  <2>6. offset + k - 1 - BufferSize < c /\ c < offset + k - 1 + BufferSize
    BY <1>3, <1>6, <2>1, <2>3, <2>4, <2>5
  <2>7. job.strategy # "abort"
    BY <1>10, <2>3
  <2> QED BY <1>3, <1>6, <2>3, <2>5, <2>6, <2>7 DEF GivenUp
<1> USE DEF n, read, got, pad, data
<1> QED BY <1>1, <1>9, <1>11

\* What is written behind the blocks of a VOB keeps it.
LEMMA WriteKeepsNear ==
    ASSUME MirrorInv, job.kind = "mirror", pc = "blocks", BlankNearBad,
           NEW data \in Seq(Int), Write(data), job' = job,
           \A k \in 1 .. Len(data) : data[k] = Blank => GivenUp(offset + k - 1)
    PROVE  BlankNearBad'
<1> DEFINE p == Len(files[vob])
<1>1. /\ vob \in 1 .. Parts /\ vob \in 1 .. MaxFiles
      /\ files \in [1 .. MaxFiles -> Seq(Int)]
      /\ offset = Ends[vob - 1] + p
  BY Sizes DEF MirrorInv, Images
<1>2. files[vob] \in Seq(Int) /\ p \in Nat /\ Len(data) \in Nat /\ Ends[vob - 1] \in Nat
  BY <1>1, Sizes, LenProperties
<1>3. /\ Len(files[vob] \o data) = p + Len(data)
      /\ \A j \in 1 .. p + Len(data) :
            (files[vob] \o data)[j] = IF j <= p THEN files[vob][j] ELSE data[j - p]
  BY <1>2, ConcatProperties
<1>4. files'[vob] = files[vob] \o data /\ \A v \in 1 .. Parts : v # vob => files'[v] = files[v]
  BY <1>1, Sizes DEF Write
<1>5. ASSUME NEW v \in 1 .. Parts, NEW j \in 1 .. Len(files'[v]), files'[v][j] = Blank
      PROVE  GivenUp(Ends[v - 1] + j - 1)
  <2>1. CASE v # vob \/ j <= p
    <3>1. j \in 1 .. Len(files[v]) /\ files[v][j] = Blank
      BY <1>2, <1>3, <1>4, <1>5, <2>1
    <3> QED BY <3>1 DEF BlankNearBad, GivenUp
  <2>2. CASE v = vob /\ ~(j <= p)
    <3>1. j - p \in 1 .. Len(data) /\ data[j - p] = Blank
      <4>1. files'[v] = files[vob] \o data
        BY <1>4, <2>2
      <4>2. j \in 1 .. p + Len(data) /\ (files[vob] \o data)[j] = Blank
        BY <1>3, <1>5, <4>1
      <4>3. j - p \in 1 .. Len(data)
        BY <1>2, <2>2, <4>2
      <4> QED BY <1>3, <2>2, <4>2, <4>3
    <3>2. GivenUp(offset + (j - p) - 1)
      BY <3>1
    <3>3. offset + (j - p) - 1 = Ends[v - 1] + j - 1
      BY <1>1, <1>2, <1>3, <1>4, <2>2
    <3> QED BY <3>2, <3>3
  <2> QED BY <2>1, <2>2
<1> QED BY <1>5 DEF BlankNearBad, GivenUp

LEMMA NearStep == MirrorInv /\ BlankNearBad /\ [Next]_vars => BlankNearBad'
<1> SUFFICES ASSUME MirrorInv, BlankNearBad, [Next]_vars, job.kind = "mirror"
             PROVE  BlankNearBad'
  <2>1. [Next]_vars => job' = job
    BY DEF Next, Mirror, Chapters, OpenVob, EndTitle, CopyChunk, EndVob, ChooseCells,
           SortCells, NextCell, CopyCell, EndCells, Terminated, vars
  <2> QED BY <2>1 DEF BlankNearBad
<1>1. CASE CopyChunk
  <2> DEFINE n    == LeastOf(toread, remaining)
             read == ReadBlocks(job.disc, offset, n)
             got  == IF read.ret < 0 THEN 0 ELSE read.ret
             pad  == Padding(n, got)
             data == read.buf \o Blanks(pad)
  <2>1. /\ pc = "blocks" /\ remaining > 0 /\ job' = job
        /\ Write(data) \/ Write(read.buf) \/ WriteFails(data)
    BY <1>1 DEF CopyChunk
  <2>2. read.buf \in Seq(Int) /\ data \in Seq(Int)
    BY <2>1, ChunkFits DEF MayFollow
  <2>3. /\ \A k \in 1 .. Len(read.buf) : read.buf[k] # Blank
        /\ \A k \in 1 .. Len(data) : data[k] = Blank => GivenUp(offset + k - 1)
    BY <2>1, BlanksNearBad
  <2> HIDE DEF n, read, got, pad, data
  <2>4. CASE Write(data)
    BY <2>1, <2>2, <2>3, <2>4, WriteKeepsNear
  <2>5. CASE Write(read.buf)
    BY <2>1, <2>2, <2>3, <2>5, WriteKeepsNear
  <2>6. CASE WriteFails(data)
    <3>1. PICK m \in 0 .. Len(data) - 1 : Write(SubSeq(data, 1, m))
      BY <2>6 DEF WriteFails
    <3>2. /\ SubSeq(data, 1, m) \in Seq(Int) /\ Len(SubSeq(data, 1, m)) = m
          /\ \A k \in 1 .. m : SubSeq(data, 1, m)[k] = data[k] /\ k \in 1 .. Len(data)
      <4>1. Len(data) \in Nat /\ \A k \in 1 .. m : data[k] \in Int
        BY <2>2, LenProperties, ElementOfSeq
      <4> QED BY <2>2, <4>1, SubSeqProperties
    <3>3. \A k \in 1 .. Len(SubSeq(data, 1, m)) :
             SubSeq(data, 1, m)[k] = Blank => GivenUp(offset + k - 1)
      BY <2>3, <3>2
    <3> QED BY <2>1, <3>1, <3>2, <3>3, WriteKeepsNear
  <2> QED BY <2>1, <2>4, <2>5, <2>6
<1>2. CASE OpenVob \/ EndTitle \/ EndVob
  BY <1>2 DEF OpenVob, EndTitle, EndVob, BlankNearBad
<1>3. CASE Chapters
  BY <1>3 DEF Chapters, ChooseCells, SortCells, NextCell, CopyCell, EndCells, MirrorInv, Images
<1>4. CASE UNCHANGED vars
  BY <1>4 DEF vars, BlankNearBad
<1>5. CASE Terminated
  BY <1>4, <1>5 DEF Terminated
<1> QED BY <1>1, <1>2, <1>3, <1>4, <1>5 DEF Next, Mirror

LEMMA NearInit == Init => BlankNearBad
<1> SUFFICES ASSUME Init PROVE BlankNearBad
  OBVIOUS
<1>1. \A v \in 1 .. Parts : files[v] = <<>>
  BY Sizes DEF Init
<1>2. Len(<<>>) = 0
  OBVIOUS
<1> QED BY <1>1, <1>2 DEF BlankNearBad

LEMMA Nearness == Spec => []BlankNearBad
BY InitMirror, MirrorStep, NearInit, NearStep, PTL DEF Spec

-------------------------------------------------------------------------------
(***************************************************************************)
(* Which sectors of a title's chapters are copied: ChapterBlocks           *)
(***************************************************************************)
Cells == [first : Nat, last : Int]

\* The blocks from f to l are of one of the cells asked for.
OfChosen(f, l) == \E c \in 1 .. Len(Chosen) : f .. l \subseteq CellBlocks(Chosen[c])

ChapterTypes ==
    /\ pc \in {"chapters", "sort", "cells", "done", "failed"}
    /\ files \in [1 .. MaxFiles -> Seq(Int)]
    /\ offset \in Nat /\ remaining \in Int
    /\ todo \in Seq(Cells)
    /\ pc \in {"chapters", "sort"} => /\ \A v \in 1 .. MaxFiles : files[v] = <<>>
                                      /\ offset = 0 /\ remaining = 0
    /\ pc = "cells" => /\ vob \in 1 .. MaxFiles
                       /\ \A v \in 1 .. MaxFiles : v > vob => files[v] = <<>>
                       /\ Len(files[vob]) <= MaxVob

Choice ==
    /\ pc \in {"sort", "cells"} =>
          \A k \in 1 .. Len(todo) : OfChosen(todo[k].first, todo[k].last)
    /\ (pc = "cells" /\ remaining > 0) => OfChosen(offset, offset + remaining - 1)

\* bsort_min_to_max() at the places i and j: what is before the i-th is sorted,
\* and the i-th, or the one before until j gets there, is the greatest of all.
Sorted(s, i) == \A k, l \in 1 .. Len(s) : k < l /\ l < i => s[k].first <= s[l].first
UpTo(s, j, i) == \A k \in 1 .. Len(s) : k < j => s[k].first <= s[i].first
Greatest(s, i) == \A k \in 1 .. Len(s) : s[k].first <= s[i].first

SortedUpTo(s, i, j) ==
    /\ i \in 1 .. Len(s) + 1
    /\ IF i <= Len(s) THEN j \in 1 .. Len(s) ELSE j = 1
    /\ Sorted(s, i)
    /\ i <= Len(s) => UpTo(s, j, i)
    /\ (i <= Len(s) /\ i > 1 /\ j < i) => Greatest(s, i - 1)
    /\ (i <= Len(s) /\ i > 1 /\ j >= i) => Greatest(s, i)

Sorting == pc = "sort" => pair \in Nat \X Nat /\ SortedUpTo(todo, pair[1], pair[2])

\* The cells to come follow each other, and the one at hand.
Lined == pc = "cells" =>
    /\ \A k \in 1 .. Len(todo) - 1 : /\ todo[k].first <= todo[k + 1].first
                                     /\ todo[k].last < todo[k + 1].first
    /\ todo # <<>> => offset <= todo[1].first /\ offset + remaining <= todo[1].first

Behind(x) == \A v \in 1 .. MaxFiles : \A i \in 1 .. Len(files[v]) :
                files[v][i] # Stale => files[v][i] < x

Copying == ChapterTypes /\ Choice /\ Sorting /\ Lined
           /\ (pc = "cells" => Behind(offset)) /\ ChapterBlocks

ChapterInv == job \in Jobs /\ (job.kind = "chapters" => Copying)

LEMMA CellOf ==
    ASSUME NEW s \in Seq(Cells), NEW k \in 1 .. Len(s)
    PROVE  s[k] \in Cells /\ s[k].first \in Nat /\ s[k].last \in Int
<1>1. s[k] \in Cells
  BY ElementOfSeq
<1> QED BY <1>1 DEF Cells

LEMMA Shortened ==
    ASSUME NEW c \in Cells, NEW x \in Int
    PROVE  LET d == [c EXCEPT !.last = x]
           IN  d \in Cells /\ d.first = c.first /\ d.last = x
BY DEF Cells

\* One comparison of bsort_min_to_max().
Compared(s, i, j, t) ==
    t = IF s[i].first < s[j].first THEN [s EXCEPT ![i] = s[j], ![j] = s[i]] ELSE s

SortedOn(s, i, j, t) ==
    /\ t \in Seq(Cells) /\ Len(t) = Len(s)
    /\ \A k \in 1 .. Len(t) : \E l \in 1 .. Len(s) : t[k] = s[l]
    /\ j < Len(s) => SortedUpTo(t, i, j + 1)
    /\ ~(j < Len(s)) => SortedUpTo(t, i + 1, 1)

LEMMA SortStep ==
    ASSUME NEW s \in Seq(Cells), NEW i \in Nat, NEW j \in Nat,
           SortedUpTo(s, i, j), i <= Len(s), NEW t, Compared(s, i, j, t)
    PROVE  SortedOn(s, i, j, t)
<1> DEFINE n == Len(s)
<1>1. /\ n \in Nat /\ i \in 1 .. n /\ j \in 1 .. n
      /\ Sorted(s, i) /\ UpTo(s, j, i)
      /\ (i > 1 /\ j < i) => Greatest(s, i - 1)
      /\ (i > 1 /\ j >= i) => Greatest(s, i)
  BY DEF SortedUpTo
<1>2. \A k \in 1 .. n : s[k] \in Cells /\ s[k].first \in Nat
  BY CellOf
<1>3. CASE ~(s[i].first < s[j].first)
  <2>1. t = s
    BY <1>3 DEF Compared
  <2>2. s[j].first <= s[i].first
    BY <1>1, <1>2, <1>3
  <2>3. UpTo(s, j + 1, i)
    BY <1>1, <2>2 DEF UpTo
  <2>4. (i > 1 /\ j + 1 < i) => Greatest(s, i - 1)
    BY <1>1
  <2>5. (i > 1 /\ j + 1 >= i) => Greatest(s, i)
    <3>1. CASE j >= i
      BY <1>1, <3>1
    <3>2. ASSUME i > 1, j + 1 = i PROVE Greatest(s, i)
      <4>1. j = i - 1 /\ Greatest(s, j)
        BY <1>1, <3>2
      <4> QED BY <1>1, <1>2, <2>2, <4>1 DEF Greatest
    <3> QED BY <1>1, <3>1, <3>2
  <2>6. j < n => SortedUpTo(s, i, j + 1)
    BY <1>1, <2>3, <2>4, <2>5 DEF SortedUpTo
  <2>7. ~(j < n) => SortedUpTo(s, i + 1, 1)
    <3> SUFFICES ASSUME j = n PROVE SortedUpTo(s, i + 1, 1)
      BY <1>1
    <3>1. Greatest(s, i)
      BY <1>1, <2>3 DEF UpTo, Greatest
    <3>2. Sorted(s, i + 1)
      BY <1>1, <3>1 DEF Sorted, Greatest
    <3>3. UpTo(s, 1, i + 1)
      BY <1>1 DEF UpTo
    <3>4. i + 1 - 1 = i /\ ~(1 >= i + 1) /\ i + 1 \in 1 .. n + 1
      BY <1>1
    <3>5. IF i + 1 <= n THEN 1 \in 1 .. n ELSE 1 = 1
      BY <1>1
    <3> QED BY <3>1, <3>2, <3>3, <3>4, <3>5 DEF SortedUpTo
  <2> QED BY <1>1, <2>1, <2>6, <2>7 DEF SortedOn
<1>4. CASE s[i].first < s[j].first
  <2>1. i # j /\ t = [s EXCEPT ![i] = s[j], ![j] = s[i]]
    BY <1>1, <1>2, <1>4 DEF Compared
  <2>2. /\ t \in Seq(Cells) /\ Len(t) = n /\ t[i] = s[j] /\ t[j] = s[i]
        /\ \A k \in 1 .. n : k # i /\ k # j => t[k] = s[k]
    BY <1>1, <1>2, <2>1
  <2>3. \A k \in 1 .. n : \E l \in 1 .. n : t[k] = s[l]
    BY <1>1, <2>2
  <2>4. i = 1 \/ j < i
    <3> SUFFICES ASSUME i > 1, j >= i PROVE FALSE
      BY <1>1
    <3>1. s[j].first <= s[i].first
      BY <1>1 DEF Greatest
    <3> QED BY <1>1, <1>2, <1>4, <3>1
  <2>5. Sorted(t, i)
    <3> SUFFICES ASSUME NEW k \in 1 .. n, NEW l \in 1 .. n, k < l, l < i
                 PROVE  t[k].first <= t[l].first
      BY <2>2 DEF Sorted
    <3>1. s[k].first <= s[l].first /\ i > 1 /\ j < i
      BY <1>1, <2>4 DEF Sorted
    <3>2. CASE k = j
      BY <1>1, <1>2, <1>4, <2>2, <3>1, <3>2
    <3>3. CASE l = j
      <4>1. s[k].first <= s[i].first
        BY <1>1, <3>3 DEF UpTo
      <4> QED BY <1>1, <2>2, <3>3, <4>1
    <3>4. CASE k # j /\ l # j
      BY <1>1, <2>2, <3>1, <3>4
    <3> QED BY <3>2, <3>3, <3>4
  <2>6. UpTo(t, j + 1, i)
    <3> SUFFICES ASSUME NEW k \in 1 .. n, k < j + 1 PROVE t[k].first <= t[i].first
      BY <2>2 DEF UpTo
    <3>1. CASE k = i \/ k = j
      BY <1>1, <1>2, <1>4, <2>2, <3>1
    <3>2. CASE k # i /\ k # j
      <4>1. k < j /\ s[k].first <= s[i].first
        BY <1>1, <3>2 DEF UpTo
      <4>2. s[k].first <= s[j].first
        BY <1>1, <1>2, <1>4, <4>1
      <4> QED BY <2>2, <3>2, <4>2
    <3> QED BY <3>1, <3>2
  <2>7. ASSUME i > 1 PROVE (j + 1 < i => Greatest(t, i - 1)) /\ (j + 1 >= i => Greatest(t, i))
    <3>1. j < i /\ Greatest(s, i - 1) /\ i - 1 \in 1 .. n
      BY <1>1, <2>4, <2>7
    <3>2. \A k \in 1 .. n : t[k].first <= s[i - 1].first
      BY <2>2, <2>3, <3>1 DEF Greatest
    <3>3. j + 1 < i => t[i - 1] = s[i - 1]
      BY <1>1, <2>2, <3>1
    <3>4. j + 1 >= i => t[i] = s[i - 1]
      <4>1. j + 1 >= i => j = i - 1
        BY <1>1, <3>1
      <4> QED BY <2>2, <4>1
    <3> QED BY <2>2, <3>2, <3>3, <3>4 DEF Greatest
  <2>8. j < n => SortedUpTo(t, i, j + 1)
    <3> SUFFICES ASSUME j < n PROVE SortedUpTo(t, i, j + 1)
      OBVIOUS
    <3>1. i \in 1 .. n + 1 /\ i <= n /\ j + 1 \in 1 .. n
      BY <1>1
    <3> QED BY <2>2, <2>5, <2>6, <2>7, <3>1 DEF SortedUpTo
  <2>9. ~(j < n) => SortedUpTo(t, i + 1, 1)
    <3> SUFFICES ASSUME j = n PROVE SortedUpTo(t, i + 1, 1)
      BY <1>1
    <3>1. Greatest(t, i)
      BY <1>1, <2>2, <2>6 DEF UpTo, Greatest
    <3>2. Sorted(t, i + 1)
      <4> SUFFICES ASSUME NEW k \in 1 .. n, NEW l \in 1 .. n, k < l, l < i + 1
                   PROVE  t[k].first <= t[l].first
        BY <2>2 DEF Sorted
      <4>1. l < i \/ l = i
        BY <1>1
      <4> QED BY <2>2, <2>5, <3>1, <4>1 DEF Sorted, Greatest
    <3>3. UpTo(t, 1, i + 1)
      BY <2>2 DEF UpTo
    <3>4. i + 1 - 1 = i /\ ~(1 >= i + 1) /\ i + 1 \in 1 .. n + 1
      BY <1>1
    <3>5. IF i + 1 <= n THEN 1 \in 1 .. n ELSE 1 = 1
      BY <1>1
    <3> QED BY <2>2, <3>1, <3>2, <3>3, <3>4, <3>5 DEF SortedUpTo
  <2> QED BY <2>2, <2>3, <2>8, <2>9 DEF SortedOn
<1> QED BY <1>3, <1>4

LEMMA Aligned ==
    ASSUME NEW s \in Seq(Cells)
    PROVE  /\ AlignEnds(s) \in Seq(Cells) /\ Len(AlignEnds(s)) = Len(s)
           /\ \A k \in 1 .. Len(s) : /\ AlignEnds(s)[k].first = s[k].first
                                     /\ AlignEnds(s)[k].last <= s[k].last
           /\ \A k \in 1 .. Len(s) - 1 : AlignEnds(s)[k].last < s[k + 1].first
<1> DEFINE A(k) == IF k < Len(s) /\ s[k].last >= s[k + 1].first
                     THEN [s[k] EXCEPT !.last = s[k + 1].first - 1]
                     ELSE s[k]
<1>1. Len(s) \in Nat /\ \A k \in 1 .. Len(s) : s[k] \in Cells
  BY CellOf, LenProperties
<1>2. ASSUME NEW k \in 1 .. Len(s)
      PROVE  /\ A(k) \in Cells /\ A(k).first = s[k].first /\ A(k).last <= s[k].last
             /\ k < Len(s) => A(k).last < s[k + 1].first
  <2>1. s[k] \in Cells /\ s[k].first \in Nat /\ s[k].last \in Int
    BY CellOf
  <2>2. CASE k < Len(s) /\ s[k].last >= s[k + 1].first
    <3>1. s[k + 1].first \in Nat
      <4>1. k + 1 \in 1 .. Len(s)
        BY <1>1, <2>2
      <4> QED BY <4>1, CellOf
    <3>2. A(k) = [s[k] EXCEPT !.last = s[k + 1].first - 1]
      BY <2>2
    <3>3. A(k) \in Cells /\ A(k).first = s[k].first /\ A(k).last = s[k + 1].first - 1
      <4>1. s[k + 1].first - 1 \in Int
        BY <3>1
      <4> HIDE DEF A
      <4> QED BY <2>1, <4>1, <3>2, Shortened
    <3> HIDE DEF A
    <3> QED BY <2>1, <2>2, <3>1, <3>3
  <2>3. CASE ~(k < Len(s) /\ s[k].last >= s[k + 1].first)
    <3>1. A(k) = s[k]
      BY <2>3
    <3>2. ASSUME k < Len(s) PROVE s[k].last < s[k + 1].first
      <4>1. k + 1 \in 1 .. Len(s)
        BY <1>1, <3>2
      <4>2. s[k + 1].first \in Nat
        BY <4>1, CellOf
      <4> QED BY <2>1, <2>3, <3>2, <4>2
    <3> HIDE DEF A
    <3> QED BY <2>1, <3>1, <3>2
  <2> QED BY <2>2, <2>3
<1>3. AlignEnds(s) = [k \in 1 .. Len(s) |-> A(k)]
  BY DEF AlignEnds
<1> HIDE DEF A
<1>4. AlignEnds(s) \in Seq(Cells) /\ Len(AlignEnds(s)) = Len(s)
      /\ \A k \in 1 .. Len(s) : AlignEnds(s)[k] = A(k)
  BY <1>1, <1>2, <1>3
<1>5. \A k \in 1 .. Len(s) - 1 : k \in 1 .. Len(s) /\ k < Len(s)
  BY <1>1
<1> QED BY <1>2, <1>4, <1>5

-------------------------------------------------------------------------------
\* Blocks from off on, with holes.
Run(off, data) == /\ data \in Seq(Int)
                  /\ \A k \in 1 .. Len(data) : data[k] \in {off + k - 1, Stale}

ReadsRun(r, off, n) == /\ r.ret \in {-1} \cup 0 .. n
                       /\ r.ret >= 0 => Run(off, r.buf) /\ Len(r.buf) = r.ret

LEMMA FilledRun ==
    ASSUME NEW off \in Nat, NEW n \in Nat
    PROVE  Run(off, Filled(off, n)) /\ Len(Filled(off, n)) = n
BY FilledSeq DEF Run

\* DVDReadBlocksPath() anywhere in the title VOBs.
LEMMA ReadRun ==
    ASSUME NEW m \in Media, NEW off \in Nat, NEW n \in Nat
    PROVE  ReadsRun(ReadBlocks(m, off, n), off, n)
<1>1. CASE off >= Ends[Parts]
  <2>1. ReadBlocks(m, off, n) = [ret |-> 0, buf |-> <<>>]
    BY <1>1 DEF ReadBlocks
  <2>2. <<>> \in Seq(Int) /\ Len(<<>>) = 0
    OBVIOUS
  <2> QED BY <2>1, <2>2 DEF ReadsRun, Run
<1>2. CASE ~(off >= Ends[Parts])
  <2> DEFINE i    == CHOOSE p \in 1 .. Parts : Ends[p - 1] <= off /\ off < Ends[p]
             part == Ends[i] - off
             one  == InputRead(m, off, LeastOf(n, part), Ends[i])
             two  == InputRead(m, Ends[i], n - part, Ends[i + 1])
             both == [j \in 1 .. one + two |-> IF j <= one THEN off + j - 1
                                               ELSE IF j <= part THEN Stale
                                               ELSE off + j - 1]
  <2>1. /\ Parts \in Nat \ {0} /\ Ends[0] = 0
        /\ \A p \in 0 .. Parts : Ends[p] \in Nat
        /\ \A p, q \in 0 .. Parts : p < q => Ends[p] < Ends[q]
    BY DvdReadAssumption
  <2>2. off < Ends[Parts]
    BY <1>2, <2>1
  <2>3. \E p \in 1 .. Parts : Ends[p - 1] <= off /\ off < Ends[p]
    <3> DEFINE S == {p \in 0 .. Parts : off < Ends[p]}
    <3>1. S \in SUBSET Nat /\ Parts \in S
      BY <2>1, <2>2
    <3>2. PICK p \in S : \A c \in S : p <= c
      BY <3>1, Least
    <3>3. p \in 0 .. Parts /\ off < Ends[p] /\ p # 0
      BY <2>1, <3>2
    <3>4. p - 1 \in 0 .. Parts /\ p - 1 \notin S
      BY <2>1, <3>2, <3>3
    <3>5. Ends[p - 1] <= off
      BY <2>1, <3>4
    <3> QED BY <3>3, <3>5
  <2>4. i \in 1 .. Parts /\ off < Ends[i]
    BY <2>3
  <2> HIDE DEF i
  <2>5. Ends[i] \in Nat /\ part \in Nat /\ LeastOf(n, part) \in 0 .. n /\ LeastOf(n, part) <= part
    BY <2>1, <2>4 DEF LeastOf
  <2>6. one \in {-1} \cup 0 .. LeastOf(n, part)
    <3>1. LeastOf(n, part) \in Nat
      BY <2>5
    <3> QED BY <2>4, <2>5, <3>1, InputReadLength
  <2>7. ASSUME n > part, i # Parts PROVE two \in {-1} \cup 0 .. n - part
    <3>1. Ends[i + 1] \in Nat /\ Ends[i] < Ends[i + 1]
      BY <2>1, <2>4, <2>7
    <3>2. n - part \in Nat
      BY <2>5, <2>7
    <3> QED BY <2>5, <3>1, <3>2, InputReadLength
  <2>8. ReadBlocks(m, off, n) =
          IF n <= part \/ one < 0 \/ i = Parts
            THEN [ret |-> one, buf |-> Filled(off, one)]
          ELSE IF two < 0 THEN [ret |-> two, buf |-> <<>>]
          ELSE [ret |-> one + two, buf |-> both]
    BY <1>2 DEF ReadBlocks, i
  <2> HIDE DEF part, one, two, both
  <2>9. CASE n <= part \/ one < 0 \/ i = Parts
    <3>1. ReadBlocks(m, off, n) = [ret |-> one, buf |-> Filled(off, one)]
      BY <2>8, <2>9
    <3>2. one \in {-1} \cup 0 .. n
      BY <2>5, <2>6
    <3>3. one >= 0 => Run(off, Filled(off, one)) /\ Len(Filled(off, one)) = one
      <4> SUFFICES ASSUME one >= 0
                   PROVE  Run(off, Filled(off, one)) /\ Len(Filled(off, one)) = one
        OBVIOUS
      <4>1. one \in Nat
        BY <3>2
      <4> QED BY <4>1, FilledRun
    <3> QED BY <3>1, <3>2, <3>3 DEF ReadsRun
  <2>10. CASE ~(n <= part \/ one < 0 \/ i = Parts)
    <3>1. n > part /\ i # Parts /\ one \in Nat /\ one <= part
      BY <2>5, <2>6, <2>10
    <3>2. two \in {-1} \cup 0 .. n - part
      BY <2>7, <3>1
    <3>3. CASE two < 0
      <4>1. ReadBlocks(m, off, n) = [ret |-> two, buf |-> <<>>] /\ two = -1
        BY <2>5, <2>8, <2>10, <3>2, <3>3
      <4> QED BY <4>1 DEF ReadsRun
    <3>4. CASE ~(two < 0)
      <4>1. ReadBlocks(m, off, n) = [ret |-> one + two, buf |-> both]
        BY <2>8, <2>10, <3>4
      <4>2. one + two \in Nat /\ one + two \in 0 .. n
        BY <2>5, <3>1, <3>2, <3>4
      <4>3. both \in Seq(Int) /\ Len(both) = one + two
            /\ \A k \in 1 .. one + two : both[k] \in {off + k - 1, Stale}
        <5>1. \A k \in 1 .. one + two : off + k - 1 \in Int
          BY <4>2
        <5> QED BY <4>2, <5>1 DEF both, Stale
      <4> QED BY <4>1, <4>2, <4>3 DEF ReadsRun, Run
    <3> QED BY <3>3, <3>4
  <2> QED BY <2>9, <2>10
<1> QED BY <1>1, <1>2

-------------------------------------------------------------------------------
AtHand == /\ vob \in 1 .. MaxFiles
          /\ files \in [1 .. MaxFiles -> Seq(Int)]
          /\ \A v \in 1 .. MaxFiles : v > vob => files[v] = <<>>

Ordered == \A v, w \in 1 .. MaxFiles :
              \A i \in 1 .. Len(files[v]), j \in 1 .. Len(files[w]) :
                 /\ v < w \/ (v = w /\ i < j)
                 /\ Stale \notin {files[v][i], files[w][j]}
                 => files[v][i] < files[w][j]

OfCells == \A v \in 1 .. MaxFiles : \A i \in 1 .. Len(files[v]) :
              files[v][i] # Stale =>
                 \E c \in 1 .. Len(Chosen) : files[v][i] \in CellBlocks(Chosen[c])

\* A write changes the end of the VOB at hand.
Appended(data) ==
    /\ files' \in [1 .. MaxFiles -> Seq(Int)]
    /\ Len(files[vob]) \in Nat /\ Len(data) \in Nat
    /\ Len(files'[vob]) = Len(files[vob]) + Len(data)
    /\ \A v \in 1 .. MaxFiles : v # vob => files'[v] = files[v]
    /\ \A k \in 1 .. Len(files[vob]) : files'[vob][k] = files[vob][k]
    /\ \A k \in Len(files[vob]) + 1 .. Len(files[vob]) + Len(data) :
          k - Len(files[vob]) \in 1 .. Len(data) /\ files'[vob][k] = data[k - Len(files[vob])]

LEMMA WriteAppends ==
    ASSUME AtHand, NEW data \in Seq(Int), Write(data)
    PROVE  Appended(data)
<1> DEFINE p == Len(files[vob])
           d == Len(data)
<1>1. vob \in 1 .. MaxFiles /\ files \in [1 .. MaxFiles -> Seq(Int)] /\ files[vob] \in Seq(Int)
  BY DEF AtHand
<1>2. p \in Nat /\ d \in Nat
  BY <1>1, LenProperties
<1>3. /\ files[vob] \o data \in Seq(Int)
      /\ Len(files[vob] \o data) = p + d
      /\ \A k \in 1 .. p + d :
            (files[vob] \o data)[k] = IF k <= p THEN files[vob][k] ELSE data[k - p]
  BY <1>1, ConcatProperties
<1>4. files' = [files EXCEPT ![vob] = files[vob] \o data]
  BY DEF Write
<1>5. /\ files' \in [1 .. MaxFiles -> Seq(Int)]
      /\ files'[vob] = files[vob] \o data
      /\ \A v \in 1 .. MaxFiles : v # vob => files'[v] = files[v]
  BY <1>1, <1>3, <1>4
<1>6. \A k \in 1 .. p : k \in 1 .. p + d /\ k <= p
  BY <1>2
<1>7. \A k \in p + 1 .. p + d : k \in 1 .. p + d /\ ~(k <= p) /\ k - p \in 1 .. d
  BY <1>2
<1>8. \A k \in 1 .. p : files'[vob][k] = files[vob][k]
  BY <1>3, <1>5, <1>6
<1>9. \A k \in p + 1 .. p + d : k - p \in 1 .. d /\ files'[vob][k] = data[k - p]
  BY <1>3, <1>5, <1>7
<1> QED BY <1>2, <1>3, <1>5, <1>8, <1>9 DEF Appended

\* Where a block of the VOBs after a write comes from.
LEMMA OldOrNew ==
    ASSUME AtHand, NEW data, Run(offset, data), offset \in Nat, Appended(data),
           NEW v \in 1 .. MaxFiles, NEW i \in 1 .. Len(files'[v]), files'[v][i] # Stale
    PROVE  \/ i \in 1 .. Len(files[v]) /\ files'[v][i] = files[v][i]
           \/ /\ v = vob /\ i > Len(files[vob])
              /\ files'[v][i] = offset + (i - Len(files[vob])) - 1
              /\ i - Len(files[vob]) \in 1 .. Len(data)
<1>1. CASE v # vob
  BY <1>1 DEF Appended
<1>2. CASE v = vob /\ i <= Len(files[vob])
  <2>1. Len(files[vob]) \in Nat /\ Len(data) \in Nat /\ i \in 1 .. Len(files[vob]) + Len(data)
    BY <1>2 DEF Appended
  <2>2. i \in 1 .. Len(files[vob])
    BY <1>2, <2>1
  <2> QED BY <1>2, <2>2 DEF Appended
<1>3. CASE v = vob /\ i > Len(files[vob])
  <2>1. i \in Len(files[vob]) + 1 .. Len(files[vob]) + Len(data)
    BY <1>3 DEF Appended
  <2>2. i - Len(files[vob]) \in 1 .. Len(data) /\ files'[v][i] = data[i - Len(files[vob])]
    BY <1>3, <2>1 DEF Appended
  <2>3. data[i - Len(files[vob])] \in {offset + (i - Len(files[vob])) - 1, Stale}
    BY <2>2 DEF Run
  <2> QED BY <1>3, <2>2, <2>3
<1>4. i <= Len(files[vob]) \/ i > Len(files[vob])
  <2>1. Len(files[vob]) \in Nat /\ i \in Int
    BY DEF Appended
  <2> QED BY <2>1
<1> QED BY <1>1, <1>2, <1>3, <1>4

\* What is written behind all that was copied before keeps the order of the disc.
LEMMA WriteOrdered ==
    ASSUME AtHand, offset \in Nat, NEW data, Run(offset, data), Write(data), job' = job,
           Ordered, OfCells, Behind(offset),
           NEW r \in Int, Len(data) <= r, r > 0, OfChosen(offset, offset + r - 1)
    PROVE  /\ Appended(data) /\ Ordered' /\ OfCells'
           /\ \A v \in 1 .. MaxFiles : v > vob => files'[v] = <<>>
           /\ \A v \in 1 .. MaxFiles : \A i \in 1 .. Len(files'[v]) :
                 files'[v][i] # Stale => files'[v][i] < offset + Len(data)
<1> DEFINE p == Len(files[vob])
           d == Len(data)
           Old(v, i) == i \in 1 .. Len(files[v]) /\ files'[v][i] = files[v][i]
           New(v, i) == /\ v = vob /\ i > p /\ files'[v][i] = offset + (i - p) - 1
                        /\ i - p \in 1 .. d
<1>1. Appended(data)
  BY WriteAppends DEF Run
<1>2. /\ p \in Nat /\ d \in Nat /\ offset \in Nat /\ vob \in 1 .. MaxFiles
      /\ \A v \in 1 .. MaxFiles : files[v] \in Seq(Int) /\ Len(files[v]) \in Nat
      /\ \A v \in 1 .. MaxFiles : v > vob => files[v] = <<>> /\ files'[v] = files[v]
  BY <1>1, LenProperties DEF AtHand, Appended
<1>3. ASSUME NEW v \in 1 .. MaxFiles, NEW i \in 1 .. Len(files'[v]), files'[v][i] # Stale
      PROVE  Old(v, i) \/ New(v, i)
  BY <1>1, <1>3, OldOrNew
<1>4. ASSUME NEW v \in 1 .. MaxFiles, NEW i \in 1 .. Len(files[v]), files[v][i] # Stale
      PROVE  files[v][i] < offset /\ files[v][i] \in Int
  <2>1. files[v][i] \in Int
    BY <1>2, ElementOfSeq
  <2> QED BY <1>4, <2>1 DEF Behind
<1> HIDE DEF p, d
<1>5. ASSUME NEW v \in 1 .. MaxFiles, NEW i \in 1 .. Len(files'[v]), files'[v][i] # Stale
      PROVE  files'[v][i] < offset + d
  <2>1. CASE Old(v, i)
    <3>1. files[v][i] < offset /\ files[v][i] \in Int
      BY <1>4, <1>5, <2>1
    <3> QED BY <1>2, <2>1, <3>1
  <2>2. CASE New(v, i)
    <3>1. files'[v][i] = offset + (i - p) - 1 /\ i - p \in 1 .. d
      BY <2>2
    <3> QED BY <1>2, <3>1
  <2> QED BY <1>3, <1>5, <2>1, <2>2
<1>6. ASSUME NEW v \in 1 .. MaxFiles, NEW w \in 1 .. MaxFiles,
             NEW i \in 1 .. Len(files'[v]), NEW j \in 1 .. Len(files'[w]),
             v < w \/ (v = w /\ i < j), files'[v][i] # Stale, files'[w][j] # Stale
      PROVE  files'[v][i] < files'[w][j]
  <2>1. CASE Old(v, i) /\ Old(w, j)
    <3>1. Stale \notin {files[v][i], files[w][j]} /\ (v < w \/ (v = w /\ i < j))
      BY <1>6, <2>1
    <3>2. files[v][i] < files[w][j]
      BY <2>1, <3>1 DEF Ordered
    <3> QED BY <2>1, <3>2
  <2>2. CASE Old(v, i) /\ New(w, j)
    <3>1. files[v][i] < offset /\ files[v][i] \in Int
      BY <1>4, <1>6, <2>2
    <3>2. offset <= files'[w][j] /\ files'[w][j] \in Int
      <4>1. files'[w][j] = offset + (j - p) - 1 /\ j - p \in 1 .. d
        BY <2>2
      <4>2. j - p >= 1 /\ j - p \in Int /\ offset \in Int
        BY <1>2, <4>1
      <4> HIDE DEF Old, New
      <4> QED BY <4>1, <4>2
    <3>3. files'[v][i] = files[v][i] /\ offset \in Int
      BY <1>2, <2>2
    <3>4. files[v][i] < files'[w][j]
      <4> DEFINE a == files[v][i]
                 b == files'[w][j]
      <4>1. a < offset /\ a \in Int /\ offset <= b /\ b \in Int /\ offset \in Int
        BY <3>1, <3>2, <3>3
      <4> HIDE DEF a, b, Old, New
      <4>2. a < b
        BY <4>1
      <4> QED BY <4>2 DEF a, b
    <3> QED BY <3>3, <3>4
  <2>3. CASE New(v, i) /\ New(w, j)
    <3>1. /\ files'[v][i] = offset + (i - p) - 1 /\ files'[w][j] = offset + (j - p) - 1
          /\ i < j /\ i \in Int /\ j \in Int
      BY <1>6, <2>3
    <3> QED BY <1>2, <3>1
  <2>4. ASSUME New(v, i), Old(w, j) PROVE FALSE
    <3>1. v = vob /\ i > p
      BY <2>4
    <3>2. CASE v < w
      <4>1. files[w] = <<>>
        BY <1>2, <3>1, <3>2
      <4>2. Len(files[w]) = 0
        BY <4>1
      <4> QED BY <2>4, <4>2
    <3>3. CASE v = w /\ i < j
      <4>1. j \in 1 .. p
        BY <2>4, <3>1, <3>3 DEF p
      <4> QED BY <1>2, <3>1, <3>3, <4>1
    <3> QED BY <1>6, <3>2, <3>3
  <2> QED BY <1>3, <1>6, <2>1, <2>2, <2>3, <2>4
<1>7. Ordered'
  BY <1>6 DEF Ordered
<1>8. OfCells'
  <2>1. Chosen' = Chosen
    BY DEF Chosen
  <2>2. PICK c \in 1 .. Len(Chosen) : offset .. offset + r - 1 \subseteq CellBlocks(Chosen[c])
    BY DEF OfChosen
  <2>3. ASSUME NEW v \in 1 .. MaxFiles, NEW i \in 1 .. Len(files'[v]), files'[v][i] # Stale
        PROVE  \E x \in 1 .. Len(Chosen) : files'[v][i] \in CellBlocks(Chosen[x])
    <3>1. CASE Old(v, i)
      BY <2>3, <3>1 DEF OfCells
    <3>2. CASE New(v, i)
      <4>1. files'[v][i] \in offset .. offset + r - 1
        BY <1>2, <3>2 DEF d
      <4> QED BY <2>2, <4>1
    <3> QED BY <1>3, <2>3, <3>1, <3>2
  <2> QED BY <2>1, <2>3 DEF OfCells
<1> QED BY <1>1, <1>2, <1>5, <1>7, <1>8 DEF d

-------------------------------------------------------------------------------
LEMMA ChapterJob ==
    ASSUME job \in Jobs, job.kind = "chapters"
    PROVE  /\ job.disc \in Media /\ IsTitle(job.title)
           /\ job.from \in Nat /\ job.to \in Nat /\ 1 <= job.from /\ job.from <= job.to
BY DvdbackupAssumption

LEMMA ChosenSeq ==
    ASSUME job \in Jobs, job.kind = "chapters"
    PROVE  Chosen \in Seq(Cells)
<1> DEFINE t     == job.title
           ch    == Len(t.ptt)
           end   == LeastOf(job.to, ch)
           start == LeastOf(job.from, ch)
           first == t.map[t.ptt[start]]
           last  == IF end < ch THEN t.map[t.ptt[end + 1]] - 1 ELSE Len(t.cells)
<1>1. /\ t.cells \in Seq([first : Nat, last : Nat])
      /\ t.map \in Seq(Nat) /\ t.ptt \in Seq(Nat) /\ t.ptt # <<>>
      /\ \A p \in 1 .. Len(t.map) : t.map[p] \in 1 .. Len(t.cells)
      /\ \A c \in 1 .. Len(t.ptt) : t.ptt[c] \in 1 .. Len(t.map)
  BY ChapterJob DEF IsTitle
<1>2. job.from \in Nat /\ job.to \in Nat /\ 1 <= job.from /\ 1 <= job.to
  BY ChapterJob
<1>3. Chosen = SubSeq(t.cells, first, last)
  BY DEF Chosen, ChapterCells
<1> HIDE DEF t
<1>4. ch \in Nat \ {0} /\ Len(t.cells) \in Nat
  <2>1. ch \in Nat \ {0}
    BY <1>1, EmptySeq
  <2> QED BY <1>1, <2>1, LenProperties
<1>5. start \in 1 .. ch /\ end \in 1 .. ch
  BY <1>2, <1>4 DEF LeastOf
<1> HIDE DEF ch, start, end
<1>6. first \in 1 .. Len(t.cells)
  BY <1>1, <1>5 DEF ch
<1>7. last \in 0 .. Len(t.cells)
  <2>1. CASE end < ch
    <3>1. end + 1 \in 1 .. ch
      BY <1>4, <1>5, <2>1
    <3>2. t.map[t.ptt[end + 1]] \in 1 .. Len(t.cells)
      BY <1>1, <3>1 DEF ch
    <3> QED BY <1>4, <2>1, <3>2
  <2>2. CASE ~(end < ch)
    BY <1>4, <2>2
  <2> QED BY <2>1, <2>2
<1> HIDE DEF first, last
<1>8. \A k \in first .. last : t.cells[k] \in Cells
  <2>1. ASSUME NEW k \in first .. last PROVE t.cells[k] \in Cells
    <3>1. k \in 1 .. Len(t.cells)
      BY <1>4, <1>6, <1>7
    <3>2. t.cells[k] \in [first : Nat, last : Nat]
      BY <1>1, <3>1, ElementOfSeq
    <3> QED BY <3>2 DEF Cells
  <2> QED BY <2>1
<1>9. first \in Int /\ last \in Int
  BY <1>4, <1>6, <1>7
<1> QED BY <1>3, <1>8, <1>9, SubSeqProperties

\* A part of what is of one of the cells is of it too.
LEMMA PartOfChosen ==
    ASSUME NEW f \in Int, NEW l \in Int, OfChosen(f, l),
           NEW g \in Int, NEW k \in Int, f <= g, k <= l
    PROVE  OfChosen(g, k)
<1>1. g .. k \subseteq f .. l
  OBVIOUS
<1> QED BY <1>1 DEF OfChosen

LEMMA ChapterParts == ChapterBlocks <=> (job.kind = "chapters" => Ordered /\ OfCells)
BY DEF ChapterBlocks, Ordered, OfCells

LEMMA InitChapters == Init => ChapterInv
<1> SUFFICES ASSUME Init, job.kind = "chapters" PROVE Copying
  BY DEF Init, ChapterInv
<1>1. /\ pc = "chapters" /\ offset = 0 /\ remaining = 0 /\ todo = <<>>
      /\ files = [v \in 1 .. MaxFiles |-> <<>>]
  BY DEF Init
<1>2. <<>> \in Seq(Int) /\ <<>> \in Seq(Cells) /\ Len(<<>>) = 0
  OBVIOUS
<1>3. files \in [1 .. MaxFiles -> Seq(Int)] /\ \A v \in 1 .. MaxFiles : files[v] = <<>>
  BY <1>1, <1>2
<1>4. ChapterTypes
  BY <1>1, <1>2, <1>3 DEF ChapterTypes
<1>5. Ordered /\ OfCells
  BY <1>2, <1>3 DEF Ordered, OfCells
<1>6. ChapterBlocks
  BY <1>5, ChapterParts
<1> QED BY <1>1, <1>4, <1>6 DEF Copying, Choice, Sorting, Lined

\* What does not touch the VOBs.
LEMMA FilesStay == ChapterBlocks /\ UNCHANGED <<job, files>> => ChapterBlocks'
BY DEF ChapterBlocks, Chosen

LEMMA ChooseStep ==
    ASSUME job \in Jobs, job.kind = "chapters", Copying, ChooseCells
    PROVE  Copying'
<1>1. /\ todo' = Chosen /\ pair' = <<1, 1>> /\ pc' \in {"sort", "failed"} /\ pc = "chapters"
      /\ UNCHANGED <<job, vob, offset, remaining, files>>
  BY DEF ChooseCells, Chosen
<1>2. Chosen \in Seq(Cells) /\ Chosen' = Chosen
  BY <1>1, ChosenSeq DEF Chosen
<1>3. ChapterTypes'
  BY <1>1, <1>2 DEF Copying, ChapterTypes
<1>4. Choice'
  <2>1. ASSUME NEW k \in 1 .. Len(todo') PROVE OfChosen(todo[k].first, todo[k].last)'
    BY <1>1, <1>2 DEF OfChosen, CellBlocks
  <2> QED BY <1>1, <2>1 DEF Choice
<1>5. Sorting'
  <2>1. SortedUpTo(todo', 1, 1)
    <3>1. Len(todo') \in Nat
      BY <1>1, <1>2, LenProperties
    <3> QED BY <3>1 DEF SortedUpTo, Sorted, UpTo
  <2>2. pair'[1] = 1 /\ pair'[2] = 1 /\ pair' \in Nat \X Nat
    BY <1>1
  <2>3. SortedUpTo(todo', pair'[1], pair'[2])
    BY <2>1, <2>2
  <2> QED BY <2>2, <2>3 DEF Sorting
<1>6. ChapterBlocks'
  BY <1>1, FilesStay DEF Copying
<1> QED BY <1>1, <1>3, <1>4, <1>5, <1>6 DEF Copying, Lined

LEMMA SortCellsStep ==
    ASSUME job \in Jobs, job.kind = "chapters", Copying, SortCells
    PROVE  Copying'
<1> DEFINE n == Len(todo)
           i == pair[1]
           j == pair[2]
<1>1. /\ pc = "sort" /\ todo \in Seq(Cells) /\ n \in Nat /\ i \in Nat /\ j \in Nat
      /\ SortedUpTo(todo, i, j)
      /\ UNCHANGED <<job, offset, remaining, files>>
      /\ Chosen' = Chosen
      /\ \A k \in 1 .. n : OfChosen(todo[k].first, todo[k].last)
  <2>1. pc = "sort" /\ UNCHANGED <<job, offset, remaining, files>>
    BY DEF SortCells
  <2>2. todo \in Seq(Cells) /\ n \in Nat
    BY LenProperties DEF Copying, ChapterTypes
  <2>3. i \in Nat /\ j \in Nat /\ SortedUpTo(todo, i, j)
    BY <2>1 DEF Copying, Sorting
  <2> QED BY <2>1, <2>2, <2>3 DEF Copying, Choice, Chosen
<1>2. /\ files \in [1 .. MaxFiles -> Seq(Int)] /\ \A v \in 1 .. MaxFiles : files[v] = <<>>
      /\ offset = 0 /\ remaining = 0
  BY <1>1 DEF Copying, ChapterTypes
<1>3. ChapterBlocks'
  BY <1>1, FilesStay DEF Copying
<1>4. CASE i <= n
  <2>1. /\ pc' = pc /\ vob' = vob
        /\ todo' = IF todo[i].first < todo[j].first
                     THEN [todo EXCEPT ![i] = todo[j], ![j] = todo[i]] ELSE todo
        /\ pair' = IF j < n THEN <<i, j + 1>> ELSE <<i + 1, 1>>
    BY <1>1, <1>4 DEF SortCells
  <2>2. /\ todo' \in Seq(Cells) /\ Len(todo') = n
        /\ \A k \in 1 .. Len(todo') : \E l \in 1 .. n : todo'[k] = todo[l]
        /\ j < n => SortedUpTo(todo', i, j + 1)
        /\ ~(j < n) => SortedUpTo(todo', i + 1, 1)
    <3>1. Compared(todo, i, j, todo')
      BY <2>1 DEF Compared
    <3>2. SortedOn(todo, i, j, todo')
      BY <1>1, <1>4, <3>1, SortStep
    <3> QED BY <3>2 DEF SortedOn
  <2>3. ChapterTypes'
    BY <1>1, <1>2, <2>1, <2>2 DEF ChapterTypes
  <2>4. Choice'
    <3>1. ASSUME NEW k \in 1 .. Len(todo') PROVE OfChosen(todo[k].first, todo[k].last)'
      <4>1. PICK l \in 1 .. n : todo'[k] = todo[l]
        BY <2>2
      <4>2. OfChosen(todo'[k].first, todo'[k].last)
        BY <1>1, <4>1
      <4> QED BY <1>1, <4>2 DEF OfChosen
    <3> QED BY <1>1, <2>1, <3>1 DEF Choice
  <2>5. Sorting'
    <3>1. CASE j < n
      <4>1. pair' = <<i, j + 1>>
        BY <2>1, <3>1
      <4>2. pair' \in Nat \X Nat /\ pair'[1] = i /\ pair'[2] = j + 1
        BY <1>1, <4>1
      <4>3. SortedUpTo(todo', pair'[1], pair'[2])
        BY <2>2, <3>1, <4>2
      <4> QED BY <4>2, <4>3 DEF Sorting
    <3>2. CASE ~(j < n)
      <4>1. pair' = <<i + 1, 1>>
        BY <2>1, <3>2
      <4>2. pair' \in Nat \X Nat /\ pair'[1] = i + 1 /\ pair'[2] = 1
        BY <1>1, <4>1
      <4>3. SortedUpTo(todo', pair'[1], pair'[2])
        BY <2>2, <3>2, <4>2
      <4> QED BY <4>2, <4>3 DEF Sorting
    <3> QED BY <3>1, <3>2
  <2> QED BY <1>1, <1>3, <2>1, <2>3, <2>4, <2>5 DEF Copying, Lined
<1>5. CASE i > n
  <2>1. pc' = "cells" /\ vob' = 1 /\ todo' = AlignEnds(todo)
    BY <1>1, <1>5 DEF SortCells
  <2>2. /\ todo' \in Seq(Cells) /\ Len(todo') = n
        /\ \A k \in 1 .. n : todo'[k].first = todo[k].first /\ todo'[k].last <= todo[k].last
        /\ \A k \in 1 .. n - 1 : todo'[k].last < todo[k + 1].first
    BY <1>1, <2>1, Aligned
  <2>3. i = n + 1 /\ Sorted(todo, n + 1)
    <3>1. i = n + 1
      BY <1>1, <1>5 DEF SortedUpTo
    <3> QED BY <1>1, <3>1 DEF SortedUpTo
  <2>4. ChapterTypes'
    <3>1. Len(files[1]) <= MaxVob /\ 1 \in 1 .. MaxFiles
      <4>1. 1 \in 1 .. MaxFiles
        BY Sizes
      <4>2. Len(files[1]) = 0
        BY <1>2, <4>1
      <4> QED BY <4>1, <4>2, DvdbackupAssumption
    <3> QED BY <1>1, <1>2, <2>1, <2>2, <3>1 DEF ChapterTypes
  <2>5. Choice'
    <3>1. ASSUME NEW k \in 1 .. Len(todo') PROVE OfChosen(todo[k].first, todo[k].last)'
      <4>1. k \in 1 .. n /\ OfChosen(todo[k].first, todo[k].last)
        BY <1>1, <2>2
      <4>2. /\ todo[k].first \in Nat /\ todo[k].last \in Int
            /\ todo'[k].first = todo[k].first /\ todo'[k].last \in Int
            /\ todo'[k].last <= todo[k].last
        BY <1>1, <2>2, <4>1, CellOf
      <4>3. OfChosen(todo'[k].first, todo'[k].last)
        BY <4>1, <4>2, PartOfChosen
      <4> QED BY <1>1, <4>3 DEF OfChosen
    <3>2. remaining' = 0
      BY <1>1, <1>2
    <3> QED BY <2>1, <3>1, <3>2 DEF Choice
  <2>6. Lined'
    <3>1. ASSUME NEW k \in 1 .. Len(todo') - 1
          PROVE  todo'[k].first <= todo'[k + 1].first /\ todo'[k].last < todo'[k + 1].first
      <4>1. k \in 1 .. n /\ k + 1 \in 1 .. n /\ k \in 1 .. n - 1 /\ k + 1 < n + 1
        BY <1>1, <2>2
      <4>2. todo[k].first <= todo[k + 1].first
        BY <2>3, <4>1 DEF Sorted
      <4> QED BY <2>2, <4>1, <4>2
    <3>2. todo' # <<>> => offset' <= todo'[1].first /\ offset' + remaining' <= todo'[1].first
      <4> SUFFICES ASSUME todo' # <<>> PROVE todo'[1].first \in Nat
        BY <1>1, <1>2
      <4>1. 1 \in 1 .. Len(todo')
        BY <1>1, <2>2, EmptySeq
      <4> QED BY <2>2, <4>1, CellOf
    <3> QED BY <3>1, <3>2 DEF Lined
  <2>7. Behind(offset)'
    <3>1. \A v \in 1 .. MaxFiles : Len(files'[v]) = 0
      BY <1>1, <1>2
    <3> QED BY <3>1 DEF Behind
  <2> QED BY <1>3, <2>1, <2>4, <2>5, <2>6, <2>7 DEF Copying, Sorting
<1> QED BY <1>1, <1>4, <1>5

LEMMA NextCellStep ==
    ASSUME job \in Jobs, job.kind = "chapters", Copying, NextCell
    PROVE  Copying'
<1>1. /\ pc = "cells" /\ pc' = pc /\ remaining <= 0 /\ todo # <<>>
      /\ offset' = Head(todo).first
      /\ remaining' = Head(todo).last - Head(todo).first
      /\ todo' = Tail(todo)
      /\ UNCHANGED <<job, vob, files>> /\ Chosen' = Chosen
  BY DEF NextCell, Chosen
<1>2. /\ todo \in Seq(Cells) /\ offset \in Nat /\ remaining \in Int
      /\ files \in [1 .. MaxFiles -> Seq(Int)]
  BY DEF Copying, ChapterTypes
<1>3. /\ Len(todo) \in Nat \ {0} /\ 1 \in 1 .. Len(todo) /\ Head(todo) = todo[1]
      /\ Tail(todo) \in Seq(Cells) /\ Len(Tail(todo)) = Len(todo) - 1
      /\ \A k \in 1 .. Len(Tail(todo)) : Tail(todo)[k] = todo[k + 1]
  <2>1. Len(todo) \in Nat \ {0}
    BY <1>1, <1>2, EmptySeq
  <2> QED BY <1>1, <1>2, <2>1, HeadTailProperties
<1>4. /\ todo[1].first \in Nat /\ todo[1].last \in Int
      /\ OfChosen(todo[1].first, todo[1].last)
  BY <1>1, <1>2, <1>3, CellOf DEF Copying, Choice
<1>5. offset' = todo[1].first /\ remaining' = todo[1].last - todo[1].first
  BY <1>1, <1>3
<1>6. ChapterTypes'
  BY <1>1, <1>2, <1>3, <1>4, <1>5 DEF Copying, ChapterTypes
<1>7. Choice'
  <2>1. ASSUME NEW k \in 1 .. Len(todo') PROVE OfChosen(todo[k].first, todo[k].last)'
    <3>1. k + 1 \in 1 .. Len(todo) /\ todo'[k] = todo[k + 1]
      BY <1>1, <1>3
    <3>2. OfChosen(todo'[k].first, todo'[k].last)
      BY <1>1, <3>1 DEF Copying, Choice
    <3> QED BY <1>1, <3>2 DEF OfChosen
  <2>2. OfChosen(offset, offset + remaining - 1)'
    <3>1. OfChosen(offset', offset' + remaining' - 1)
      <4>1. todo[1].first <= offset' /\ offset' + remaining' - 1 <= todo[1].last
        BY <1>4, <1>5
      <4>2. offset' \in Int /\ offset' + remaining' - 1 \in Int
        BY <1>4, <1>5
      <4> QED BY <1>4, <4>1, <4>2, PartOfChosen
    <3> QED BY <1>1, <3>1 DEF OfChosen
  <2> QED BY <2>1, <2>2 DEF Choice
<1>8. /\ \A k \in 1 .. Len(todo) - 1 : /\ todo[k].first <= todo[k + 1].first
                                       /\ todo[k].last < todo[k + 1].first
      /\ offset <= todo[1].first
  BY <1>1 DEF Copying, Lined
<1>9. Lined'
  <2>1. ASSUME NEW k \in 1 .. Len(todo') - 1
        PROVE  todo'[k].first <= todo'[k + 1].first /\ todo'[k].last < todo'[k + 1].first
    <3>1. /\ k \in 1 .. Len(Tail(todo)) /\ k + 1 \in 1 .. Len(Tail(todo))
          /\ k + 1 \in 1 .. Len(todo) - 1
      BY <1>1, <1>3
    <3>2. todo'[k] = todo[k + 1] /\ todo'[k + 1] = todo[k + 1 + 1]
      BY <1>1, <1>3, <3>1
    <3> QED BY <1>8, <3>1, <3>2
  <2>2. todo' # <<>> => offset' <= todo'[1].first /\ offset' + remaining' <= todo'[1].first
    <3> SUFFICES ASSUME todo' # <<>>
                 PROVE  offset' <= todo'[1].first /\ offset' + remaining' <= todo'[1].first
      OBVIOUS
    <3>1. Len(todo') \in Nat \ {0}
      BY <1>1, <1>3, EmptySeq
    <3>2. 1 \in 1 .. Len(todo) - 1 /\ 1 \in 1 .. Len(Tail(todo)) /\ 2 \in 1 .. Len(todo)
      BY <1>1, <1>3, <3>1
    <3>3. todo'[1] = todo[2]
      BY <1>1, <1>3, <3>2
    <3>4. todo[1].first <= todo[2].first /\ todo[1].last < todo[2].first
      BY <1>8, <3>2
    <3>5. todo[2].first \in Nat
      BY <1>2, <3>2, CellOf
    <3>6. todo[1].first + (todo[1].last - todo[1].first) = todo[1].last
      BY <1>4
    <3> QED BY <1>4, <1>5, <3>3, <3>4, <3>5, <3>6
  <2> QED BY <2>1, <2>2 DEF Lined
<1>10. Behind(offset)'
  <2>1. ASSUME NEW v \in 1 .. MaxFiles, NEW i \in 1 .. Len(files[v]), files[v][i] # Stale
        PROVE  files[v][i] < offset'
    <3>1. files[v][i] < offset
      BY <1>1, <2>1 DEF Copying, Behind
    <3>2. files[v][i] \in Int
      BY <1>2, ElementOfSeq
    <3>3. offset <= offset' /\ offset' \in Nat
      BY <1>4, <1>5, <1>8
    <3> QED BY <1>2, <3>1, <3>2, <3>3
  <2> QED BY <1>1, <2>1 DEF Behind
<1>11. ChapterBlocks'
  BY <1>1, FilesStay DEF Copying
<1> QED BY <1>1, <1>6, <1>7, <1>9, <1>10, <1>11 DEF Copying, Sorting

\* How many blocks DVDWriteCells() asks for.
Asked == LeastOf(LeastOf(remaining, MaxVob - Len(files[vob])), BufferSize)

LEMMA CopyReads ==
    ASSUME job \in Jobs, job.kind = "chapters", Copying, pc = "cells", remaining > 0
    PROVE  /\ AtHand /\ Asked \in Nat /\ Asked <= remaining
           /\ Len(files[vob]) \in Nat /\ Len(files[vob]) + Asked <= MaxVob
           /\ ReadsRun(ReadBlocks(job.disc, offset, Asked), offset, Asked)
<1>1. /\ AtHand /\ offset \in Nat /\ remaining \in Int /\ Len(files[vob]) <= MaxVob
      /\ files[vob] \in Seq(Int)
  BY DEF Copying, ChapterTypes, AtHand
<1>2. Len(files[vob]) \in Nat /\ MaxVob \in Nat /\ BufferSize \in Nat
  BY <1>1, LenProperties, DvdbackupAssumption
<1>3. /\ Asked \in Nat /\ Asked <= remaining /\ Len(files[vob]) + Asked <= MaxVob
  <2> DEFINE room == MaxVob - Len(files[vob])
             most == LeastOf(remaining, room)
  <2>1. room \in Nat /\ Len(files[vob]) + room = MaxVob
    BY <1>1, <1>2
  <2>2. most \in Nat /\ most <= remaining /\ most <= room
    BY <1>1, <2>1 DEF LeastOf
  <2> HIDE DEF most
  <2>3. LeastOf(most, BufferSize) \in Nat /\ LeastOf(most, BufferSize) <= most
    BY <1>2, <2>2 DEF LeastOf
  <2>4. Asked = LeastOf(most, BufferSize)
    BY DEF Asked, most
  <2> QED BY <1>1, <1>2, <2>1, <2>2, <2>3, <2>4
<1>4. ReadsRun(ReadBlocks(job.disc, offset, Asked), offset, Asked)
  BY <1>1, <1>3, ChapterJob, ReadRun
<1> QED BY <1>1, <1>2, <1>3, <1>4

\* What a write of the blocks at hand, or of a part of them, keeps.
LEMMA CopyWrites ==
    ASSUME job \in Jobs, job.kind = "chapters", Copying, pc = "cells", remaining > 0,
           job' = job, NEW data, Run(offset, data), Len(data) <= remaining, Write(data)
    PROVE  /\ Appended(data) /\ ChapterBlocks'
           /\ \A v \in 1 .. MaxFiles : v > vob => files'[v] = <<>>
           /\ \A v \in 1 .. MaxFiles : \A i \in 1 .. Len(files'[v]) :
                 files'[v][i] # Stale => files'[v][i] < offset + Len(data)
<1>1. /\ AtHand /\ offset \in Nat /\ remaining \in Int
  BY DEF Copying, ChapterTypes, AtHand
<1>2. /\ Ordered /\ OfCells /\ Behind(offset)
      /\ OfChosen(offset, offset + remaining - 1)
  BY ChapterParts DEF Copying, Choice
<1>3. /\ Appended(data) /\ Ordered' /\ OfCells'
      /\ \A v \in 1 .. MaxFiles : v > vob => files'[v] = <<>>
      /\ \A v \in 1 .. MaxFiles : \A i \in 1 .. Len(files'[v]) :
            files'[v][i] # Stale => files'[v][i] < offset + Len(data)
  BY <1>1, <1>2, WriteOrdered
<1>4. ChapterBlocks'
  BY <1>3 DEF ChapterBlocks, Ordered, OfCells
<1> QED BY <1>3, <1>4

\* Counters that go k blocks further.
Forwarded(o, l, p, q) ==
    /\ p \in Nat /\ q \in Int /\ p + q = o + l /\ o <= p /\ p <= o + l
    /\ p + q - 1 <= o + l - 1 /\ o + l - 1 \in Int /\ p + q - 1 \in Int
    /\ \A c \in Nat : o + l <= c => p <= c /\ p + q <= c

LEMMA Forward ==
    ASSUME NEW o \in Nat, NEW l \in Int, NEW k \in Nat, k <= l,
           NEW p, p = o + k, NEW q, q = l - k
    PROVE  Forwarded(o, l, p, q)
BY DEF Forwarded

LEMMA Within ==
    ASSUME NEW p \in Nat, NEW a \in Nat, NEW m \in Nat, p + a <= m, NEW d \in Nat, d <= a
    PROVE  p + d <= m
OBVIOUS

LEMMA CopyCellStep ==
    ASSUME job \in Jobs, job.kind = "chapters", Copying, CopyCell
    PROVE  Copying'
<1> DEFINE read == ReadBlocks(job.disc, offset, Asked)
<1>1. /\ pc = "cells" /\ remaining > 0 /\ UNCHANGED <<job, todo>> /\ Chosen' = Chosen
      /\ \/ /\ read.ret >= 0
            /\ Write(read.buf)
            /\ offset' = offset + read.ret
            /\ remaining' = remaining - read.ret
            /\ \/ vob < MaxFiles /\ vob' = vob + 1 /\ pc' \in {"cells", "failed"}
               \/ UNCHANGED <<vob, pc>>
         \/ read.ret < 0 /\ pc' = "failed" /\ UNCHANGED <<offset, remaining, files>>
         \/ /\ read.ret >= 0 /\ WriteFails(read.buf)
            /\ pc' = "failed" /\ UNCHANGED <<offset, remaining>>
  BY DEF CopyCell, Asked, Chosen
<1>2. /\ AtHand /\ Asked \in Nat /\ Asked <= remaining
      /\ Len(files[vob]) \in Nat /\ Len(files[vob]) + Asked <= MaxVob
      /\ ReadsRun(read, offset, Asked)
  BY <1>1, CopyReads
<1> HIDE DEF read
<1>3. /\ offset \in Nat /\ remaining \in Int /\ todo \in Seq(Cells)
      /\ vob \in 1 .. MaxFiles /\ files \in [1 .. MaxFiles -> Seq(Int)]
  BY <1>2 DEF Copying, ChapterTypes, AtHand
<1>4. CASE /\ read.ret >= 0
           /\ Write(read.buf)
           /\ offset' = offset + read.ret
           /\ remaining' = remaining - read.ret
           /\ \/ vob < MaxFiles /\ vob' = vob + 1 /\ pc' \in {"cells", "failed"}
              \/ UNCHANGED <<vob, pc>>
  <2>1. /\ read.ret \in 0 .. Asked /\ read.ret <= remaining
        /\ Run(offset, read.buf) /\ Len(read.buf) = read.ret
    <3>1. /\ read.ret \in {-1} \cup 0 .. Asked /\ read.ret >= 0
          /\ Run(offset, read.buf) /\ Len(read.buf) = read.ret
      BY <1>2, <1>4 DEF ReadsRun
    <3> QED BY <1>2, <1>3, <3>1
  <2>2. /\ Appended(read.buf) /\ ChapterBlocks'
        /\ \A v \in 1 .. MaxFiles : v > vob => files'[v] = <<>>
        /\ \A v \in 1 .. MaxFiles : \A i \in 1 .. Len(files'[v]) :
              files'[v][i] # Stale => files'[v][i] < offset + read.ret
    BY <1>1, <1>4, <2>1, CopyWrites
  <2>3. /\ offset' \in Nat /\ remaining' \in Int /\ offset' + remaining' = offset + remaining
        /\ offset <= offset' /\ offset' <= offset + remaining
        /\ offset' + remaining' - 1 <= offset + remaining - 1
        /\ offset + remaining - 1 \in Int /\ offset' + remaining' - 1 \in Int
        /\ \A c \in Nat : offset + remaining <= c => offset' <= c /\ offset' + remaining' <= c
    <3>1. read.ret \in Nat /\ read.ret <= remaining
      BY <1>2, <2>1
    <3>2. offset' = offset + read.ret /\ remaining' = remaining - read.ret
      BY <1>4
    <3>3. Forwarded(offset, remaining, offset', remaining')
      BY <1>3, <3>1, <3>2, Forward
    <3> QED BY <3>3 DEF Forwarded
  <2>4. pc' \in {"cells", "failed"} /\ vob' \in 1 .. MaxFiles /\ vob' >= vob
        /\ (vob' = vob \/ vob' = vob + 1)
    BY <1>1, <1>3, <1>4, Sizes
  <2>5. Len(files'[vob']) <= MaxVob
    <3>1. CASE vob' = vob
      <4>1. Len(files'[vob]) = Len(files[vob]) + Len(read.buf)
        BY <2>2 DEF Appended
      <4>2. Len(read.buf) \in Nat /\ Len(read.buf) <= Asked
        BY <1>2, <2>1
      <4>3. MaxVob \in Nat
        BY DvdbackupAssumption
      <4>4. Len(files[vob]) + Len(read.buf) <= MaxVob
        BY <1>2, <4>2, <4>3, Within
      <4> QED BY <3>1, <4>1, <4>4
    <3>2. CASE vob' = vob + 1
      <4>1. files'[vob'] = <<>>
        BY <1>3, <2>2, <2>4, <3>2
      <4>2. Len(files'[vob']) = 0
        BY <4>1
      <4> QED BY <4>2, DvdbackupAssumption
    <3> QED BY <2>4, <3>1, <3>2
  <2>6. ChapterTypes'
    <3>1. \A v \in 1 .. MaxFiles : v > vob' => files'[v] = <<>>
      BY <1>3, <2>2, <2>4
    <3>2. files' \in [1 .. MaxFiles -> Seq(Int)]
      BY <2>2 DEF Appended
    <3> QED BY <1>1, <1>3, <2>3, <2>4, <2>5, <3>1, <3>2 DEF ChapterTypes
  <2>7. Choice'
    <3>1. \A k \in 1 .. Len(todo) : OfChosen(todo[k].first, todo[k].last)
      BY <1>1 DEF Copying, Choice
    <3>2. OfChosen(offset', offset' + remaining' - 1)
      <4>1. OfChosen(offset, offset + remaining - 1)
        BY <1>1 DEF Copying, Choice
      <4>2. offset \in Int /\ offset' \in Int
        BY <1>3, <2>3
      <4> QED BY <2>3, <4>1, <4>2, PartOfChosen
    <3> QED BY <1>1, <3>1, <3>2 DEF Choice, OfChosen
  <2>8. Lined'
    <3>1. /\ \A k \in 1 .. Len(todo) - 1 : /\ todo[k].first <= todo[k + 1].first
                                           /\ todo[k].last < todo[k + 1].first
          /\ todo # <<>> => offset <= todo[1].first /\ offset + remaining <= todo[1].first
      BY <1>1 DEF Copying, Lined
    <3>2. todo # <<>> => offset' <= todo[1].first /\ offset' + remaining' <= todo[1].first
      <4> SUFFICES ASSUME todo # <<>>
                   PROVE  offset' <= todo[1].first /\ offset' + remaining' <= todo[1].first
        OBVIOUS
      <4>1. 1 \in 1 .. Len(todo)
        BY <1>3, EmptySeq
      <4>2. todo[1].first \in Nat
        BY <1>3, <4>1, CellOf
      <4> QED BY <2>3, <3>1, <4>2
    <3> QED BY <1>1, <3>1, <3>2 DEF Lined
  <2>9. Behind(offset)'
    BY <1>4, <2>2 DEF Behind
  <2> QED BY <2>2, <2>4, <2>6, <2>7, <2>8, <2>9 DEF Copying, Sorting
<1>5. CASE read.ret < 0 /\ pc' = "failed" /\ UNCHANGED <<offset, remaining, files>>
  <2>1. ChapterBlocks'
    BY <1>1, <1>5, FilesStay DEF Copying
  <2>2. ChapterTypes'
    BY <1>1, <1>3, <1>5 DEF ChapterTypes
  <2> QED BY <1>5, <2>1, <2>2 DEF Copying, Choice, Sorting, Lined
<1>6. CASE /\ read.ret >= 0 /\ WriteFails(read.buf)
           /\ pc' = "failed" /\ UNCHANGED <<offset, remaining>>
  <2> DEFINE data == read.buf
  <2>1. /\ Len(data) \in 0 .. Asked /\ Run(offset, data)
    BY <1>2, <1>3, <1>6 DEF ReadsRun
  <2>2. PICK m \in 0 .. Len(data) - 1 : Write(SubSeq(data, 1, m))
    BY <1>6 DEF WriteFails
  <2>3. /\ data \in Seq(Int) /\ Len(data) \in Nat
        /\ \A k \in 1 .. m : data[k] \in {offset + k - 1, Stale} /\ data[k] \in Int
    <3>1. data \in Seq(Int) /\ Len(data) \in Nat
      BY <2>1, LenProperties DEF Run
    <3>2. \A k \in 1 .. m : k \in 1 .. Len(data)
      BY <2>2, <3>1
    <3> QED BY <2>1, <3>1, <3>2, ElementOfSeq DEF Run
  <2> HIDE DEF data
  <2>4. m \in Nat /\ m < Len(data)
    BY <2>2, <2>3
  <2>5. /\ SubSeq(data, 1, m) \in Seq(Int) /\ Len(SubSeq(data, 1, m)) = m
        /\ \A k \in 1 .. m : SubSeq(data, 1, m)[k] = data[k]
    BY <2>3, <2>4, SubSeqProperties
  <2>6. Run(offset, SubSeq(data, 1, m)) /\ Len(SubSeq(data, 1, m)) <= remaining
    <3>1. m <= remaining
      BY <1>2, <1>3, <2>1, <2>4
    <3> QED BY <2>3, <2>5, <3>1 DEF Run
  <2>7. ChapterBlocks' /\ files' \in [1 .. MaxFiles -> Seq(Int)]
    BY <1>1, <2>2, <2>6, CopyWrites DEF Appended
  <2>8. ChapterTypes'
    BY <1>1, <1>3, <1>6, <2>7 DEF ChapterTypes
  <2> QED BY <1>6, <2>7, <2>8 DEF Copying, Choice, Sorting, Lined
<1> QED BY <1>1, <1>4, <1>5, <1>6

\* One step per action; those of DVDMirrorTitleX() are not reached.
LEMMA ChapterStep == ChapterInv /\ [Next]_vars => ChapterInv'
<1> SUFFICES ASSUME ChapterInv, [Next]_vars, job \in Jobs, job.kind = "chapters", Copying
             PROVE  Copying'
  <2>1. [Next]_vars => job' = job
    BY DEF Next, Mirror, Chapters, OpenVob, EndTitle, CopyChunk, EndVob, ChooseCells,
           SortCells, NextCell, CopyCell, EndCells, Terminated, vars
  <2> QED BY <2>1 DEF ChapterInv
<1>1. CASE ChooseCells
  BY <1>1, ChooseStep
<1>2. CASE SortCells
  BY <1>2, SortCellsStep
<1>3. CASE NextCell
  BY <1>3, NextCellStep
<1>4. CASE CopyCell
  BY <1>4, CopyCellStep
<1>5. CASE EndCells
  <2>1. /\ pc = "cells" /\ pc' = "done"
        /\ UNCHANGED <<job, vob, offset, remaining, files, todo>>
    BY <1>5 DEF EndCells
  <2>2. ChapterBlocks'
    BY <2>1, FilesStay DEF Copying
  <2> QED BY <2>1, <2>2 DEF Copying, ChapterTypes, Choice, Sorting, Lined
<1>6. CASE Mirror
  BY <1>6 DEF Mirror, OpenVob, EndTitle, CopyChunk, EndVob, Copying, ChapterTypes
<1>7. CASE UNCHANGED vars
  <2>1. ChapterBlocks' /\ Chosen' = Chosen
    BY <1>7, FilesStay DEF Copying, Chosen, vars
  <2> QED BY <1>7, <2>1 DEF vars, Copying, ChapterTypes, Choice, OfChosen, Sorting, Lined, Behind
<1>8. CASE Terminated
  BY <1>7, <1>8 DEF Terminated
<1> QED BY <1>1, <1>2, <1>3, <1>4, <1>5, <1>6, <1>7, <1>8 DEF Next, Chapters

\* No block of a mirrored VOB is given up without a bad one less than a buffer away;
\* and what dvdbackup copies of some chapters are sectors of their cells, none twice,
\* in the order of the disc: however the cells are ordered or overlap, whatever cannot
\* be read, and wherever the copy passes from one VOB to the next.
THEOREM RightBlocksCopied == Spec => []BlocksCopied
<1>1. ChapterInv => ChapterBlocks
  BY DEF ChapterInv, Copying, ChapterBlocks
<1>2. Spec => []ChapterInv
  BY InitChapters, ChapterStep, PTL DEF Spec
<1>3. BlankNearBad /\ ChapterInv => BlocksCopied
  BY <1>1 DEF BlocksCopied
<1> QED BY <1>2, <1>3, Nearness, PTL
===============================================================================
