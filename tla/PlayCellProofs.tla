----------------------------- MODULE PlayCellProofs ----------------------------
(***************************************************************************)
(* The packs that play_cell writes and the gaps that it reports add up,    *)
(* for every cell, whatever of it can be read: Accounted.  They come out   *)
(* in order and in time: InOrder; and nothing that can be read is lost:    *)
(* Salvaged.                                                               *)
(***************************************************************************)
EXTENDS PlayCell, WellFoundedInduction, TLAPS

LEMMA Smallest ==
    ASSUME NEW S \in SUBSET Nat, S # {}
    PROVE  \E b \in S : \A c \in S : b <= c
<1>1. \E b \in S : \A c \in S : ~ (<<c, b>> \in OpToRel(<, Nat))
  BY NatLessThanWellFounded, WFMin
<1>2. \A b, c \in S : ~ (<<c, b>> \in OpToRel(<, Nat)) => b <= c
  BY DEF OpToRel
<1> QED BY <1>1, <1>2

\* A VOBU as the disc describes it lies in the cell.
LEMMA VobuLength ==
    ASSUME Last \in Nat, NEW s \in Nat, 1 <= s, s <= Last
    PROVE  /\ VobuEnd(s) \in Nat /\ s + VobuEnd(s) <= Last
           /\ \A t \in s + 1 .. s + VobuEnd(s) : cell[t] = Body(s)
           /\ s + VobuEnd(s) < Last => cell[s + VobuEnd(s) + 1] # Body(s)
<1> DEFINE P(n) == /\ \A t \in s + 1 .. s + n : cell[t] = Body(s)
                   /\ s + n < Last => cell[s + n + 1] # Body(s)
           Ends   == {n \in 0 .. Last - s : s + n < Last => cell[s + n + 1] # Body(s)}
<1>1. Last - s \in Ends
  OBVIOUS
<1>2. PICK n \in Ends : \A m \in Ends : n <= m
  <2>1. Ends \in SUBSET Nat
    <3>1. 0 .. Last - s \subseteq Nat
      OBVIOUS
    <3> QED BY <3>1, Zenon
  <2> HIDE DEF Ends
  <2> QED BY <1>1, <2>1, Smallest
<1>3. ASSUME NEW t \in s + 1 .. s + n PROVE cell[t] = Body(s)
  <2>1. t - s - 1 \in 0 .. Last - s /\ t - s - 1 < n /\ s + (t - s - 1) + 1 = t
    BY <1>2
  <2>2. t - s - 1 \notin Ends
    BY <1>2, <2>1
  <2> QED BY <2>1, <2>2
<1>4. n \in 0 .. Last - s /\ P(n)
  BY <1>2, <1>3
<1>5. VobuEnd(s) = CHOOSE m \in 0 .. Last - s : P(m)
  BY DEF VobuEnd
<1>6. VobuEnd(s) \in 0 .. Last - s /\ P(VobuEnd(s))
  <2> HIDE DEF P
  <2> QED BY <1>4, <1>5
<1> QED BY <1>6

\* The next one begins behind it.
LEMMA NextBehind ==
    ASSUME Last \in Nat, NEW s \in Nat, 1 <= s, s <= Last, cell[s] \in {"nav", "alien"}
    PROVE  /\ NextVobu(s) \in Nat /\ s + NextVobu(s) <= Last
           /\ NextVobu(s) # 0 => 1 + VobuEnd(s) <= NextVobu(s)
           /\ NextVobu(s) # 0 => \A t \in s + 1 .. s + NextVobu(s) - 1 : cell[t] # cell[s]
           /\ NextVobu(s) = 0 => \A t \in s + 1 .. Last : cell[t] # cell[s]
<1> DEFINE later == {t \in s + 1 .. Last : cell[t] = cell[s]}
           first == CHOOSE t \in later : \A u \in later : t <= u
<1>1. CASE later = {}
  BY <1>1 DEF NextVobu
<1>2. CASE later # {}
  <2>1. later \in SUBSET Nat
    OBVIOUS
  <2>2. first \in later /\ \A u \in later : first <= u
    <3> HIDE DEF later
    <3>1. PICK t \in later : \A u \in later : t <= u
      BY <2>1, <1>2, Smallest
    <3> QED BY <3>1
  <2>3. NextVobu(s) = first - s
    BY <1>2 DEF NextVobu
  <2>4. Body(s) # cell[s]
    BY DEF Body
  <2>5. first \in s + 1 .. Last /\ cell[first] = cell[s]
    BY <2>2
  <2>6. first \notin s + 1 .. s + VobuEnd(s)
    BY <2>4, <2>5, VobuLength
  <2>7. ASSUME NEW t \in s + 1 .. first - 1
        PROVE  cell[t] # cell[s]
    <3>1. t \notin later
      BY <2>2, <2>5
    <3> QED BY <2>5, <3>1
  <2> HIDE DEF later, first
  <2> QED BY <2>3, <2>5, <2>6, <2>7, VobuLength
<1> QED BY <1>1, <1>2

-------------------------------------------------------------------------------
\* Positions: a VOBU to be read begins in the cell, and so does the next.
Placed == /\ job \in Jobs
          /\ sector \in Nat /\ 1 <= sector
          /\ offs \in Nat /\ left \in Nat /\ next \in Nat /\ ea \in Nat
          /\ told \in Int
          /\ pc \in {"nav", "scan", "vobu", "done", "cutoff", "fatal"}
          /\ tries \in Nat
          /\ pc \in {"nav", "scan", "vobu"} => sector <= Last
          /\ (pc = "vobu" /\ next # 0) => sector + next <= Last

\* A VOBU found by a scan ends before the pack that the scan has found.
Scanned == pc = "scan" => /\ 1 <= offs
                          /\ eafrom # "stack" => ea < offs

\* What is left of a VOBU, and the gap behind it, end where the next begins.
Room == IF next = 0 THEN Last - sector + 1 ELSE next
Fits == (pc = "vobu" /\ trust = "ok") => 1 <= offs /\ offs + left <= Room

\* The sum within a VOBU.
Sum == (job.report = "yes" /\ trust = "ok") =>
    /\ pc \in {"nav", "scan"} => told = sector - 1
    /\ pc = "vobu" => told = sector - 1 + offs
    /\ pc = "done" => told = Last

AInv == Placed /\ Scanned /\ Fits /\ Sum

LEMMA LastNat ==
    ASSUME job \in Jobs
    PROVE  Last \in Nat /\ 1 <= Last /\ Last < Width /\ Width \in Nat
<1>1. /\ job.cell \in Seq(Kinds) /\ IsCell(job.cell) /\ Len(job.cell) < Width
      /\ Width \in Nat
  BY PlayCellAssumption
<1>2. Len(job.cell) \in Nat
  BY <1>1
<1> QED BY <1>1, <1>2 DEF Last, cell, IsCell

LEMMA WantedCount ==
    ASSUME left \in Nat, left > 0, tries \in Nat
    PROVE  /\ (CHOOSE m \in Wanted : \A k \in Wanted : k <= m) \in 1 .. left
           /\ Wanted = 1 .. (CHOOSE m \in Wanted : \A k \in Wanted : k <= m)
<1> DEFINE w == IF tries > 0 THEN 1 ELSE IF left < BufSecs THEN left ELSE BufSecs
<1>1. BufSecs \in Nat /\ BufSecs >= 1
  BY PlayCellAssumption
<1>2. w \in 1 .. left
  BY <1>1
<1>3. Wanted = 1 .. w
  BY DEF Wanted
<1> HIDE DEF w
<1>4. w \in Wanted /\ \A k \in Wanted : k <= w
  BY <1>2, <1>3
<1> DEFINE c == CHOOSE m \in Wanted : \A k \in Wanted : k <= m
<1>5. c \in Wanted /\ \A k \in Wanted : k <= c
  BY <1>4
<1>6. c = w
  <2> HIDE DEF c
  <2> QED BY <1>2, <1>3, <1>4, <1>5
<1> QED BY <1>2, <1>3, <1>6

LEMMA AInvInit == Init => AInv
<1> SUFFICES ASSUME Init PROVE AInv
  OBVIOUS
<1> USE DEF Init
<1>1. Last \in Nat /\ 1 <= Last
  BY LastNat
<1>2. Placed
  BY <1>1 DEF Placed
<1>3. Scanned /\ Fits /\ Sum
  BY DEF Scanned, Fits, Sum
<1> QED BY <1>2, <1>3 DEF AInv

(* Each step keeps the invariant. *)

LEMMA ReadNavKeeps == AInv /\ ReadNav => AInv'
<1> SUFFICES ASSUME AInv, ReadNav PROVE AInv'
  OBVIOUS
<1>1. Placed /\ Scanned /\ Fits /\ Sum
  BY DEF AInv
<1>2. job \in Jobs /\ job' = job /\ cell' = cell /\ Last' = Last
  BY <1>1 DEF Placed, ReadNav, cell, Last
<1>3. Last \in Nat /\ 1 <= Last /\ Last < Width /\ Width \in Nat
  BY <1>2, LastNat
<1>4. pc = "nav" /\ sector \in Nat /\ 1 <= sector /\ sector <= Last
      /\ cell[sector] \in {"nav", "alien"}
  BY <1>1 DEF Placed, ReadNav
<1> DEFINE n == VobuEnd(sector)
           d == NextVobu(sector)
<1>5. n \in Nat /\ d \in Nat /\ sector + d <= Last
  BY <1>3, <1>4, VobuLength, NextBehind
<1>6. 1 + n <= (IF d = 0 THEN Last - sector + 1 ELSE d)
  <2>1. n \in Nat /\ sector + n <= Last
    BY <1>3, <1>4, VobuLength
  <2>2. d # 0 => 1 + n <= d
    BY <1>3, <1>4, NextBehind
  <2> HIDE DEF n, d
  <2> QED BY <1>3, <1>4, <1>5, <2>1, <2>2
<1>7. /\ sector' = sector /\ trust' = trust /\ ea' = n /\ left' = n
      /\ next' = d /\ offs' = 1 /\ tries' = 0 /\ eafrom' = "disc"
  BY DEF ReadNav
<1>8. \/ pc' = "vobu" /\ told' = told + 1
      \/ pc' = "fatal" /\ told' = told
  BY DEF ReadNav, Emit
<1> HIDE DEF n, d
<1>9. Placed'
  BY <1>1, <1>2, <1>3, <1>4, <1>5, <1>7, <1>8 DEF Placed
<1>10. Scanned'
  BY <1>8 DEF Scanned
<1>11. Fits'
  BY <1>2, <1>5, <1>6, <1>7 DEF Fits, Room
<1>12. Sum'
  BY <1>1, <1>2, <1>4, <1>7, <1>8 DEF Placed, Sum
<1> QED BY <1>9, <1>10, <1>11, <1>12 DEF AInv

LEMMA NotNavKeeps == AInv /\ NotNav => AInv'
<1> SUFFICES ASSUME AInv, NotNav PROVE AInv'
  OBVIOUS
<1>1. Placed /\ Scanned /\ Fits /\ Sum
  BY DEF AInv
<1>2. job \in Jobs /\ job' = job /\ cell' = cell /\ Last' = Last
  BY <1>1 DEF Placed, NotNav, cell, Last
<1>3. Last \in Nat /\ 1 <= Last /\ Last < Width /\ Width \in Nat
  BY <1>2, LastNat
<1>4. Placed'
  BY <1>1, <1>2, <1>3 DEF Placed, Scanned, Fits, NotNav
<1>5. Scanned'
  BY <1>1, <1>2, <1>3 DEF Placed, Scanned, NotNav
<1>6. Fits'
  BY <1>1, <1>2, <1>3 DEF Placed, Scanned, Fits, Room, NotNav
<1>7. Sum'
  BY <1>1, <1>2, <1>3 DEF Placed, Fits, Sum, Room, NotNav
<1> QED BY <1>4, <1>5, <1>6, <1>7 DEF AInv

LEMMA RetryNavKeeps == AInv /\ RetryNav => AInv'
<1> SUFFICES ASSUME AInv, RetryNav PROVE AInv'
  OBVIOUS
<1>1. Placed /\ Scanned /\ Fits /\ Sum
  BY DEF AInv
<1>2. job \in Jobs /\ job' = job /\ cell' = cell /\ Last' = Last
  BY <1>1 DEF Placed, RetryNav, cell, Last
<1>3. Last \in Nat /\ 1 <= Last /\ Last < Width /\ Width \in Nat
  BY <1>2, LastNat
<1>4. Placed'
  BY <1>1, <1>2, <1>3 DEF Placed, Scanned, Fits, RetryNav
<1>5. Scanned'
  BY <1>1, <1>2, <1>3 DEF Placed, Scanned, RetryNav
<1>6. Fits'
  BY <1>1, <1>2, <1>3 DEF Placed, Scanned, Fits, Room, RetryNav
<1>7. Sum'
  BY <1>1, <1>2, <1>3 DEF Placed, Fits, Sum, Room, RetryNav
<1> QED BY <1>4, <1>5, <1>6, <1>7 DEF AInv

LEMMA NavLostKeeps == AInv /\ NavLost => AInv'
<1> SUFFICES ASSUME AInv, NavLost PROVE AInv'
  OBVIOUS
<1>1. Placed /\ Scanned /\ Fits /\ Sum
  BY DEF AInv
<1>2. job \in Jobs /\ job' = job /\ cell' = cell /\ Last' = Last
  BY <1>1 DEF Placed, NavLost, cell, Last
<1>3. Last \in Nat /\ 1 <= Last /\ Last < Width /\ Width \in Nat
  BY <1>2, LastNat
<1>4. ea' \in Nat
  <2>1. ea \in Nat /\ Stack \subseteq Nat
    BY <1>1, PlayCellAssumption DEF Placed
  <2> QED BY <2>1 DEF NavLost
<1>5. Placed'
  BY <1>1, <1>2, <1>3, <1>4 DEF Placed, Scanned, Fits, NavLost
<1>6. Scanned'
  BY <1>1, <1>2, <1>3 DEF Placed, Scanned, NavLost
<1>7. Fits'
  BY <1>1, <1>2, <1>3 DEF Placed, Scanned, Fits, Room, NavLost
<1>8. Sum'
  BY <1>1, <1>2, <1>3 DEF Placed, Fits, Sum, Room, NavLost
<1> QED BY <1>5, <1>6, <1>7, <1>8 DEF AInv

LEMMA ScanPackKeeps == AInv /\ ScanPack => AInv'
<1> SUFFICES ASSUME AInv, ScanPack PROVE AInv'
  OBVIOUS
<1>1. Placed /\ Scanned /\ Fits /\ Sum
  BY DEF AInv
<1>2. job \in Jobs /\ job' = job /\ cell' = cell /\ Last' = Last
  BY <1>1 DEF Placed, ScanPack, cell, Last
<1>3. Last \in Nat /\ 1 <= Last /\ Last < Width /\ Width \in Nat
  BY <1>2, LastNat
<1>4. Placed'
  BY <1>1, <1>2, <1>3 DEF Placed, Scanned, Fits, ScanPack
<1>5. Scanned'
  BY <1>1, <1>2, <1>3 DEF Placed, Scanned, ScanPack
<1>6. Fits'
  BY <1>1, <1>2, <1>3 DEF Placed, Scanned, Fits, Room, ScanPack
<1>7. Sum'
  BY <1>1, <1>2, <1>3 DEF Placed, Fits, Sum, Room, ScanPack
<1> QED BY <1>4, <1>5, <1>6, <1>7 DEF AInv

LEMMA ScanFoundKeeps == AInv /\ ScanFound => AInv'
<1> SUFFICES ASSUME AInv, ScanFound PROVE AInv'
  OBVIOUS
<1>1. Placed /\ Scanned /\ Fits /\ Sum
  BY DEF AInv
<1>2. job \in Jobs /\ job' = job /\ cell' = cell /\ Last' = Last
  BY <1>1 DEF Placed, ScanFound, cell, Last
<1>3. Last \in Nat /\ 1 <= Last /\ Last < Width /\ Width \in Nat
  BY <1>2, LastNat
<1>4. /\ pc = "scan" /\ sector' = sector /\ ea' = ea /\ left' = ea
      /\ next' = offs /\ sector + offs <= Last /\ offs' = 1 /\ tries' = 0
      /\ trust' = IF eafrom = "stack" THEN "gone" ELSE trust
  BY DEF ScanFound
<1>5. \/ pc' = "vobu" /\ told' = told + 1
      \/ pc' = "fatal" /\ told' = told
  BY DEF ScanFound, Emit
<1>6. Placed'
  BY <1>1, <1>2, <1>4, <1>5 DEF Placed
<1>7. Scanned'
  BY <1>5 DEF Scanned
<1>8. Fits'
  BY <1>1, <1>2, <1>4, <1>5 DEF Placed, Scanned, Fits, Room
<1>9. Sum'
  BY <1>1, <1>2, <1>4, <1>5 DEF Placed, Sum
<1> QED BY <1>6, <1>7, <1>8, <1>9 DEF AInv

LEMMA ScanEndKeeps == AInv /\ ScanEnd => AInv'
<1> SUFFICES ASSUME AInv, ScanEnd PROVE AInv'
  OBVIOUS
<1>1. Placed /\ Scanned /\ Fits /\ Sum
  BY DEF AInv
<1>2. job \in Jobs /\ job' = job /\ cell' = cell /\ Last' = Last
  BY <1>1 DEF Placed, ScanEnd, cell, Last
<1>3. Last \in Nat /\ 1 <= Last /\ Last < Width /\ Width \in Nat
  BY <1>2, LastNat
<1>4. Placed'
  BY <1>1, <1>2, <1>3 DEF Placed, Scanned, Fits, ScanEnd
<1>5. Scanned'
  BY <1>1, <1>2, <1>3 DEF Placed, Scanned, ScanEnd
<1>6. Fits'
  BY <1>1, <1>2, <1>3 DEF Placed, Scanned, Fits, Room, ScanEnd
<1>7. Sum'
  BY <1>1, <1>2, <1>3 DEF Placed, Fits, Sum, Room, ScanEnd
<1> QED BY <1>4, <1>5, <1>6, <1>7 DEF AInv

LEMMA CopyBlocksKeeps == AInv /\ CopyBlocks => AInv'
<1> SUFFICES ASSUME AInv, CopyBlocks PROVE AInv'
  OBVIOUS
<1>1. Placed /\ Scanned /\ Fits /\ Sum
  BY DEF AInv
<1>2. job \in Jobs /\ job' = job /\ cell' = cell /\ Last' = Last
  BY <1>1 DEF Placed, CopyBlocks, cell, Last
<1>3. Last \in Nat /\ 1 <= Last /\ Last < Width /\ Width \in Nat
  BY <1>2, LastNat
<1> DEFINE n == CHOOSE m \in Wanted : \A k \in Wanted : k <= m
<1>4. n \in 1 .. left
  BY <1>1, WantedCount DEF Placed, CopyBlocks
<1>5. /\ pc = "vobu" /\ sector' = sector /\ next' = next /\ trust' = trust
      /\ ea' = ea /\ tries' = 0 /\ offs' = offs + n /\ left' = left - n
  BY DEF CopyBlocks
<1>6. \/ pc' = "vobu" /\ told' = told + n
      \/ pc' = "fatal" /\ told' = told
  BY DEF CopyBlocks, Emit
<1> HIDE DEF n
<1>7. Placed'
  BY <1>1, <1>2, <1>4, <1>5, <1>6 DEF Placed
<1>8. Scanned'
  BY <1>6 DEF Scanned
<1>9. Fits'
  BY <1>1, <1>2, <1>4, <1>5 DEF Placed, Fits, Room
<1>10. Sum'
  BY <1>1, <1>2, <1>4, <1>5, <1>6 DEF Placed, Sum
<1> QED BY <1>7, <1>8, <1>9, <1>10 DEF AInv

LEMMA RetryBlocksKeeps == AInv /\ RetryBlocks => AInv'
<1> SUFFICES ASSUME AInv, RetryBlocks PROVE AInv'
  OBVIOUS
<1>1. Placed /\ Scanned /\ Fits /\ Sum
  BY DEF AInv
<1>2. job \in Jobs /\ job' = job /\ cell' = cell /\ Last' = Last
  BY <1>1 DEF Placed, RetryBlocks, cell, Last
<1>3. Last \in Nat /\ 1 <= Last /\ Last < Width /\ Width \in Nat
  BY <1>2, LastNat
<1>4. Placed'
  BY <1>1, <1>2, <1>3 DEF Placed, Scanned, Fits, RetryBlocks
<1>5. Scanned'
  BY <1>1, <1>2, <1>3 DEF Placed, Scanned, RetryBlocks
<1>6. Fits'
  BY <1>1, <1>2, <1>3 DEF Placed, Scanned, Fits, Room, RetryBlocks
<1>7. Sum'
  BY <1>1, <1>2, <1>3 DEF Placed, Fits, Sum, Room, RetryBlocks
<1> QED BY <1>4, <1>5, <1>6, <1>7 DEF AInv

LEMMA BlockLostKeeps == AInv /\ BlockLost => AInv'
<1> SUFFICES ASSUME AInv, BlockLost PROVE AInv'
  OBVIOUS
<1>1. Placed /\ Scanned /\ Fits /\ Sum
  BY DEF AInv
<1>2. job \in Jobs /\ job' = job /\ cell' = cell /\ Last' = Last
  BY <1>1 DEF Placed, BlockLost, cell, Last
<1>3. Last \in Nat /\ 1 <= Last /\ Last < Width /\ Width \in Nat
  BY <1>2, LastNat
<1>4. Placed'
  BY <1>1, <1>2, <1>3 DEF Placed, Scanned, Fits, BlockLost, Emit
<1>5. Scanned'
  BY <1>1, <1>2, <1>3 DEF Placed, Scanned, BlockLost, Emit
<1>6. Fits'
  BY <1>1, <1>2, <1>3 DEF Placed, Scanned, Fits, Room, BlockLost, Emit
<1>7. /\ pc = "vobu" /\ sector' = sector /\ trust' = trust
      /\ told \in Int /\ sector \in Nat /\ offs \in Nat
  BY <1>1 DEF Placed, BlockLost
<1>8. \/ pc' = "fatal"
      \/ pc' = "vobu" /\ told' = told + 1 /\ offs' = offs + 1
  BY DEF BlockLost, Emit
<1>9. Sum'
  BY <1>1, <1>2, <1>7, <1>8 DEF Sum
<1> QED BY <1>4, <1>5, <1>6, <1>9 DEF AInv

LEMMA EndVobuKeeps == AInv /\ EndVobu => AInv'
<1> SUFFICES ASSUME AInv, EndVobu PROVE AInv'
  OBVIOUS
<1>1. Placed /\ Scanned /\ Fits /\ Sum
  BY DEF AInv
<1>2. job \in Jobs /\ job' = job /\ cell' = cell /\ Last' = Last
  BY <1>1 DEF Placed, EndVobu, cell, Last
<1>3. Last \in Nat /\ 1 <= Last /\ Last < Width /\ Width \in Nat
  BY <1>2, LastNat
<1>4. /\ pc = "vobu" /\ left = 0 /\ sector' = sector + next /\ tries' = 0
      /\ offs' = offs /\ left' = left /\ next' = next /\ ea' = ea /\ trust' = trust
  BY DEF EndVobu
<1>5. trust = "ok" => CellGap = Room - offs /\ CellGap \in 0 .. Width - 1
  BY <1>1, <1>3, <1>4 DEF CellGap, Placed, Fits, Room
<1>6. \/ /\ pc' = (IF next = 0 THEN "done" ELSE "nav")
         /\ \/ job.report = "yes" /\ told' = told + (CellGap % Width)
            \/ ~(job.report = "yes" /\ CellGap # 0) /\ told' = told
      \/ pc' = "fatal" /\ told' = told
  BY DEF EndVobu, Emit
<1>7. CellGap \in Int
  BY <1>1, <1>3 DEF CellGap, Placed
<1>8. told' \in Int
  BY <1>1, <1>3, <1>6, <1>7 DEF Placed
<1>9. Placed'
  BY <1>1, <1>2, <1>4, <1>6, <1>8 DEF Placed
<1>10. Scanned'
  BY <1>6 DEF Scanned
<1>11. Fits'
  BY <1>6 DEF Fits
<1>12. Sum'
  <2> SUFFICES ASSUME job.report = "yes", trust = "ok", pc' # "fatal"
               PROVE  told' = told + (Room - offs)
    BY <1>1, <1>2, <1>3, <1>4, <1>6 DEF Placed, Sum, Room
  <2>1. CellGap % Width = CellGap
    BY <1>3, <1>5
  <2> QED BY <1>1, <1>5, <1>6, <2>1 DEF Placed
<1> QED BY <1>9, <1>10, <1>11, <1>12 DEF AInv

LEMMA AInvNext == AInv /\ [Next]_vars => AInv'
<1> SUFFICES ASSUME AInv, [Next]_vars PROVE AInv'
  OBVIOUS
<1>1. CASE ReadNav
  BY <1>1, ReadNavKeeps
<1>2. CASE NotNav
  BY <1>2, NotNavKeeps
<1>3. CASE RetryNav
  BY <1>3, RetryNavKeeps
<1>4. CASE NavLost
  BY <1>4, NavLostKeeps
<1>5. CASE ScanPack
  BY <1>5, ScanPackKeeps
<1>6. CASE ScanFound
  BY <1>6, ScanFoundKeeps
<1>7. CASE ScanEnd
  BY <1>7, ScanEndKeeps
<1>8. CASE CopyBlocks
  BY <1>8, CopyBlocksKeeps
<1>9. CASE RetryBlocks
  BY <1>9, RetryBlocksKeeps
<1>10. CASE BlockLost
  BY <1>10, BlockLostKeeps
<1>11. CASE EndVobu
  BY <1>11, EndVobuKeeps
<1>12. CASE UNCHANGED vars
  BY <1>12 DEF vars, AInv, Placed, Scanned, Fits, Sum, Room, cell, Last
<1>13. CASE Terminated
  BY <1>12, <1>13 DEF Terminated
<1> QED BY <1>1, <1>2, <1>3, <1>4, <1>5, <1>6, <1>7, <1>8, <1>9, <1>10, <1>11, <1>12, <1>13 DEF Next, Step

\* Accounted: whatever can be read of a cell and whatever is made up for it, the
\* packs written and the gaps reported are the sectors gone through, as long as
\* no vobu_ea was used that nothing had set.
THEOREM GapsAddUp == Spec => []Accounted
<1>1. AInv => Accounted
  <2> SUFFICES ASSUME AInv PROVE Accounted
    OBVIOUS
  <2>1. Sum
    BY DEF AInv
  <2> QED BY <2>1 DEF Sum, Accounted
<1> QED BY <1>1, AInvInit, AInvNext, PTL DEF Spec

-------------------------------------------------------------------------------
(***************************************************************************)
(* What is written, in which order, and what for: InOrder and Salvaged     *)
(***************************************************************************)
Stands(p) == p.what \in {"sector", "dummy", "nav"}
Dated(p)  == p.what # "invalid"

\* The sector s has been gone through.
Passed(s) == /\ pc \in {"nav", "scan"} => s < sector
             /\ pc = "vobu" => s < sector + offs

Whole == \E S : out \in Seq(S)

\* A navigation pack is made up, and sectors are passed by the scan behind the
\* last pack it has seen, only where they cannot be read.
Lost == pc = "scan" =>
    /\ Fails(sector)
    /\ eafrom # "stack" => \A s \in sector + ea + 1 .. sector + offs - 1 : Fails(s)

Made == \A i \in 1 .. Len(out) : out[i].what \in {"dummy", "nav"} => Fails(out[i].sector)

Sectors == trust = "ok" =>
    \A i \in 1 .. Len(out) :
       Stands(out[i]) => out[i].sector \in Nat /\ Passed(out[i].sector)

Times == (trust = "ok" /\ Alone) =>
    /\ scr \in Nat
    /\ \A i \in 1 .. Len(out) :
          Dated(out[i]) => /\ out[i].scr \in Nat
                           /\ pc \in {"nav", "scan", "vobu"} => out[i].scr <= scr

\* What is to come is not dated before what has been written.
Clock == (trust = "ok" /\ Alone) =>
    /\ pc \in {"nav", "scan"} => scr <= Scr[sector]
    /\ (pc = "vobu" /\ sector + offs <= Last) => scr <= Scr[sector + offs]

Written(s) == \E i \in 1 .. Len(out) : out[i].what = "sector" /\ out[i].sector = s

Kept == (trust = "ok" /\ Alone /\ pc \in {"nav", "scan", "vobu", "done"}) =>
    \A s \in 1 .. Last : Passed(s) /\ cell[s] \in Own /\ ~Fails(s) => Written(s)

\* Nothing is left to be read between a VOBU and the next.
Bare == (trust = "ok" /\ Alone /\ pc = "vobu") =>
    \A s \in sector + offs + left .. sector + Room - 1 :
       cell[s] \in Own => Fails(s)

WrittenInv == Whole /\ Made /\ SectorsForward /\ ScrForward /\ Sectors /\ Times /\ Kept

OInv == WrittenInv /\ Lost /\ Clock /\ Bare

\* What is written while the sectors from b up to e are gone through.
InTurn(packs, b, e) ==
    /\ b <= e
    /\ \A i \in 1 .. Len(packs) :
          Stands(packs[i]) =>
             packs[i].sector \in Nat /\ b <= packs[i].sector /\ packs[i].sector < e
    /\ \A i, j \in 1 .. Len(packs) :
          i < j /\ Stands(packs[i]) /\ Stands(packs[j]) =>
             packs[i].sector < packs[j].sector

InTime(packs, from, to) ==
    /\ from \in Nat /\ to \in Nat /\ from <= to
    /\ \A i \in 1 .. Len(packs) :
          Dated(packs[i]) =>
             packs[i].scr \in Nat /\ from <= packs[i].scr /\ packs[i].scr <= to
    /\ \A i, j \in 1 .. Len(packs) :
          i < j /\ Dated(packs[i]) /\ Dated(packs[j]) => packs[i].scr <= packs[j].scr

Complete(packs, b, e) ==
    \A s \in 1 .. Last :
       b <= s /\ s < e /\ cell[s] \in Own /\ ~Fails(s) =>
          \E i \in 1 .. Len(packs) : packs[i].what = "sector" /\ packs[i].sector = s

OnlyLost(packs) ==
    \A i \in 1 .. Len(packs) : packs[i].what \in {"dummy", "nav"} => Fails(packs[i].sector)

\* Up to b all has been gone through, and the step goes on up to e.
Moves(b, e) ==
    /\ \A s \in Nat : Passed(s) <=> s < b
    /\ \A s \in Nat : s < e => Passed(s)'
    /\ pc' \in {"nav", "scan", "vobu", "done"} => \A s \in 1 .. Last : Passed(s)' => s < e

SectorsUpTo(b) ==
    \A i \in 1 .. Len(out) : Stands(out[i]) => out[i].sector \in Nat /\ out[i].sector < b

TimesUpTo(t) ==
    \A i \in 1 .. Len(out) : Dated(out[i]) => out[i].scr \in Nat /\ out[i].scr <= t

\* The step writes the packs behind the others.
Grows(packs) ==
    /\ Len(out) \in Nat /\ Len(packs) \in Nat
    /\ \A i \in 1 .. Len(out) : i \in 1 .. Len(out') /\ out'[i] = out[i]
    /\ \A i \in 1 .. Len(packs) :
          Len(out) + i \in 1 .. Len(out') /\ out'[Len(out) + i] = packs[i]
    /\ \A i \in 1 .. Len(out') :
          i \in 1 .. Len(out) \/ \E k \in 1 .. Len(packs) : i = Len(out) + k

LEMMA Grown ==
    ASSUME Whole, NEW T, NEW packs \in Seq(T), out' = out \o packs
    PROVE  Whole' /\ Grows(packs)
<1>1. PICK S : out \in Seq(S)
  BY DEF Whole
<1>2. out \in Seq(S \cup T) /\ packs \in Seq(S \cup T)
  BY <1>1
<1>3. out' \in Seq(S \cup T) /\ Len(out) \in Nat /\ Len(packs) \in Nat
      /\ Len(out') = Len(out) + Len(packs)
  BY <1>2
<1>4. Whole'
  BY <1>3 DEF Whole
<1>5. \A i \in 1 .. Len(out) : i \in 1 .. Len(out') /\ out'[i] = out[i]
  BY <1>2, <1>3
<1>6. \A i \in 1 .. Len(packs) :
         Len(out) + i \in 1 .. Len(out') /\ out'[Len(out) + i] = packs[i]
  BY <1>2, <1>3
<1>7. ASSUME NEW i \in 1 .. Len(out'), i \notin 1 .. Len(out)
      PROVE  \E k \in 1 .. Len(packs) : i = Len(out) + k
  <2>1. i - Len(out) \in 1 .. Len(packs) /\ i = Len(out) + (i - Len(out))
    BY <1>3, <1>7
  <2> QED BY <2>1
<1> QED BY <1>3, <1>4, <1>5, <1>6, <1>7 DEF Grows

\* What follows in the order of the sectors keeps it.
LEMMA SectorsGrow ==
    ASSUME NEW packs, Grows(packs), SectorsForward, trust = "ok",
           NEW b \in Nat, NEW e \in Nat, SectorsUpTo(b), InTurn(packs, b, e)
    PROVE  SectorsForward'
<1> SUFFICES ASSUME NEW i \in 1 .. Len(out'), NEW j \in 1 .. Len(out'), i < j,
                    Stands(out'[i]), Stands(out'[j])
             PROVE  out'[i].sector < out'[j].sector
  BY DEF SectorsForward, Stands
<1>1. /\ Len(out) \in Nat /\ Len(packs) \in Nat
      /\ \A k \in 1 .. Len(out) : out'[k] = out[k]
      /\ \A k \in 1 .. Len(packs) : out'[Len(out) + k] = packs[k]
      /\ \A k \in 1 .. Len(out') :
            k \in 1 .. Len(out) \/ \E m \in 1 .. Len(packs) : k = Len(out) + m
  BY DEF Grows
<1>2. CASE j \in 1 .. Len(out)
  <2>1. i \in 1 .. Len(out) /\ out'[i] = out[i] /\ out'[j] = out[j]
    BY <1>1, <1>2
  <2> QED BY <1>2, <2>1 DEF SectorsForward, Stands
<1>3. CASE i \in 1 .. Len(out) /\ j \notin 1 .. Len(out)
  <2>1. PICK m \in 1 .. Len(packs) : j = Len(out) + m
    BY <1>1, <1>3
  <2>2. out'[i] = out[i] /\ out'[j] = packs[m]
    BY <1>1, <1>3, <2>1
  <2>3. out[i].sector \in Nat /\ out[i].sector < b
    BY <1>3, <2>2 DEF SectorsUpTo
  <2>4. packs[m].sector \in Nat /\ b <= packs[m].sector
    BY <2>2 DEF InTurn
  <2> QED BY <2>2, <2>3, <2>4
<1>4. CASE i \notin 1 .. Len(out) /\ j \notin 1 .. Len(out)
  <2>1. PICK m \in 1 .. Len(packs) : j = Len(out) + m
    BY <1>1, <1>4
  <2>2. PICK k \in 1 .. Len(packs) : i = Len(out) + k
    BY <1>1, <1>4
  <2>3. out'[i] = packs[k] /\ out'[j] = packs[m] /\ k < m
    BY <1>1, <2>1, <2>2
  <2> QED BY <2>3 DEF InTurn
<1> QED BY <1>2, <1>3, <1>4

\* What is dated in the order of time keeps that.
LEMMA TimesGrow ==
    ASSUME NEW packs, Grows(packs), ScrForward, trust = "ok", Alone,
           NEW b \in Nat, NEW e \in Nat, TimesUpTo(b), InTime(packs, b, e)
    PROVE  ScrForward'
<1> SUFFICES ASSUME NEW i \in 1 .. Len(out'), NEW j \in 1 .. Len(out'), i < j,
                    Dated(out'[i]), Dated(out'[j])
             PROVE  out'[i].scr <= out'[j].scr
  BY DEF ScrForward, Dated
<1>1. /\ Len(out) \in Nat /\ Len(packs) \in Nat
      /\ \A k \in 1 .. Len(out) : out'[k] = out[k]
      /\ \A k \in 1 .. Len(packs) : out'[Len(out) + k] = packs[k]
      /\ \A k \in 1 .. Len(out') :
            k \in 1 .. Len(out) \/ \E m \in 1 .. Len(packs) : k = Len(out) + m
  BY DEF Grows
<1>2. CASE j \in 1 .. Len(out)
  <2>1. i \in 1 .. Len(out) /\ out'[i] = out[i] /\ out'[j] = out[j]
    BY <1>1, <1>2
  <2> QED BY <1>2, <2>1 DEF ScrForward, Dated
<1>3. CASE i \in 1 .. Len(out) /\ j \notin 1 .. Len(out)
  <2>1. PICK m \in 1 .. Len(packs) : j = Len(out) + m
    BY <1>1, <1>3
  <2>2. out'[i] = out[i] /\ out'[j] = packs[m]
    BY <1>1, <1>3, <2>1
  <2>3. out[i].scr \in Nat /\ out[i].scr <= b
    BY <1>3, <2>2 DEF TimesUpTo
  <2>4. packs[m].scr \in Nat /\ b <= packs[m].scr
    BY <2>2 DEF InTime
  <2> QED BY <2>2, <2>3, <2>4
<1>4. CASE i \notin 1 .. Len(out) /\ j \notin 1 .. Len(out)
  <2>1. PICK m \in 1 .. Len(packs) : j = Len(out) + m
    BY <1>1, <1>4
  <2>2. PICK k \in 1 .. Len(packs) : i = Len(out) + k
    BY <1>1, <1>4
  <2>3. out'[i] = packs[k] /\ out'[j] = packs[m] /\ k < m
    BY <1>1, <2>1, <2>2
  <2> QED BY <2>3 DEF InTime
<1> QED BY <1>2, <1>3, <1>4

\* Between a VOBU and the next navigation pack nothing is of the cell.
LEMMA NothingBetween ==
    ASSUME job \in Jobs, NEW s \in 1 .. Last, cell[s] = "nav",
           NEW t \in s + 1 + VobuEnd(s) .. Last,
           NextVobu(s) # 0 => t < s + NextVobu(s)
    PROVE  cell[t] \notin Own
<1>1. Last \in Nat /\ IsCell(cell) /\ Last = Len(cell) /\ s \in Nat /\ 1 <= s /\ s <= Last
  BY LastNat, PlayCellAssumption DEF cell, Last
<1> DEFINE n == VobuEnd(s)
           d == NextVobu(s)
<1>2. n \in Nat /\ (s + n < Last => cell[s + n + 1] # "av")
  BY <1>1, VobuLength DEF Body
<1>3. /\ d \in Nat
      /\ d # 0 => \A u \in s + 1 .. s + d - 1 : cell[u] # "nav"
      /\ d = 0 => \A u \in s + 1 .. Last : cell[u] # "nav"
  BY <1>1, NextBehind
<1> HIDE DEF n, d
<1> DEFINE End == {u \in s + 1 + n .. Last : (d # 0 => u < s + d) /\ cell[u] = "av"}
<1>4. cell[t] # "nav"
  BY <1>1, <1>2, <1>3 DEF n, d
<1>5. End = {}
  <2> SUFFICES ASSUME End # {} PROVE FALSE
    OBVIOUS
  <2>1. PICK u \in End : \A v \in End : u <= v
    <3>1. End \in SUBSET Nat
      BY <1>1, <1>2
    <3> HIDE DEF End
    <3> QED BY <3>1, Smallest
  <2>2. u \in s + 1 + n .. Last /\ (d # 0 => u < s + d) /\ cell[u] = "av"
    BY <2>1
  <2>3. u # s + n + 1
    BY <1>1, <1>2, <2>2
  <2>4. u - 1 \in s + 1 + n .. Last /\ (d # 0 => u - 1 < s + d)
    BY <1>1, <1>2, <1>3, <2>2, <2>3
  <2>5. u - 1 \notin End
    BY <2>1, <2>4
  <2>6. cell[u - 1] \in Own
    BY <1>1, <1>2, <2>2 DEF IsCell
  <2>7. cell[u - 1] # "nav"
    BY <1>1, <1>2, <1>3, <2>4
  <2> QED BY <2>4, <2>5, <2>6, <2>7 DEF Own
<1>6. cell[t] # "av"
  BY <1>5 DEF n, d
<1> QED BY <1>4, <1>6 DEF Own

\* The clock of a cell that is not interleaved goes up from sector to sector.
LEMMA Rising ==
    ASSUME job \in Jobs, Alone, NEW s \in 1 .. Last, NEW t \in 1 .. Last, s <= t
    PROVE  Scr[s] \in Nat /\ Scr[t] \in Nat /\ Scr[s] <= Scr[t]
           /\ (s < t => Scr[s] + 1 <= Scr[t])
<1>1. /\ Last \in Nat
      /\ \A u \in 1 .. Last : Scr[u] \in Nat
      /\ \A u \in 2 .. Last : Scr[u] >= Scr[u - 1] + 1
  BY LastNat, PlayCellAssumption DEF Alone, cell, Last
<1> DEFINE Back == {u \in s + 1 .. Last : ~ (Scr[s] + 1 <= Scr[u])}
<1>2. Back = {}
  <2> SUFFICES ASSUME Back # {} PROVE FALSE
    OBVIOUS
  <2>1. PICK u \in Back : \A v \in Back : u <= v
    <3>1. Back \in SUBSET Nat
      BY <1>1
    <3> HIDE DEF Back
    <3> QED BY <3>1, Smallest
  <2>2. u \in 2 .. Last /\ u \in s + 1 .. Last /\ ~ (Scr[s] + 1 <= Scr[u])
    BY <1>1, <2>1
  <2>3. u - 1 \notin Back
    BY <2>1, <2>2
  <2>4. Scr[u] >= Scr[u - 1] + 1 /\ Scr[u] \in Nat /\ Scr[u - 1] \in Nat /\ Scr[s] \in Nat
    BY <1>1, <2>2
  <2>5. u - 1 = s \/ Scr[s] + 1 <= Scr[u - 1]
    BY <1>1, <2>2, <2>3
  <2> QED BY <2>2, <2>4, <2>5
<1>3. s < t => Scr[s] + 1 <= Scr[t]
  BY <1>1, <1>2
<1> QED BY <1>1, <1>3

LEMMA Extends ==
    ASSUME Placed, WrittenInv, job' = job, trust' = "ok" => trust = "ok",
           pc \in {"nav", "scan", "vobu"},
           NEW T, NEW packs \in Seq(T), out' = out \o packs,
           NEW b \in Nat, NEW e \in Nat, Moves(b, e), OnlyLost(packs),
           trust' = "ok" => InTurn(packs, b, e),
           (trust' = "ok" /\ Alone) => InTime(packs, scr, scr') /\ Complete(packs, b, e)
    PROVE  WrittenInv'
<1>1. /\ Whole /\ Made /\ SectorsForward /\ ScrForward /\ Sectors /\ Times /\ Kept
      /\ Last \in Nat
  BY LastNat DEF WrittenInv, Placed
<1>2. /\ cell' = cell /\ Last' = Last /\ Alone' = Alone
      /\ \A s : Fails(s)' = Fails(s)
  BY DEF cell, Last, Alone, Fails
<1>3. Whole' /\ Grows(packs)
  BY <1>1, Grown
<1>4. Made'
  <2> SUFFICES ASSUME NEW i \in 1 .. Len(out'), out'[i].what \in {"dummy", "nav"}
               PROVE  Fails(out'[i].sector)
    BY <1>2 DEF Made
  <2>1. CASE i \in 1 .. Len(out)
    BY <1>1, <1>3, <2>1 DEF Grows, Made
  <2>2. CASE \E k \in 1 .. Len(packs) : i = Len(out) + k
    BY <1>3, <2>2 DEF Grows, OnlyLost
  <2> QED BY <1>3, <2>1, <2>2 DEF Grows
<1>5. SectorsForward' /\ Sectors'
  <2> SUFFICES ASSUME trust' = "ok" PROVE SectorsForward' /\ Sectors'
    BY DEF SectorsForward, Sectors
  <2>1. trust = "ok" /\ InTurn(packs, b, e)
    OBVIOUS
  <2>2. SectorsUpTo(b)
    BY <1>1, <2>1 DEF Sectors, SectorsUpTo, Moves
  <2>3. SectorsForward'
    BY <1>1, <1>3, <2>1, <2>2, SectorsGrow
  <2>4. ASSUME NEW i \in 1 .. Len(out'), Stands(out'[i])
        PROVE  out'[i].sector \in Nat /\ Passed(out[i].sector)'
    <3>1. CASE i \in 1 .. Len(out)
      <4>1. out'[i] = out[i]
        BY <1>3, <3>1 DEF Grows
      <4>2. out[i].sector \in Nat /\ out[i].sector < b /\ b <= e
        BY <2>1, <2>2, <2>4, <3>1, <4>1 DEF SectorsUpTo, InTurn
      <4>3. out[i].sector < e
        BY <4>2
      <4> QED BY <4>1, <4>2, <4>3 DEF Moves
    <3>2. CASE \E k \in 1 .. Len(packs) : i = Len(out) + k
      <4>1. PICK k \in 1 .. Len(packs) : i = Len(out) + k
        BY <3>2
      <4>2. out'[i] = packs[k]
        BY <1>3, <4>1 DEF Grows
      <4>3. packs[k].sector \in Nat /\ packs[k].sector < e
        BY <2>1, <2>4, <4>2 DEF InTurn
      <4> QED BY <4>2, <4>3 DEF Moves
    <3> QED BY <1>3, <3>1, <3>2 DEF Grows
  <2>5. Sectors'
    BY <2>4 DEF Sectors, Stands
  <2> QED BY <2>3, <2>5
<1>6. ScrForward' /\ Times'
  <2> SUFFICES ASSUME trust' = "ok", Alone PROVE ScrForward' /\ Times'
    BY <1>2 DEF ScrForward, Times
  <2>1. trust = "ok" /\ InTime(packs, scr, scr')
    OBVIOUS
  <2>2. TimesUpTo(scr)
    BY <1>1, <2>1 DEF Times, TimesUpTo
  <2>3. scr \in Nat /\ scr' \in Nat /\ scr <= scr'
    BY <2>1 DEF InTime
  <2>4. ScrForward'
    BY <1>1, <1>3, <2>1, <2>2, <2>3, TimesGrow
  <2>5. ASSUME NEW i \in 1 .. Len(out'), Dated(out'[i])
        PROVE  out'[i].scr \in Nat /\ out'[i].scr <= scr'
    <3>1. CASE i \in 1 .. Len(out)
      <4>1. out'[i] = out[i]
        BY <1>3, <3>1 DEF Grows
      <4>2. out[i].scr \in Nat /\ out[i].scr <= scr
        BY <2>2, <2>5, <3>1, <4>1 DEF TimesUpTo
      <4> QED BY <2>3, <4>1, <4>2
    <3>2. CASE \E k \in 1 .. Len(packs) : i = Len(out) + k
      BY <1>3, <2>1, <2>5, <3>2 DEF Grows, InTime
    <3> QED BY <1>3, <3>1, <3>2 DEF Grows
  <2>6. Times'
    BY <2>3, <2>5 DEF Times, Dated
  <2> QED BY <2>4, <2>6
<1>7. Kept'
  <2> SUFFICES ASSUME trust' = "ok", Alone, pc' \in {"nav", "scan", "vobu", "done"},
                      NEW s \in 1 .. Last, Passed(s)', cell[s] \in Own, ~Fails(s)
               PROVE  Written(s)'
    BY <1>2 DEF Kept
  <2>1. trust = "ok" /\ Complete(packs, b, e) /\ s < e /\ s \in Nat
    BY <1>1 DEF Moves
  <2>2. CASE s < b
    <3>1. Written(s)
      BY <1>1, <2>1, <2>2 DEF Kept, Moves
    <3>2. PICK i \in 1 .. Len(out) : out[i].what = "sector" /\ out[i].sector = s
      BY <3>1 DEF Written
    <3>3. i \in 1 .. Len(out') /\ out'[i] = out[i]
      BY <1>3 DEF Grows
    <3> QED BY <3>2, <3>3 DEF Written
  <2>3. CASE ~(s < b)
    <3>1. b <= s
      BY <1>1, <2>3
    <3>2. PICK i \in 1 .. Len(packs) : packs[i].what = "sector" /\ packs[i].sector = s
      BY <2>1, <3>1 DEF Complete
    <3>3. Len(out) + i \in 1 .. Len(out') /\ out'[Len(out) + i] = packs[i]
      BY <1>3 DEF Grows
    <3> QED BY <3>2, <3>3 DEF Written
  <2> QED BY <2>2, <2>3
<1> QED BY <1>3, <1>4, <1>5, <1>6, <1>7 DEF WrittenInv

LEMMA NothingMore == Whole => <<>> \in Seq({}) /\ Len(<<>>) = 0 /\ out = out \o <<>>
BY DEF Whole

LEMMA Position ==
    ASSUME Placed, pc \in {"nav", "scan", "vobu"}
    PROVE  \E b \in Nat : \A s \in Nat : Passed(s) <=> s < b
<1>1. CASE pc \in {"nav", "scan"}
  BY <1>1 DEF Placed, Passed
<1>2. CASE pc = "vobu"
  <2>1. sector + offs \in Nat /\ \A s \in Nat : Passed(s) <=> s < sector + offs
    BY <1>2 DEF Placed, Passed
  <2> QED BY <2>1
<1> QED BY <1>1, <1>2

(* Each step keeps the invariant.  First those that end all by an error. *)

LEMMA Breaks ==
    ASSUME Placed, OInv, job' = job, trust' = "ok" => trust = "ok",
           pc \in {"nav", "scan", "vobu"}, pc' \in {"fatal", "cutoff"},
           out' = out \/ out' = Append(out, Invalid),
           (trust' = "ok" /\ Alone) => scr' \in Nat /\ scr <= scr'
    PROVE  OInv'
<1>1. WrittenInv /\ Whole /\ Times
  BY DEF OInv, WrittenInv
<1>2. PICK b \in Nat : \A s \in Nat : Passed(s) <=> s < b
  BY Position
<1>3. \A s : Passed(s)'
  BY DEF Passed
<1>4. (trust' = "ok" /\ Alone) => scr \in Nat
  BY <1>1 DEF Times
<1>5. Moves(b, b)
  BY <1>2, <1>3 DEF Moves
<1>6. WrittenInv'
  <2>1. CASE out' = out
    <3>1. <<>> \in Seq({}) /\ Len(<<>>) = 0 /\ out' = out \o <<>>
      BY <1>1, <2>1, NothingMore
    <3>2. trust' = "ok" => InTurn(<<>>, b, b)
      BY <3>1 DEF InTurn
    <3>3. (trust' = "ok" /\ Alone) => InTime(<<>>, scr, scr') /\ Complete(<<>>, b, b)
      BY <1>4, <3>1, LastNat DEF InTime, Complete, Placed
    <3>4. OnlyLost(<<>>)
      BY <3>1 DEF OnlyLost
    <3> QED BY <1>1, <1>5, <3>1, <3>2, <3>3, <3>4, Extends
  <2>2. CASE out' = Append(out, Invalid)
    <3> DEFINE packs == <<Invalid>>
    <3>1. packs \in Seq({Invalid}) /\ Len(packs) = 1 /\ packs[1] = Invalid
      OBVIOUS
    <3>2. Invalid.what = "invalid"
      BY DEF Invalid, Pack
    <3>3. out' = out \o packs
      BY <1>1, <2>2 DEF Whole
    <3> HIDE DEF packs
    <3>4. \A i \in 1 .. Len(packs) : packs[i].what = "invalid"
      BY <3>1, <3>2
    <3>5. trust' = "ok" => InTurn(packs, b, b)
      BY <3>4 DEF InTurn, Stands
    <3>6. (trust' = "ok" /\ Alone) => InTime(packs, scr, scr') /\ Complete(packs, b, b)
      BY <1>4, <3>4, LastNat DEF InTime, Complete, Dated, Placed
    <3>7. OnlyLost(packs)
      BY <3>4 DEF OnlyLost
    <3> QED BY <1>1, <1>5, <3>1, <3>3, <3>5, <3>6, <3>7, Extends
  <2> QED BY <2>1, <2>2
<1> QED BY <1>6 DEF OInv, Lost, Clock, Bare

LEMMA NotNavOrders == AInv /\ OInv /\ NotNav => OInv'
<1> SUFFICES ASSUME AInv, OInv, NotNav PROVE OInv'
  OBVIOUS
<1>1. (trust' = "ok" /\ Alone) => scr' \in Nat /\ scr <= scr'
  BY DEF NotNav, OInv, WrittenInv, Times
<1> QED BY <1>1, Breaks DEF NotNav, AInv

LEMMA ScanEndOrders == AInv /\ OInv /\ ScanEnd => OInv'
<1> SUFFICES ASSUME AInv, OInv, ScanEnd PROVE OInv'
  OBVIOUS
<1>1. (trust' = "ok" /\ Alone) => scr' \in Nat /\ scr <= scr'
  BY DEF ScanEnd, OInv, WrittenInv, Times
<1> QED BY <1>1, Breaks DEF ScanEnd, AInv

\* Those that write nothing.
LEMMA RetryOrders == AInv /\ OInv /\ (RetryNav \/ RetryBlocks) => OInv'
<1> SUFFICES ASSUME AInv, OInv, RetryNav \/ RetryBlocks PROVE OInv'
  OBVIOUS
<1>1. /\ job' = job /\ pc' = pc /\ sector' = sector /\ offs' = offs /\ left' = left
      /\ next' = next /\ scr' = scr /\ ea' = ea /\ eafrom' = eafrom /\ trust' = trust
      /\ out' = out
  BY DEF RetryNav, RetryBlocks
<1> QED BY <1>1 DEF OInv, WrittenInv, Whole, Made, SectorsForward, ScrForward, Sectors,
                    Times, Kept, Lost, Clock, Bare, Passed, Written, Fails, Alone, cell,
                    Last, Room, Stands, Dated

LEMMA ScanPackOrders == AInv /\ OInv /\ ScanPack => OInv'
<1> SUFFICES ASSUME AInv, OInv, ScanPack PROVE OInv'
  OBVIOUS
<1>1. /\ job' = job /\ pc = "scan" /\ pc' = pc /\ sector' = sector
      /\ scr' = scr /\ trust' = trust /\ out' = out /\ offs' = offs + 1
      /\ \/ Fails(sector + offs) /\ ea' = ea /\ eafrom' = eafrom
         \/ ea' = offs /\ eafrom' = "scan"
  BY DEF ScanPack
<1>2. sector \in Nat /\ offs \in Nat /\ ea \in Nat
  BY DEF AInv, Placed
<1>3. Lost'
  BY <1>1, <1>2 DEF OInv, Lost, Fails, cell, Last
<1>4. WrittenInv' /\ Clock' /\ Bare'
  BY <1>1 DEF OInv, WrittenInv, Whole, Made, SectorsForward, ScrForward, Sectors,
              Times, Kept, Clock, Bare, Passed, Written, Fails, Alone, cell,
              Last, Stands, Dated
<1> QED BY <1>3, <1>4 DEF OInv

LEMMA NavLostOrders == AInv /\ OInv /\ NavLost => OInv'
<1> SUFFICES ASSUME AInv, OInv, NavLost PROVE OInv'
  OBVIOUS
<1>1. /\ job' = job /\ pc = "nav" /\ sector' = sector /\ Fails(sector)
      /\ scr' = scr /\ trust' = trust
  BY DEF NavLost
<1>2. CASE pc' = "fatal" /\ out' = Append(out, Invalid)
  <2>1. (trust' = "ok" /\ Alone) => scr' \in Nat /\ scr <= scr'
    BY <1>1 DEF OInv, WrittenInv, Times
  <2> QED BY <1>1, <1>2, <2>1, Breaks DEF AInv
<1>3. CASE pc' = "scan" /\ eafrom' = "stack" /\ out' = out
  <2>1. Lost'
    BY <1>1, <1>3 DEF Lost, Fails, cell, Last
  <2>2. WrittenInv' /\ Clock' /\ Bare'
    BY <1>1, <1>3 DEF OInv, WrittenInv, Whole, Made, SectorsForward, ScrForward, Sectors,
              Times, Kept, Clock, Bare, Passed, Written, Fails, Alone, cell,
              Last, Stands, Dated
  <2> QED BY <2>1, <2>2 DEF OInv
<1> QED BY <1>2, <1>3 DEF NavLost

\* And those that write.
LEMMA OnePack ==
    ASSUME NEW p, NEW b \in Nat, NEW e \in Nat, b <= e
    PROVE  /\ <<p>> \in Seq({p}) /\ Len(<<p>>) = 1 /\ <<p>>[1] = p
           /\ (Stands(p) => p.sector \in Nat /\ b <= p.sector /\ p.sector < e)
                 => InTurn(<<p>>, b, e)
<1>1. <<p>> \in Seq({p}) /\ Len(<<p>>) = 1 /\ <<p>>[1] = p
  OBVIOUS
<1> QED BY <1>1 DEF InTurn

LEMMA OnePackInTime ==
    ASSUME NEW p, NEW from \in Nat, NEW to \in Nat, from <= to,
           p.scr \in Nat, from <= p.scr, p.scr <= to
    PROVE  InTime(<<p>>, from, to)
<1>1. Len(<<p>>) = 1 /\ <<p>>[1] = p
  OBVIOUS
<1> QED BY <1>1 DEF InTime

LEMMA ReadNavOrders == AInv /\ OInv /\ ReadNav => OInv'
<1> SUFFICES ASSUME AInv, OInv, ReadNav PROVE OInv'
  OBVIOUS
<1>1. Placed /\ WrittenInv /\ Times /\ Clock /\ Whole
  BY DEF AInv, OInv, WrittenInv
<1>2. /\ job' = job /\ pc = "nav" /\ sector' = sector /\ trust' = trust /\ offs' = 1
      /\ left' = VobuEnd(sector) /\ next' = NextVobu(sector) /\ scr' = Scr[sector]
      /\ cell[sector] \in {"nav", "alien"}
  BY DEF ReadNav
<1>3. /\ Last \in Nat /\ sector \in 1 .. Last /\ sector \in Nat /\ job \in Jobs
      /\ cell' = cell /\ Last' = Last
  BY <1>1, <1>2, LastNat DEF Placed, cell, Last
<1>4. (trust' = "ok" /\ Alone) =>
         /\ scr \in Nat /\ scr' \in Nat /\ scr <= scr'
         /\ sector + 1 <= Last => scr' <= Scr[sector + 1]
  <2> SUFFICES ASSUME trust = "ok", Alone
               PROVE  /\ scr \in Nat /\ scr' \in Nat /\ scr <= scr'
                      /\ sector + 1 <= Last => scr' <= Scr[sector + 1]
    BY <1>2
  <2>1. scr \in Nat /\ scr <= Scr[sector]
    BY <1>1, <1>2 DEF Times, Clock
  <2>2. Scr[sector] \in Nat
    BY <1>3, Rising
  <2>3. ASSUME sector + 1 <= Last PROVE Scr[sector] <= Scr[sector + 1]
    BY <1>3, <2>3, Rising
  <2> QED BY <1>2, <2>1, <2>2, <2>3
<1> DEFINE p == Pack("sector", sector, Scr[sector])
<1>5. p.what = "sector" /\ p.sector = sector /\ p.scr = scr'
  BY <1>2 DEF Pack
<1>6. CASE pc' = "fatal" /\ out' = out
  BY <1>1, <1>2, <1>4, <1>6, Breaks
<1>7. CASE pc' = "vobu" /\ out' = out \o <<p>>
  <2> HIDE DEF p
  <2>1. <<p>> \in Seq({p}) /\ Len(<<p>>) = 1 /\ <<p>>[1] = p
    OBVIOUS
  <2>2. InTurn(<<p>>, sector, sector + 1)
    BY <1>3, <1>5, OnePack
  <2>3. (trust' = "ok" /\ Alone) => InTime(<<p>>, scr, scr')
    BY <1>4, <1>5, OnePackInTime
  <2>4. Complete(<<p>>, sector, sector + 1)
    BY <1>3, <1>5, <2>1 DEF Complete
  <2>5. \A s \in Nat : Passed(s) <=> s < sector
    BY <1>2 DEF Passed
  <2>6. \A s \in Nat : Passed(s)' <=> s < sector + 1
    BY <1>2, <1>7 DEF Passed
  <2>7. OnlyLost(<<p>>)
    BY <1>5, <2>1 DEF OnlyLost
  <2>8. sector + 1 \in Nat /\ Moves(sector, sector + 1)
    BY <1>3, <2>5, <2>6 DEF Moves
  <2>9. WrittenInv'
    BY <1>1, <1>2, <1>3, <1>7, <2>1, <2>2, <2>3, <2>4, <2>7, <2>8, Extends
  <2>10. Clock'
    BY <1>2, <1>3, <1>4, <1>7 DEF Clock, Alone
  <2>11. Bare'
    <3> SUFFICES ASSUME Alone,
                        NEW t \in sector + 1 + VobuEnd(sector) .. sector + Room' - 1
                 PROVE  cell[t] \notin Own
      BY <1>2, <1>3 DEF Bare, Alone
    <3>1. cell[sector] = "nav"
      BY <1>2, <1>3 DEF Alone
    <3>2. VobuEnd(sector) \in Nat /\ NextVobu(sector) \in Nat /\ sector + NextVobu(sector) <= Last
      BY <1>2, <1>3, VobuLength, NextBehind
    <3>3. /\ t \in sector + 1 + VobuEnd(sector) .. Last
          /\ NextVobu(sector) # 0 => t < sector + NextVobu(sector)
      BY <1>2, <1>3, <3>2 DEF Room
    <3> QED BY <1>3, <3>1, <3>3, NothingBetween
  <2> QED BY <1>7, <2>9, <2>10, <2>11 DEF OInv, Lost
<1> QED BY <1>6, <1>7 DEF ReadNav, Emit

LEMMA ScanFoundOrders == AInv /\ OInv /\ ScanFound => OInv'
<1> SUFFICES ASSUME AInv, OInv, ScanFound PROVE OInv'
  OBVIOUS
<1>1. Placed /\ Scanned /\ WrittenInv /\ Times /\ Clock /\ Whole /\ Lost
  BY DEF AInv, OInv, WrittenInv
<1>2. /\ job' = job /\ pc = "scan" /\ sector' = sector /\ offs' = 1
      /\ left' = ea /\ next' = offs /\ scr' = scr + 1 /\ sector + offs <= Last
      /\ trust' = "ok" => trust = "ok" /\ eafrom # "stack"
  BY DEF ScanFound
<1>3. /\ Last \in Nat /\ sector \in 1 .. Last /\ sector \in Nat /\ job \in Jobs
      /\ offs \in Nat /\ 1 <= offs /\ ea \in Nat /\ cell' = cell /\ Last' = Last
  BY <1>1, <1>2, LastNat DEF Placed, Scanned, cell, Last
<1>4. (trust' = "ok" /\ Alone) =>
         /\ scr \in Nat /\ scr' \in Nat /\ scr <= scr'
         /\ scr' <= Scr[sector + 1]
  <2> SUFFICES ASSUME trust = "ok", Alone
               PROVE  /\ scr \in Nat /\ scr' \in Nat /\ scr <= scr'
                      /\ scr' <= Scr[sector + 1]
    BY <1>2
  <2>1. scr \in Nat /\ scr <= Scr[sector]
    BY <1>1, <1>2 DEF Times, Clock
  <2>2. sector + 1 \in 1 .. Last /\ sector < sector + 1 /\ sector <= sector + 1
    BY <1>2, <1>3
  <2>3. Scr[sector] \in Nat /\ Scr[sector + 1] \in Nat /\ Scr[sector] + 1 <= Scr[sector + 1]
    BY <1>3, <2>2, Rising
  <2> QED BY <1>2, <2>1, <2>3
<1> DEFINE p == Pack("nav", sector, scr + 1)
<1>5. p.what = "nav" /\ p.sector = sector /\ p.scr = scr' /\ Fails(p.sector)
  BY <1>1, <1>2 DEF Pack, Lost
<1>6. CASE pc' = "fatal" /\ out' = out
  BY <1>1, <1>2, <1>4, <1>6, Breaks
<1>7. CASE pc' = "vobu" /\ out' = out \o <<p>>
  <2> HIDE DEF p
  <2>1. <<p>> \in Seq({p}) /\ Len(<<p>>) = 1 /\ <<p>>[1] = p
    OBVIOUS
  <2>2. InTurn(<<p>>, sector, sector + 1)
    BY <1>3, <1>5, OnePack
  <2>3. (trust' = "ok" /\ Alone) => InTime(<<p>>, scr, scr')
    BY <1>4, <1>5, OnePackInTime
  <2>4. Complete(<<p>>, sector, sector + 1)
    BY <1>3, <1>5 DEF Complete
  <2>5. \A s \in Nat : Passed(s) <=> s < sector
    BY <1>2 DEF Passed
  <2>6. \A s \in Nat : Passed(s)' <=> s < sector + 1
    BY <1>2, <1>7 DEF Passed
  <2>7. OnlyLost(<<p>>)
    BY <1>5, <2>1 DEF OnlyLost
  <2>8. sector + 1 \in Nat /\ Moves(sector, sector + 1)
    BY <1>3, <2>5, <2>6 DEF Moves
  <2>9. WrittenInv'
    BY <1>1, <1>2, <1>3, <1>7, <2>1, <2>2, <2>3, <2>4, <2>7, <2>8, Extends
  <2>10. Clock'
    BY <1>2, <1>3, <1>4, <1>7 DEF Clock, Alone
  <2>11. Bare'
    <3> SUFFICES ASSUME trust' = "ok",
                        NEW t \in sector + 1 + ea .. sector + Room' - 1
                 PROVE  Fails(t)
      BY <1>2, <1>3 DEF Bare, Fails
    <3>1. Room' = offs
      BY <1>2, <1>3 DEF Room
    <3>2. t \in sector + ea + 1 .. sector + offs - 1
      BY <1>3, <3>1
    <3> QED BY <1>1, <1>2, <3>2 DEF Lost
  <2> QED BY <1>7, <2>9, <2>10, <2>11 DEF OInv, Lost
<1> QED BY <1>6, <1>7 DEF ScanFound, Emit

LEMMA CopyBlocksOrders == AInv /\ OInv /\ CopyBlocks => OInv'
<1> SUFFICES ASSUME AInv, OInv, CopyBlocks PROVE OInv'
  OBVIOUS
<1>1. Placed /\ Fits /\ WrittenInv /\ Times /\ Clock /\ Whole /\ Bare
  BY DEF AInv, OInv, WrittenInv
<1> DEFINE n == CHOOSE m \in Wanted : \A k \in Wanted : k <= m
           b == sector + offs
           P(i) == Pack("sector", sector + offs - 1 + i, Scr[sector + offs - 1 + i])
           packs == [i \in Wanted |-> P(i)]
<1>2. /\ job' = job /\ pc = "vobu" /\ sector' = sector /\ offs' = offs + n
      /\ left' = left - n /\ next' = next /\ scr' = Scr[sector + offs - 1 + n]
      /\ trust' = trust
  BY DEF CopyBlocks
<1>3. n \in 1 .. left /\ Wanted = 1 .. n
  BY <1>1, WantedCount DEF Placed, CopyBlocks
<1>4. /\ Last \in Nat /\ sector \in 1 .. Last /\ sector \in Nat /\ job \in Jobs
      /\ offs \in Nat /\ left \in Nat /\ next \in Nat /\ cell' = cell /\ Last' = Last
  BY <1>1, <1>2, LastNat DEF Placed, cell, Last
<1>5. \/ pc' = "vobu" /\ out' = out \o packs
      \/ pc' = "fatal" /\ out' = out
  BY DEF CopyBlocks, Emit
<1>6. trust = "ok" => 1 <= offs /\ sector + offs + left <= Last + 1
  BY <1>1, <1>2, <1>4 DEF Fits, Room, Placed
<1>7. /\ packs \in Seq({P(i) : i \in 1 .. n}) /\ Len(packs) = n
      /\ \A i \in 1 .. n : packs[i] = P(i)
  <2>1. packs = [i \in 1 .. n |-> P(i)]
    BY <1>3
  <2> HIDE DEF n, P, packs
  <2>2. n \in Nat
    BY <1>3
  <2> QED BY <2>1, <2>2
<1>8. \A i \in 1 .. n : /\ packs[i].what = "sector" /\ packs[i].sector = b - 1 + i
                        /\ packs[i].scr = Scr[b - 1 + i]
  <2> HIDE DEF n, packs, P
  <2>1. \A i \in 1 .. n : i \in Int /\ sector + offs - 1 + i = b - 1 + i
    BY <1>3, <1>4
  <2> HIDE DEF b
  <2> USE DEF P
  <2> QED BY <1>7, <2>1 DEF Pack
<1>9. n \in Nat /\ 1 <= n /\ b \in Nat /\ b + n \in Nat
      /\ b + n = sector + offs + n
  <2> HIDE DEF n
  <2> QED BY <1>3, <1>4
<1> HIDE DEF n, P, packs
<1>10. \A i \in 1 .. n : trust = "ok" => b - 1 + i \in 1 .. Last
  BY <1>3, <1>4, <1>6
<1> HIDE DEF b
<1>11. ASSUME trust = "ok", Alone
       PROVE  /\ scr \in Nat /\ scr' \in Nat /\ scr <= scr'
              /\ \A i \in 1 .. n : /\ Scr[b - 1 + i] \in Nat /\ scr <= Scr[b - 1 + i]
                                   /\ Scr[b - 1 + i] <= scr'
              /\ \A i, j \in 1 .. n : i < j => Scr[b - 1 + i] <= Scr[b - 1 + j]
              /\ b + n <= Last => scr' <= Scr[b + n]
  <2>1. scr \in Nat /\ scr <= Scr[b]
    BY <1>1, <1>2, <1>3, <1>4, <1>6, <1>11 DEF Times, Clock, b
  <2>2. scr' = Scr[b - 1 + n]
    BY <1>2, <1>4, <1>9 DEF b
  <2>3. \A i, j \in 1 .. n : i <= j =>
           Scr[b - 1 + i] \in Nat /\ Scr[b - 1 + j] \in Nat /\ Scr[b - 1 + i] <= Scr[b - 1 + j]
    <3> SUFFICES ASSUME NEW i \in 1 .. n, NEW j \in 1 .. n, i <= j
                 PROVE  Scr[b - 1 + i] \in Nat /\ Scr[b - 1 + j] \in Nat
                        /\ Scr[b - 1 + i] <= Scr[b - 1 + j]
      OBVIOUS
    <3>1. b - 1 + i \in 1 .. Last /\ b - 1 + j \in 1 .. Last /\ b - 1 + i <= b - 1 + j
      BY <1>9, <1>10, <1>11
    <3> QED BY <1>4, <1>11, <3>1, Rising
  <2>4. 1 \in 1 .. n /\ n \in 1 .. n /\ b - 1 + 1 = b
    BY <1>9
  <2>5. ASSUME b + n <= Last PROVE Scr[b - 1 + n] <= Scr[b + n]
    <3>1. b - 1 + n \in 1 .. Last /\ b + n \in 1 .. Last /\ b - 1 + n <= b + n
      BY <1>4, <1>9, <1>10, <1>11, <2>4, <2>5
    <3> QED BY <1>4, <1>11, <3>1, Rising
  <2>6. Scr[b] \in Nat /\ Scr[b - 1 + n] \in Nat /\ Scr[b] <= Scr[b - 1 + n]
    BY <1>9, <2>3, <2>4
  <2>7. \A i \in 1 .. n : /\ Scr[b - 1 + i] \in Nat /\ Scr[b] <= Scr[b - 1 + i]
                          /\ Scr[b - 1 + i] <= Scr[b - 1 + n]
    BY <1>9, <2>3, <2>4
  <2>8. scr' \in Nat /\ scr <= scr' /\ (b + n <= Last => scr' <= Scr[b + n])
    BY <2>1, <2>2, <2>5, <2>6
  <2>9. \A i \in 1 .. n : /\ Scr[b - 1 + i] \in Nat /\ scr <= Scr[b - 1 + i]
                          /\ Scr[b - 1 + i] <= scr'
    BY <2>1, <2>2, <2>6, <2>7
  <2>10. \A i, j \in 1 .. n : i < j => Scr[b - 1 + i] <= Scr[b - 1 + j]
    <3>1. \A i, j \in 1 .. n : i < j => i <= j
      OBVIOUS
    <3> QED BY <2>3, <3>1
  <2> QED BY <2>1, <2>8, <2>9, <2>10
<1>12. CASE pc' = "fatal" /\ out' = out
  BY <1>1, <1>2, <1>11, <1>12, Breaks
<1>13. CASE pc' = "vobu" /\ out' = out \o packs
  <2>1. InTurn(packs, b, b + n)
    <3>1. \A i \in 1 .. n : packs[i].sector \in Nat /\ b <= packs[i].sector
                            /\ packs[i].sector < b + n
      BY <1>8, <1>9
    <3>2. \A i, j \in 1 .. n : i < j => packs[i].sector < packs[j].sector
      BY <1>8, <1>9
    <3>3. b <= b + n
      BY <1>9
    <3> QED BY <1>7, <3>1, <3>2, <3>3 DEF InTurn
  <2>2. (trust' = "ok" /\ Alone) => InTime(packs, scr, scr')
    BY <1>2, <1>7, <1>8, <1>11 DEF InTime
  <2>3. Complete(packs, b, b + n)
    <3> SUFFICES ASSUME NEW s \in 1 .. Last, b <= s, s < b + n
                 PROVE  \E i \in 1 .. Len(packs) : packs[i].what = "sector" /\ packs[i].sector = s
      BY DEF Complete
    <3>1. s - b + 1 \in 1 .. n /\ b - 1 + (s - b + 1) = s
      BY <1>4, <1>9
    <3> QED BY <1>7, <1>8, <3>1
  <2>4. \A s \in Nat : Passed(s) <=> s < b
    BY <1>2 DEF Passed, b
  <2>5. \A s \in Nat : Passed(s)' <=> s < b + n
    BY <1>2, <1>4, <1>9, <1>13 DEF Passed, b
  <2>6. OnlyLost(packs)
    BY <1>7, <1>8 DEF OnlyLost
  <2>7. Moves(b, b + n)
    BY <1>4, <2>4, <2>5 DEF Moves
  <2>8. WrittenInv'
    BY <1>1, <1>2, <1>7, <1>9, <1>13, <2>1, <2>2, <2>3, <2>6, <2>7, Extends
  <2>9. Clock'
    <3>1. sector' + offs' = b + n /\ Last' = Last /\ Alone' = Alone
      BY <1>2, <1>4, <1>9 DEF Alone, b
    <3> QED BY <1>2, <1>11, <1>13, <3>1 DEF Clock
  <2>10. Bare'
    <3>1. sector' + offs' + left' = sector + offs + left /\ Room' = Room /\ Alone' = Alone
      BY <1>2, <1>3, <1>4, <1>9 DEF Room, Alone
    <3>2. \A s : Fails(s)' = Fails(s)
      BY <1>2, <1>4 DEF Fails
    <3> QED BY <1>1, <1>2, <1>4, <3>1, <3>2 DEF Bare
  <2> QED BY <1>13, <2>8, <2>9, <2>10 DEF OInv, Lost
<1> QED BY <1>5, <1>12, <1>13

LEMMA BlockLostOrders == AInv /\ OInv /\ BlockLost => OInv'
<1> SUFFICES ASSUME AInv, OInv, BlockLost PROVE OInv'
  OBVIOUS
<1>1. Placed /\ Fits /\ WrittenInv /\ Times /\ Clock /\ Whole /\ Bare
  BY DEF AInv, OInv, WrittenInv
<1>2. /\ job' = job /\ pc = "vobu" /\ sector' = sector /\ next' = next /\ trust' = trust
  BY DEF BlockLost
<1>3. /\ Last \in Nat /\ sector \in 1 .. Last /\ sector \in Nat /\ job \in Jobs
      /\ offs \in Nat /\ left \in Nat /\ left > 0 /\ next \in Nat /\ cell' = cell /\ Last' = Last
  BY <1>1, <1>2, LastNat DEF Placed, cell, Last, BlockLost
<1>4. Fails(sector + offs)
  <2>1. MaxRetries \in Nat /\ tries = MaxRetries + 1
    BY PlayCellAssumption DEF BlockLost
  <2>2. Wanted = 1 .. 1
    BY <2>1 DEF Wanted
  <2>3. Chunk = {sector + offs}
    BY <1>3, <2>2 DEF Chunk
  <2> QED BY <2>3 DEF BlockLost
<1>5. trust = "ok" => 1 <= offs /\ sector + offs + left <= Last + 1
  BY <1>1, <1>2, <1>3 DEF Fits, Room, Placed
<1>6. (trust = "ok" /\ Alone) => scr \in Nat /\ scr <= Scr[sector + offs]
  BY <1>1, <1>2, <1>3, <1>5 DEF Times, Clock
<1> DEFINE p == Pack("dummy", sector + offs, scr + 1)
           b == sector + offs
<1>7. p.what = "dummy" /\ p.sector = b /\ p.scr = scr + 1
  BY DEF Pack
<1>8. CASE pc' = "fatal" /\ out' = Append(out, Invalid) /\ scr' = scr
  BY <1>1, <1>2, <1>6, <1>8, Breaks
<1>9. CASE pc' = "fatal" /\ out' = out /\ scr' = scr + 1
  BY <1>1, <1>2, <1>6, <1>9, Breaks
<1>10. CASE pc' = "vobu" /\ out' = out \o <<p>> /\ scr' = scr + 1
            /\ offs' = offs + 1 /\ left' = left - 1
  <2>1. b \in Nat /\ b + 1 \in Nat /\ b <= b + 1
    BY <1>3
  <2>2. \A s \in Nat : Passed(s) <=> s < b
    BY <1>2 DEF Passed
  <2>3. \A s \in Nat : Passed(s)' <=> s < b + 1
    BY <1>2, <1>3, <1>10 DEF Passed
  <2>4. Clock'
    <3> SUFFICES ASSUME trust = "ok", Alone, b + 1 <= Last
                 PROVE  scr + 1 <= Scr[b + 1]
      <4>1. sector' + offs' = b + 1 /\ Last' = Last /\ Alone' = Alone
        BY <1>2, <1>3, <1>10 DEF Alone
      <4> QED BY <1>2, <1>10, <4>1 DEF Clock
    <3>1. b \in 1 .. Last /\ b + 1 \in 1 .. Last /\ b <= b + 1 /\ b < b + 1
      BY <1>3, <1>5
    <3>2. Scr[b] \in Nat /\ Scr[b + 1] \in Nat /\ Scr[b] + 1 <= Scr[b + 1]
      BY <1>3, <3>1, Rising
    <3> QED BY <1>6, <3>2
  <2>5. Bare'
    <3>1. sector' + offs' + left' = sector + offs + left /\ Room' = Room /\ Alone' = Alone
      BY <1>2, <1>3, <1>10 DEF Room, Alone
    <3>2. \A s : Fails(s)' = Fails(s)
      BY <1>2, <1>3 DEF Fails
    <3> QED BY <1>1, <1>2, <1>3, <3>1, <3>2 DEF Bare
  <2> HIDE DEF p, b
  <2>6. <<p>> \in Seq({p}) /\ Len(<<p>>) = 1 /\ <<p>>[1] = p
    OBVIOUS
  <2>7. InTurn(<<p>>, b, b + 1)
    BY <1>7, <2>1, OnePack
  <2>8. ASSUME trust' = "ok", Alone PROVE InTime(<<p>>, scr, scr')
    <3>1. scr \in Nat /\ scr' \in Nat /\ scr <= scr' /\ p.scr = scr'
      BY <1>2, <1>6, <1>7, <1>10, <2>8
    <3>2. p.scr \in Nat /\ scr <= p.scr /\ p.scr <= scr'
      BY <3>1
    <3> QED BY <3>1, <3>2, OnePackInTime
  <2>9. Fails(b)
    BY <1>4 DEF b
  <2>10. Complete(<<p>>, b, b + 1)
    BY <1>3, <2>1, <2>9 DEF Complete
  <2>11. OnlyLost(<<p>>)
    BY <1>7, <2>6, <2>9 DEF OnlyLost
  <2>12. Moves(b, b + 1)
    BY <1>3, <2>1, <2>2, <2>3 DEF Moves
  <2>13. WrittenInv'
    BY <1>1, <1>2, <1>10, <2>1, <2>6, <2>7, <2>8, <2>10, <2>11, <2>12, Extends
  <2> QED BY <1>10, <2>4, <2>5, <2>13 DEF OInv, Lost
<1> QED BY <1>8, <1>9, <1>10 DEF BlockLost, Emit

LEMMA EndVobuOrders == AInv /\ OInv /\ EndVobu => OInv'
<1> SUFFICES ASSUME AInv, OInv, EndVobu PROVE OInv'
  OBVIOUS
<1>1. Placed /\ Fits /\ WrittenInv /\ Times /\ Clock /\ Whole /\ Bare
  BY DEF AInv, OInv, WrittenInv
<1>2. /\ job' = job /\ pc = "vobu" /\ left = 0 /\ sector' = sector + next
      /\ trust' = trust /\ scr' = scr
  BY DEF EndVobu
<1>3. /\ Last \in Nat /\ sector \in 1 .. Last /\ sector \in Nat /\ job \in Jobs
      /\ offs \in Nat /\ next \in Nat /\ (next # 0 => sector + next <= Last)
      /\ cell' = cell /\ Last' = Last
  BY <1>1, <1>2, LastNat DEF Placed, cell, Last
<1> DEFINE b == sector + offs
           e == sector + Room
           p == Pack("gap", 0, scr)
<1>4. b \in Nat /\ Room \in Nat /\ e \in Nat /\ (trust = "ok" => b <= e)
  BY <1>1, <1>2, <1>3 DEF Fits, Room
<1>5. (trust = "ok" /\ Alone) => scr \in Nat
  BY <1>1 DEF Times
<1>6. p.what = "gap" /\ p.scr = scr
  BY DEF Pack
<1>7. \A s \in Nat : Passed(s) <=> s < b
  BY <1>2 DEF Passed
<1>8. ASSUME trust = "ok", Alone, NEW s \in 1 .. Last, b <= s, s < e, cell[s] \in Own
      PROVE  Fails(s)
  <2>1. s \in sector + offs + left .. sector + Room - 1
    BY <1>2, <1>3, <1>4, <1>8
  <2> QED BY <1>1, <1>2, <1>8, <2>1 DEF Bare
<1>9. \/ pc' = "fatal" /\ out' = out
      \/ /\ pc' = (IF next = 0 THEN "done" ELSE "nav")
         /\ out' = out \o <<p>> \/ out' = out
  BY DEF EndVobu, Emit
<1>10. CASE pc' = "fatal" /\ out' = out
  BY <1>1, <1>2, <1>5, <1>10, Breaks
<1>11. CASE /\ pc' = (IF next = 0 THEN "done" ELSE "nav")
            /\ out' = out \o <<p>> \/ out' = out
  <2>1. pc' \in {"done", "nav"}
    BY <1>11
  <2>2. \A s \in Nat : s < e => Passed(s)'
    BY <1>2, <1>3, <1>11 DEF Passed, Room
  <2>3. Moves(b, e)
    <3>1. \A s \in 1 .. Last : Passed(s)' => s < e
      BY <1>2, <1>3, <1>11 DEF Passed, Room
    <3> QED BY <1>7, <2>2, <3>1 DEF Moves
  <2>4. Clock'
    <3> SUFFICES ASSUME trust = "ok", Alone, next # 0
                 PROVE  scr <= Scr[sector + next]
      BY <1>2, <1>3, <1>11 DEF Clock, Alone
    <3>1. offs <= next /\ 1 <= offs
      BY <1>1, <1>2, <1>3 DEF Fits, Room
    <3>2. b \in 1 .. Last /\ sector + next \in 1 .. Last /\ b <= sector + next
      BY <1>3, <3>1
    <3>3. Scr[b] \in Nat /\ Scr[sector + next] \in Nat /\ Scr[b] <= Scr[sector + next]
      BY <1>3, <3>2, Rising
    <3>4. scr <= Scr[b]
      BY <1>1, <1>2, <1>3, <3>2 DEF Clock
    <3> QED BY <1>5, <3>3, <3>4
  <2> HIDE DEF b, e, p
  <2>5. ASSUME NEW T, NEW packs \in Seq(T), out' = out \o packs,
               \A i \in 1 .. Len(packs) : packs[i] = p, Len(packs) \in {0, 1}
        PROVE  WrittenInv'
    <3>1. trust = "ok" => InTurn(packs, b, e)
      BY <1>4, <1>6, <2>5 DEF InTurn, Stands
    <3>2. (trust = "ok" /\ Alone) => InTime(packs, scr, scr') /\ Complete(packs, b, e)
      BY <1>2, <1>5, <1>6, <1>8, <2>5 DEF InTime, Complete
    <3>3. OnlyLost(packs)
      BY <1>6, <2>5 DEF OnlyLost
    <3> QED BY <1>1, <1>2, <1>4, <2>3, <2>5, <3>1, <3>2, <3>3, Extends
  <2>6. ASSUME out' = out \o <<p>> PROVE WrittenInv'
    <3>1. <<p>> \in Seq({p}) /\ Len(<<p>>) \in {0, 1}
          /\ \A i \in 1 .. Len(<<p>>) : <<p>>[i] = p
      OBVIOUS
    <3> QED BY <2>5, <2>6, <3>1
  <2>7. ASSUME out' = out PROVE WrittenInv'
    <3>1. /\ <<>> \in Seq({}) /\ Len(<<>>) \in {0, 1} /\ out' = out \o <<>>
          /\ \A i \in 1 .. Len(<<>>) : <<>>[i] = p
      BY <1>1, <2>7, NothingMore
    <3> QED BY <2>5, <3>1
  <2>8. WrittenInv'
    BY <1>11, <2>6, <2>7
  <2> QED BY <2>1, <2>4, <2>8 DEF OInv, Lost, Bare
<1> QED BY <1>9, <1>10, <1>11

LEMMA OInvInit == Init => OInv
<1> SUFFICES ASSUME Init PROVE OInv
  OBVIOUS
<1>1. /\ pc = "nav" /\ sector = 1 /\ scr = 0 /\ out = <<>> /\ job \in Jobs
  BY DEF Init
<1>2. out \in Seq({}) /\ Len(out) = 0
  BY <1>1
<1>3. Last \in Nat /\ 1 <= Last
  BY <1>1, LastNat
<1>4. Alone => scr <= Scr[sector]
  BY <1>1, <1>3, Rising
<1>5. Whole /\ Made /\ SectorsForward /\ ScrForward /\ Sectors /\ Times
  BY <1>1, <1>2 DEF Whole, Made, SectorsForward, ScrForward, Sectors, Times
<1>6. Kept
  BY <1>1, <1>3 DEF Kept, Passed
<1>7. Lost /\ Clock /\ Bare
  BY <1>1, <1>4 DEF Lost, Clock, Bare
<1> QED BY <1>5, <1>6, <1>7 DEF OInv, WrittenInv

LEMMA OInvNext == AInv /\ OInv /\ [Next]_vars => OInv'
<1> SUFFICES ASSUME AInv, OInv, [Next]_vars PROVE OInv'
  OBVIOUS
<1>1. CASE ReadNav
  BY <1>1, ReadNavOrders
<1>2. CASE NotNav
  BY <1>2, NotNavOrders
<1>3. CASE RetryNav \/ RetryBlocks
  BY <1>3, RetryOrders
<1>4. CASE NavLost
  BY <1>4, NavLostOrders
<1>5. CASE ScanPack
  BY <1>5, ScanPackOrders
<1>6. CASE ScanFound
  BY <1>6, ScanFoundOrders
<1>7. CASE ScanEnd
  BY <1>7, ScanEndOrders
<1>8. CASE CopyBlocks
  BY <1>8, CopyBlocksOrders
<1>9. CASE BlockLost
  BY <1>9, BlockLostOrders
<1>10. CASE EndVobu
  BY <1>10, EndVobuOrders
<1>11. CASE UNCHANGED vars
  BY <1>11 DEF vars, OInv, WrittenInv, Whole, Made, SectorsForward, ScrForward, Sectors,
               Times, Kept, Lost, Clock, Bare, Passed, Written, Fails, Alone, cell,
               Last, Room, Stands, Dated
<1>12. CASE Terminated
  BY <1>11, <1>12 DEF Terminated
<1> QED BY <1>1, <1>2, <1>3, <1>4, <1>5, <1>6, <1>7, <1>8, <1>9, <1>10, <1>11, <1>12 DEF Next, Step

LEMMA Orders == Spec => [](AInv /\ OInv)
<1>1. Init => AInv /\ OInv
  BY AInvInit, OInvInit
<1>2. AInv /\ OInv /\ [Next]_vars => (AInv /\ OInv)'
  BY AInvNext, OInvNext
<1> QED BY <1>1, <1>2, PTL DEF Spec

\* InOrder: whatever is skipped or made up, the packs come out in the order of the
\* sectors that they are or stand for, and their clock never goes back, as long as
\* no vobu_ea was used that nothing had set.
THEOREM PacksInOrder == Spec => []InOrder
<1>1. OInv => InOrder
  BY DEF OInv, WrittenInv, InOrder
<1> QED BY <1>1, Orders, PTL

\* Salvaged: only what cannot be read is replaced, and what can be read of a cell
\* gone through to its end has been written, wherever others are bad.
THEOREM OnlyBadIsLost == Spec => []Salvaged
<1>1. AInv /\ OInv => Salvaged
  <2> SUFFICES ASSUME AInv, OInv PROVE Salvaged
    OBVIOUS
  <2>1. Made /\ Kept
    BY DEF OInv, WrittenInv
  <2>2. ASSUME pc = "done", trust = "ok", Alone, NEW s \in 1 .. Last,
               cell[s] \in Own, ~Fails(s)
        PROVE  Written(s)
    BY <2>1, <2>2 DEF Kept, Passed
  <2> QED BY <2>1, <2>2 DEF Salvaged, Made, Written
<1> QED BY <1>1, Orders, PTL
===============================================================================
