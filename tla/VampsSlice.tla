------------------------------ MODULE VampsSlice ------------------------------
(***************************************************************************)
(* vamps, the requantizer (requant.c) between two start codes: which       *)
(* headers it believes, and how a slice is recoded macroblock after        *)
(* macroblock, to be kept or to be replaced by the original.               *)
(*                                                                         *)
(* A block is the sequence of [run, level] that its codes stand for.  Bits *)
(* are copied or translated by tables; what the model keeps of a           *)
(* macroblock is what the recoder changes: its address, its modes, its     *)
(* quantizer scale and its coefficients.                                   *)
(*                                                                         *)
(* `orig' and `seen' are what a decoder (ISO/IEC 13818-2) has after what   *)
(* was read and what was written of the slice.                             *)
(***************************************************************************)
EXTENDS Integers, SequencesExt, Functions

CONSTANTS Width,       \* macroblocks in a row (horizontal_size_value / 16)
          Rows,        \* vertical_size_value / 16
          Scales,      \* the quantizer scales by code, for each q_scale_type
          Blocks,      \* blocks of a macroblock (6)
          Coefs,       \* coefficients of a block (64)
          Coded,       \* the coded blocks that occur
          Exts,        \* the picture coding extensions that occur
          Factors,     \* shrink factors that vamps asks for, all above 1
          MaxAltTable  \* max_alt_table (0)

I == 1
P == 2
B == 3

ASSUME SliceAssumption ==
    /\ Width \in Nat \ {0} /\ Rows \in Nat \ {0}
    /\ Scales \in [{0, 1} -> Seq(Nat \ {0})]
    /\ \A t \in {0, 1} : \A i, j \in DOMAIN Scales[t] : i < j => Scales[t][i] < Scales[t][j]
    /\ \A e \in Exts : e.q_scale_type \in {0, 1}
    /\ Blocks \in Nat /\ Coefs \in Nat
    /\ Coded \subseteq Seq([run : Nat, level : Int])
    /\ \A f \in Factors : f > 1

VARIABLES
    fact_x, tables,        \* the factor, and how the tables were filled with it
    validSeqHeader, validPicHeader, validExtHeader,
    picture_coding_type, ext,       \* what was read of the headers
    picture,               \* the picture of the stream: its type and extension
    at,                    \* where the recoder is
    quantizer_scale, last_coded_scale,
    h_offset, v_offset,    \* column and row of the macroblock
    mb_add, mb_skip, mb_out, sliceError,
    orig, seen,
    whole,                 \* the slice begins at the left and stays in its row
    mb,                    \* the macroblock that was recoded last
    kept                   \* the recoded slice has replaced the original

headers  == <<validSeqHeader, validPicHeader, validExtHeader, picture_coding_type, ext, picture>>
scanning == <<fact_x, tables, headers>>
slice    == <<quantizer_scale, last_coded_scale, h_offset, v_offset,
              mb_add, mb_skip, mb_out, sliceError, orig, seen, whole>>
sliceVars == <<scanning, at, slice, mb, kept>>

NoExt     == [q_scale_type |-> -1]
NoPicture == [type |-> 0, ext |-> NoExt]
NoBlocks  == [b \in 1 .. Blocks |-> <<>>]
NoMb      == [modes |-> {}]

-----------------------------------------------------------------------------
\* The decoder: where it is, its scale, how many vectors it has added up since their
\* predictors were reset, how many DC values, and where the slice began.
Zero == [fwd |-> 0, bwd |-> 0]
Fresh(scale) == [column |-> 0, scale |-> scale, mv |-> Zero, dc |-> 0, first |-> 0]

\* Macroblocks that are skipped reset the prediction of DC values, in P pictures also
\* that of vectors, and so do macroblocks without them.
Decoded(d, inc, modes, scale) ==
    LET skips  == d.first # 0 /\ inc > 1
        before == IF skips /\ picture.type = P THEN Zero ELSE d.mv
        moved  == [v \in {"fwd", "bwd"} |-> IF v \in modes THEN before[v] + 1 ELSE before[v]]
        forced == [before EXCEPT !.fwd = @ + 1]
    IN  [column |-> d.column + inc,
         scale  |-> IF "quant" \in modes THEN scale ELSE d.scale,
         mv     |-> IF "intra" \in modes
                    THEN IF ext.concealment_motion_vectors THEN forced ELSE Zero
                    ELSE IF picture.type = P /\ "fwd" \notin modes THEN Zero ELSE moved,
         dc     |-> IF "intra" \notin modes THEN 0 ELSE IF skips THEN 1 ELSE d.dc + 1,
         first  |-> IF d.first = 0 THEN d.column + inc ELSE d.first]

-----------------------------------------------------------------------------
SliceInit ==
    /\ fact_x = 0 /\ tables = "none"
    /\ validSeqHeader = FALSE /\ validPicHeader = FALSE /\ validExtHeader = FALSE
    /\ picture_coding_type = 0 /\ ext = NoExt /\ picture = NoPicture
    /\ at = "start"
    /\ quantizer_scale = 0 /\ last_coded_scale = 0 /\ h_offset = 0 /\ v_offset = 0
    /\ mb_add = 0 /\ mb_skip = 0 /\ mb_out = 0 /\ sliceError = FALSE
    /\ orig = Fresh(0) /\ seen = Fresh(0) /\ whole = FALSE
    /\ mb = NoMb /\ kept = FALSE

\* requant_thread(): the tables are filled before the first request is there.
FillTables ==
    /\ at = "start"
    /\ tables' = IF fact_x <= MaxAltTable THEN "nearest" ELSE "truncating"
    /\ at' = "idle"
    /\ UNCHANGED <<fact_x, headers, slice, mb, kept>>

\* LOCK: the next GOP, with the factor it shall be shrunk by.
Request ==
    /\ at \in {"idle", "scan"} /\ at' = "scan"
    /\ fact_x' \in Factors
    /\ UNCHANGED <<tables, headers, slice, mb, kept>>

\* The bytes up to the next start code are copied.  What a slice leaves behind is not
\* looked at again.
Search ==
    /\ at = "ended" /\ at' = "scan"
    /\ quantizer_scale' = 0 /\ last_coded_scale' = 0 /\ h_offset' = 0 /\ v_offset' = 0
    /\ mb_add' = 0 /\ mb_skip' = 0 /\ mb_out' = 0 /\ sliceError' = FALSE
    /\ orig' = Fresh(0) /\ seen' = Fresh(0) /\ whole' = FALSE /\ kept' = FALSE
    /\ UNCHANGED <<scanning, mb>>

Scanned == at = "scan" /\ UNCHANGED <<fact_x, tables, at, slice, mb, kept>>

SequenceHeader ==
    /\ Scanned
    /\ validSeqHeader' \in BOOLEAN          \* of a legal size or not
    /\ validPicHeader' = FALSE /\ validExtHeader' = FALSE
    /\ picture' = NoPicture
    /\ UNCHANGED <<picture_coding_type, ext>>

\* Mutant: the extension of the last picture still counts.
ExtStays == validExtHeader
ExtAfterPicture == FALSE

PictureHeader ==
    /\ Scanned
    /\ \E type \in 0 .. 3 :
         /\ picture_coding_type' = type
         /\ validPicHeader' = (type # 0)
         /\ picture' = [type |-> type, ext |-> NoExt]
    /\ validExtHeader' = ExtAfterPicture
    /\ UNCHANGED <<validSeqHeader, ext>>

PictureExtension ==
    /\ Scanned
    /\ \E legal \in BOOLEAN :
         /\ ext' \in Exts
         /\ validExtHeader' = legal
         /\ picture' = [type |-> picture.type, ext |-> IF legal THEN ext' ELSE NoExt]
    /\ UNCHANGED <<validSeqHeader, validPicHeader, picture_coding_type>>

-----------------------------------------------------------------------------
ScaleCodes == Scales[ext.q_scale_type]
ScaleSet   == Range(ScaleCodes)

\* increment_quant(): the next scale, if there is one.
Increment(q) == LET above == {s \in ScaleSet : s > q}
                IN  IF above = {} THEN q ELSE CHOOSE s \in above : \A t \in above : s <= t
\* getNewQuant(): at least the next scale, and more by what the stress factor says,
\* which is left open.
NewQuant(q) == {s \in ScaleSet : s >= Increment(q)}

\* Mutant: only the first macroblock of a row is never dropped.
AtLeft == h_offset = 0
\* The ends of a row, where P pictures cannot skip.
AtEdge == h_offset = 0 \/ h_offset = Width - 1

Leave(error) == at' = "flush" /\ sliceError' = error

\* slice_init(): a slice of row `code' whose first macroblock is the inc-th of it.
BeginSlice ==
    /\ at = "scan"
    /\ validSeqHeader /\ validPicHeader /\ validExtHeader
    /\ \E code \in 1 .. Rows + 1, q \in 0 .. Len(ScaleCodes), inc \in 0 .. Width + 1 :
       \E nq \in NewQuant(ScaleCodes[IF q = 0 THEN 1 ELSE q]) :
         /\ quantizer_scale' = ScaleCodes[IF q = 0 THEN 1 ELSE q]
         /\ last_coded_scale' = nq
         /\ orig' = Fresh(quantizer_scale') /\ seen' = Fresh(nq)
         /\ whole' = (inc = 1 /\ code <= Rows)
         /\ mb_out' = 0 /\ mb_skip' = 0 /\ mb_add' = inc
         /\ h_offset' = (inc - 1) % Width
         /\ v_offset' = code - 1 + (inc - 1) \div Width
         /\ IF inc = 0 THEN Leave(TRUE)             \* no macroblock address
            ELSE IF v_offset' > Rows - 1 THEN Leave(q = 0)
            ELSE IF q = 0 THEN Leave(TRUE)
            ELSE at' = "macroblock" /\ sliceError' = FALSE
    /\ mb' = NoMb /\ kept' = FALSE
    /\ UNCHANGED scanning

-----------------------------------------------------------------------------
\* The modes of macroblocks (MB_I, MB_P, MB_B), by picture type; those that can be
\* written (mbtypetab) are the same.
Intra  == {{"intra"}, {"intra", "quant"}}
With(dirs) == {dirs, dirs \cup {"pattern"}, dirs \cup {"pattern", "quant"}}
Types  == <<Intra,
            Intra \cup With({"fwd"}) \cup {{"pattern"}, {"pattern", "quant"}},
            Intra \cup With({"fwd"}) \cup With({"bwd"}) \cup With({"fwd", "bwd"})>>

BlocksOf(modes) ==
    IF "intra" \in modes THEN [1 .. Blocks -> Coded \cup {<<>>}]
    ELSE IF "pattern" \in modes THEN [1 .. Blocks -> Coded \cup {<<>>}] \ {NoBlocks}
    ELSE {NoBlocks}

\* Where the coefficients of a block are, behind position `from': 0 in intra blocks, as
\* their DC is coded apart, or -1.
Places(blk, from) ==
    LET p[k \in 0 .. Len(blk)] == IF k = 0 THEN from ELSE p[k - 1] + blk[k].run + 1
    IN  [k \in 1 .. Len(blk) |-> p[k]]
Legal(blk, from) == blk # <<>> => Last(Places(blk, from)) < Coefs

Abs(n) == IF n < 0 THEN -n ELSE n
\* quant_tables: a level is scaled and cut off, or rounded to the nearest.
Requant(level, q, nq) ==
    LET v == Abs(level) * q
        t == v \div nq
        r == IF tables = "nearest" /\ (t + 1) * nq - v < v - t * nq THEN t + 1 ELSE t
    IN  IF level < 0 THEN -r ELSE r
Table(level, q, nq) == IF q = nq THEN level ELSE Requant(level, q, nq)

\* Mutant: the run of a level that becomes 0 is forgotten.
KeepRuns(blk, q, nq, from) ==
    SelectSeq([k \in 1 .. Len(blk) |-> [run |-> blk[k].run, level |-> Table(blk[k].level, q, nq)]],
              LAMBDA c : c.level # 0)
\* The coefficients that do not become 0.
Staying(blk, q, nq) ==
    LET stay[k \in 0 .. Len(blk)] ==
          IF k = 0 THEN <<>>
          ELSE IF Table(blk[k].level, q, nq) # 0 THEN Append(stay[k - 1], k) ELSE stay[k - 1]
    IN  stay[Len(blk)]
\* get_non_intra_block_rq(), get_intra_block_B14/15(): levels that become 0 are left
\* out, and the next run goes from the last one that was written.
Requantised(blk, q, nq, from) ==
    LET p    == Places(blk, from)
        left == Staying(blk, q, nq)
    IN  [j \in 1 .. Len(left) |->
           [run   |-> p[left[j]] - (IF j = 1 THEN from ELSE p[left[j - 1]]) - 1,
            level |-> Table(blk[left[j]].level, q, nq)]]

Smaller(a, b) == Abs(a.level) < Abs(b.level)
\* get_non_intra_block_sav(): the first of the smallest coefficients, as it was read, in
\* a block of its own.
Saved(blocks) ==
    LET all  == {x \in (1 .. Blocks) \X (1 .. Coefs) : x[2] <= Len(blocks[x[1]])}
        C(x) == blocks[x[1]][x[2]]
        best == CHOOSE x \in all : \A y \in all :
                  \/ Smaller(C(x), C(y))
                  \/ ~Smaller(C(y), C(x)) /\ (x[1] < y[1] \/ (x[1] = y[1] /\ x[2] <= y[2]))
    IN  [NoBlocks EXCEPT ![best[1]] =
           <<[run |-> Places(blocks[best[1]], -1)[best[2]], level |-> C(best).level]>>]

\* A macroblock goes out with these modes and this scale, which is written if it is not
\* the last one.
Flags(modes, nq) ==
    IF last_coded_scale = nq THEN modes \ {"quant"}
    ELSE IF modes \cap {"intra", "pattern"} # {} THEN modes \cup {"quant"} ELSE modes

\* putaddrinc(), putmbdata(), put_quantiser()
Emit(modes, nq) ==
    LET inc == mb_add + mb_skip
        out == Flags(modes, nq)
    IN  /\ seen' = Decoded(seen, inc, out, nq)
        /\ last_coded_scale' = IF "quant" \in out THEN nq ELSE last_coded_scale
        /\ mb_skip' = 0
        /\ mb_out' = mb_out + inc
        /\ sliceError' = (sliceError \/ mb_out + inc > Width)

\* A macroblock of these modes and this scale is read.
Read(modes, q) ==
    /\ at = "macroblock"
    /\ quantizer_scale' = q
    /\ orig' = Decoded(orig, mb_add, modes, q)
    /\ at' = "address"
    /\ UNCHANGED <<scanning, h_offset, v_offset, mb_add, whole, kept>>

Pair(modes, q, blocks, nq, out, outBlocks) ==
    [modes |-> modes, scale |-> q, blocks |-> blocks, tried |-> nq,
     out |-> out, outBlocks |-> outBlocks]

IntraMacroblock(modes, q, blocks, nq) ==
    /\ "intra" \in modes
    /\ Read(modes, q)
    /\ \A b \in 1 .. Blocks : Legal(blocks[b], 0)
    /\ Emit(modes, nq)
    /\ mb' = Pair(modes, q, blocks, nq, Flags(modes, nq),
                  [b \in 1 .. Blocks |-> Requantised(blocks[b], q, nq, 0)])

\* Mutant: the increment of the macroblock dropped last only.
SkipOne == mb_add
SkipMore == mb_skip + mb_add

\* Without a coefficient left the macroblock loses its pattern.  In a P picture without
\* a vector it is skipped, or at an end of the row one coefficient is left as it was.
NonIntraMacroblock(modes, q, blocks, nq) ==
    LET requantised == [b \in 1 .. Blocks |-> Requantised(blocks[b], q, nq, -1)]
        plain       == modes \ {"pattern", "quant"}
        skippable   == picture_coding_type = P /\ "fwd" \notin modes
    IN  /\ "intra" \notin modes
        /\ Read(modes, q)
        /\ \A b \in 1 .. Blocks : Legal(blocks[b], -1)
        /\ IF "pattern" \notin modes \/ requantised # NoBlocks
           THEN /\ Emit(modes, nq)
                /\ mb' = Pair(modes, q, blocks, nq, Flags(modes, nq), requantised)
           ELSE IF ~skippable
           THEN /\ Emit(plain, nq)
                /\ mb' = Pair(modes, q, blocks, nq, Flags(plain, nq), NoBlocks)
           ELSE IF AtEdge
           THEN LET back == plain \cup {"pattern"}
                IN  /\ Emit(back, q)
                    /\ mb' = Pair(modes, q, blocks, nq, Flags(back, q), Saved(blocks))
           ELSE /\ mb_skip' = SkipMore
                /\ mb' = Pair(modes, q, blocks, nq, {}, NoBlocks)
                /\ UNCHANGED <<last_coded_scale, mb_out, sliceError, seen>>

Macroblock ==
    /\ at = "macroblock"
    /\ \E modes \in Types[picture_coding_type] :
       \E q \in (IF "quant" \in modes THEN ScaleSet ELSE {quantizer_scale}),
          blocks \in BlocksOf(modes) :
       \E nq \in NewQuant(q) :
          IntraMacroblock(modes, q, blocks, nq) \/ NonIntraMacroblock(modes, q, blocks, nq)

\* A code that is none, a scale of 0, a run that leaves the block: errors are counted,
\* and what follows is of no consequence.
BadCode ==
    /\ at = "macroblock"
    /\ Leave(TRUE)
    /\ UNCHANGED <<scanning, quantizer_scale, last_coded_scale, h_offset, v_offset, mb_add,
                   mb_skip, mb_out, orig, seen, whole, mb, kept>>

InSlice == UNCHANGED <<scanning, quantizer_scale, last_coded_scale, mb_skip, mb_out, orig,
                       seen, kept>> /\ mb' = NoMb

\* NEXT_MACROBLOCK returns behind the last macroblock of the picture.
LastOfPicture == h_offset = Width - 1 /\ v_offset >= Rows - 1

PictureEnds ==
    /\ at = "address" /\ LastOfPicture
    /\ Leave(sliceError)
    /\ InSlice /\ UNCHANGED <<h_offset, v_offset, mb_add, whole>>

\* No address follows: the slice ends, at the end of a row or too early.
SliceEnds ==
    /\ at = "address" /\ ~LastOfPicture
    /\ Leave(sliceError \/ h_offset # Width - 1)
    /\ InSlice /\ UNCHANGED <<h_offset, v_offset, mb_add, whole>>

\* The address of the next macroblock, in the slice as long as there is no error: what
\* follows one is of no consequence.
NextAddress ==
    /\ at = "address" /\ ~LastOfPicture /\ ~sliceError
    /\ \E inc \in 1 .. Width + 1 :
         /\ mb_add' = inc
         /\ h_offset' = (h_offset + inc) % Width
         /\ v_offset' = v_offset + (h_offset + inc) \div Width
         /\ whole' = (whole /\ h_offset + inc < Width)
         /\ IF v_offset' > Rows - 1 THEN Leave(sliceError)
            ELSE at' = "macroblock" /\ UNCHANGED sliceError
    /\ InSlice

\* The slice is flushed, which may find bits where zeros belong, and compared with the
\* original.
EndSlice ==
    /\ at = "flush"
    /\ \E padding, longer \in BOOLEAN :
         kept' = (~longer /\ ~sliceError /\ ~padding)
    /\ at' = "ended"
    /\ mb' = NoMb
    /\ UNCHANGED <<scanning, slice>>

SliceNext ==
    \/ FillTables \/ Request \/ Search
    \/ SequenceHeader \/ PictureHeader \/ PictureExtension
    \/ BeginSlice \/ Macroblock \/ BadCode
    \/ PictureEnds \/ SliceEnds \/ NextAddress \/ EndSlice

SliceSpec == SliceInit /\ [][SliceNext]_sliceVars

-----------------------------------------------------------------------------
\* The coefficient at a place of a block, as a decoder scales it.
Value(blk, from, scale, p) ==
    LET places == Places(blk, from)
        hit    == {k \in 1 .. Len(blk) : places[k] = p}
    IN  IF hit = {} THEN 0 ELSE scale * blk[CHOOSE k \in hit : TRUE].level

Close ==
    at = "address" =>
        LET from == IF "intra" \in mb.modes THEN 0 ELSE -1
        IN  \A b \in 1 .. Blocks, p \in 0 .. Coefs - 1 :
              LET diff == Abs(Value(mb.blocks[b], from, mb.scale, p)
                                - Value(mb.outBlocks[b], from, seen.scale, p))
              IN  IF tables = "nearest" THEN 2 * diff <= mb.tried ELSE diff < mb.tried

Codable ==
    at = "address" /\ mb.out # {} =>
        /\ mb.out \in Types[picture.type]
        /\ "intra" \notin mb.out => ("pattern" \in mb.out <=> mb.outBlocks # NoBlocks)

\* What a decoder makes of a macroblock is what was sent, up to the step of the scale
\* that was tried: each coefficient at its own place and off by half a step at most (a
\* whole one with the other tables), by the scale the decoder has at that time, which
\* the recoder does not write again (last_coded_scale).  This also holds of a
\* macroblock that is dropped, stripped of its pattern, or given one coefficient back
\* (mb_sav_lev).  And whatever is written has a code: the modes are some that this type
\* of picture has, and there is a pattern if and only if there are coefficients (the
\* assertions of putcbp() and of mpeg2_slice()).
Recoded == Close /\ Codable

\* After each macroblock that is written the decoder is in the same place, and predicts
\* the next vector and DC value from as many others, as it would with the original:
\* vectors and DC values are copied as differences.
SamePrediction ==
    at = "address" /\ mb.out # {} =>
        /\ seen.column = orig.column
        /\ seen.mv = orig.mv /\ seen.dc = orig.dc

\* A slice that is recoded, begins at the left and stays in its row, begins and ends
\* with the macroblocks the original begins and ends with: what is skipped at its
\* ends is not drawn by a decoder ("can't skip last mb").
WholeSlice ==
    kept /\ whole =>
        mb_skip = 0 /\ seen.first = orig.first /\ seen.column = orig.column

\* A slice is recoded by the type and the extension of its own picture; those of the
\* picture before would read it wrongly and write it wrongly.
OwnHeaders ==
    at \in {"macroblock", "address", "flush"} =>
        picture_coding_type = picture.type /\ ext = picture.ext
=============================================================================
