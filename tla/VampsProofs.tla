------------------------------ MODULE VampsProofs ------------------------------
(***************************************************************************)
(* Proofs about vamps: how the requantization thread is called             *)
(* (VampsHandoff, for any lengths of GOP, look-ahead, sentinel and number  *)
(* of GOPs that satisfy HandoffAssumption), the slices it recodes          *)
(* (VampsSlice, for every size of picture, every table of scales and every *)
(* coefficient), the program stream (VampsStream, for any stream, also one *)
(* that is not well-formed, and any sizes of the buffers) and the packets  *)
(* that are rewritten (VampsPacket, for any size of sector and header).    *)
(***************************************************************************)
EXTENDS VampsHandoff, VampsSlice, VampsStream, VampsPacket, SequenceTheorems,
        FiniteSetTheorems, WellFoundedInduction, TLAPS

-------------------------------------------------------------------------------
(***************************************************************************)
(* The hand-over                                                           *)
(***************************************************************************)
\* Initially nothing has been requested and both mutexes are free.
LEMMA InitIInv == HandoffInit => IInv
  BY HandoffAssumption, SMT
  DEF HandoffInit, IInv, TypeOK, MutexInv, RequestInv, OutputInv, Idle, Working, Waiting

\* What the main thread does keeps the inductive invariant: a request is set
\* only while the requantiser is idle, and an answer is taken only when given.
LEMMA MainStep == IInv /\ MainNext => IInv'
<1> SUFFICES ASSUME IInv, MainNext PROVE IInv'
    OBVIOUS
<1> USE HandoffAssumption DEF IInv, TypeOK, Idle, Working, Waiting,
                              mainvars, rqtvars, sync
<1>1. ASSUME NEW n \in Lens, Enter(n) PROVE IInv'
    BY <1>1, SMT DEF Enter, MutexInv, RequestInv, OutputInv
<1>2. ASSUME NEW n \in Lens, Bypass(n) PROVE IInv'
    BY <1>2, SMT DEF Bypass, MutexInv, RequestInv, OutputInv
<1>3. CASE Exit
    BY <1>3, SMT DEF Exit, MutexInv, RequestInv, OutputInv
<1>4. CASE LockRequest
    BY <1>4, SMT DEF LockRequest, MutexInv, RequestInv, OutputInv
<1>5. CASE SetRequest
    BY <1>5, SMT DEF SetRequest, MutexInv, RequestInv, OutputInv
<1>6. CASE SignalRequest
    BY <1>6, SMT DEF SignalRequest, MutexInv, RequestInv, OutputInv
<1>7. CASE LockReply
    BY <1>7, SMT DEF LockReply, MutexInv, RequestInv, OutputInv
<1>8. CASE TestReply
    BY <1>8, SMT DEF TestReply, MutexInv, RequestInv, OutputInv
<1> QED
    BY <1>1, <1>2, <1>3, <1>4, <1>5, <1>6, <1>7, <1>8 DEF MainNext

\* What the requantiser does between two calls of LOCK that succeed: the counts
\* of bytes change, the state of the request does not.
LEMMA RecodeStep == IInv /\ Recode => IInv'
<1> SUFFICES ASSUME IInv, Recode PROVE IInv'
    OBVIOUS
<1> USE HandoffAssumption DEF IInv, TypeOK, Idle, Working, Waiting,
                              mainvars, rqtvars, sync
<1>1. CASE OutOfBytes
    BY <1>1, SMT DEF OutOfBytes, Refill, MutexInv, RequestInv, OutputInv
<1>2. CASE CopyByte
    BY <1>2, SMT DEF CopyByte, MutexInv, RequestInv, OutputInv
<1>3. CASE StartCode
    <2>1. need' \in Headers \cup {0} /\ (need' = need \/ need' \in Headers)
        BY <1>3 DEF StartCode, OutputInv
    <2>2. need' \in Nat
        BY <2>1
    <2>3. left' \in Nat /\ done' \in Nat /\ done' > 0
        BY <1>3, SMT DEF StartCode
    <2> QED
        BY <1>3, <2>1, <2>2, <2>3, SMT DEF StartCode, MutexInv, RequestInv, OutputInv
<1>4. CASE Slice
    BY <1>4, SMT DEF Slice, MutexInv, RequestInv, OutputInv
<1>5. CASE CopyHeader
    BY <1>5, SMT DEF CopyHeader, MutexInv, RequestInv, OutputInv
<1>6. CASE HeaderOutOfBytes
    BY <1>6, SMT DEF HeaderOutOfBytes, Refill, MutexInv, RequestInv, OutputInv
<1> QED
    BY <1>1, <1>2, <1>3, <1>4, <1>5, <1>6 DEF Recode

\* The requantiser's hand-over, and wake-ups without a signal.
LEMMA RqtStep == IInv /\ (RqtNext \/ SpuriousMain \/ SpuriousRqt) => IInv'
<1> SUFFICES ASSUME IInv, RqtNext \/ SpuriousMain \/ SpuriousRqt PROVE IInv'
    OBVIOUS
<1> USE HandoffAssumption DEF IInv, TypeOK, Idle, Working, Waiting,
                              mainvars, rqtvars, sync
<1>1. CASE LockPost
    BY <1>1, SMT DEF LockPost, MutexInv, RequestInv, OutputInv
<1>2. CASE Post
    BY <1>2, SMT DEF Post, MutexInv, RequestInv, OutputInv
<1>3. CASE LockTake
    BY <1>3, SMT DEF LockTake, MutexInv, RequestInv, OutputInv
<1>4. CASE Take
    BY <1>4, SMT DEF Take, MutexInv, RequestInv, OutputInv
<1>5. CASE SpuriousMain
    BY <1>5, SMT DEF SpuriousMain, MutexInv, RequestInv, OutputInv
<1>6. CASE SpuriousRqt
    BY <1>6, SMT DEF SpuriousRqt, MutexInv, RequestInv, OutputInv
<1>7. CASE Recode
    BY <1>7, RecodeStep
<1> QED
    BY <1>1, <1>2, <1>3, <1>4, <1>5, <1>6, <1>7 DEF RqtNext

\* The inductive invariant holds in every reachable state.
THEOREM Invariance == HandoffSpec => []IInv
<1>1. ASSUME IInv, [HandoffNext]_handoffvars PROVE IInv'
    <2>1. CASE UNCHANGED handoffvars
        BY <1>1, <2>1
        DEF IInv, TypeOK, MutexInv, RequestInv, OutputInv, Idle, Working,
            Waiting, handoffvars, mainvars, rqtvars, sync
    <2>2. CASE HandoffNext
        BY <1>1, <2>1, <2>2, MainStep, RqtStep DEF HandoffNext, HandoffTerminated
    <2> QED
        BY <1>1, <2>1, <2>2
<1> QED
    BY <1>1, InitIInv, PTL DEF HandoffSpec

\* Types, and each counter of bytes stays a natural number: LOCK never leaves
\* the requantiser with less than it is about to copy.
THEOREM TypeCorrect == HandoffSpec => []TypeOK
  BY Invariance, PTL DEF IInv

\* vibuf and vobuf are never used by both threads at once.
THEOREM Exclusion == HandoffSpec => []BuffersExclusive
<1>1. IInv => BuffersExclusive
    BY DEF IInv, TypeOK, RequestInv, BuffersExclusive, Idle, Working, Waiting
<1> QED
    BY <1>1, Invariance, PTL

\* requant() returns the length of the very GOP it was called with.
THEOREM Replies == HandoffSpec => ReplyIsOurs
<1> DEFINE Reply == mpc = "testw" /\ mpc' = "own" => volen' = done /\ cur = vilen
<1>1. ASSUME IInv, [HandoffNext]_handoffvars PROVE Reply
    <2> SUFFICES ASSUME mpc = "testw", mpc' = "own" PROVE volen' = done /\ cur = vilen
        OBVIOUS
    <2>1. TestReply
        BY <1>1
        DEF HandoffNext, MainNext, RqtNext, Recode, HandoffTerminated, handoffvars, mainvars, Enter, Bypass,
            Exit, LockRequest, SetRequest, SignalRequest, LockReply, SpuriousMain,
            SpuriousRqt, LockPost, Post, LockTake, Take, OutOfBytes, CopyByte,
            StartCode, Slice, CopyHeader, HeaderOutOfBytes
    <2>2. wcnt # 0 /\ volen' = wcnt
        BY <2>1 DEF TestReply
    <2>3. wcnt = done /\ cur = vilen
        BY <1>1, <2>2 DEF IInv, RequestInv, Waiting
    <2> QED
        BY <2>2, <2>3
<1> QED
    BY <1>1, Invariance, PTL DEF HandoffSpec, ReplyIsOurs

\* The threads implement the subroutine: every step of theirs is a step of
\* VampsCall or leaves its variables alone.
THEOREM Refinement == HandoffSpec => Call!AbsInit /\ [][Call!AbsNext]_(Call!absvars)
<1>1. HandoffInit => Call!AbsInit
    BY DEF HandoffInit, Call!AbsInit
<1>2. ASSUME IInv, [HandoffNext]_handoffvars PROVE [Call!AbsNext]_(Call!absvars)
    <2> USE <1>2 DEF Call!AbsNext, Call!absvars
    <2>1. ASSUME NEW n \in Lens, Enter(n) PROVE Call!Call(n)
        BY <2>1 DEF Enter, Call!Call
    <2>2. ASSUME NEW n \in Lens, Bypass(n) PROVE Call!Keep(n)
        BY <2>2 DEF Bypass, Call!Keep
    <2>3. CASE TestReply
        <3>1. CASE wcnt = 0
            BY <2>3, <3>1 DEF TestReply
        <3>2. CASE wcnt # 0
            <4>1. volen' = done /\ done \in Nat /\ done > 0 /\ done <= vilen + Sentinel
                BY <2>3, <3>2, HandoffAssumption, SMT
                DEF TestReply, IInv, RequestInv, OutputInv, TypeOK, Waiting
            <4>2. Call!Return
                BY <2>3, <3>2, <4>1, HandoffAssumption, SMT
                DEF TestReply, Call!Return, IInv, TypeOK
            <4> QED
                BY <4>2
        <3> QED
            BY <3>1, <3>2
    <2>4. CASE UNCHANGED handoffvars \/ HandoffTerminated
        BY <2>4 DEF handoffvars, mainvars, HandoffTerminated
    <2>5. CASE Exit \/ LockRequest \/ SetRequest \/ SignalRequest \/ LockReply
        BY <2>5 DEF Exit, LockRequest, SetRequest, SignalRequest, LockReply
    <2>6. CASE RqtNext \/ SpuriousMain \/ SpuriousRqt
        BY <2>6
        DEF RqtNext, Recode, SpuriousMain, SpuriousRqt, LockPost, Post, LockTake,
            Take, OutOfBytes, CopyByte, StartCode, Slice, CopyHeader,
            HeaderOutOfBytes, mainvars
    <2> QED
        BY <2>1, <2>2, <2>3, <2>4, <2>5, <2>6 DEF HandoffNext, MainNext
<1> QED
    BY <1>1, <1>2, Invariance, PTL DEF HandoffSpec

-------------------------------------------------------------------------------
(***************************************************************************)
(* Slices: SamePrediction, WholeSlice and OwnHeaders                       *)
(*                                                                         *)
(* The invariant follows the two decoders.  They are together whenever     *)
(* nothing is pending (mb_skip = 0).  Otherwise they are apart by the      *)
(* macroblocks that were dropped, and what was dropped has reset all       *)
(* predictors of the original's decoder, as the skipped macroblocks will   *)
(* do in the other one.                                                    *)
(***************************************************************************)
Inside == at \in {"macroblock", "address"}

\* The headers in force belong to the picture.
HeadersInv ==
    /\ validPicHeader => picture_coding_type = picture.type
    /\ validPicHeader /\ validExtHeader => ext = picture.ext
    /\ at \in {"macroblock", "address", "flush"} => validPicHeader /\ validExtHeader

\* Numbers within their bounds.
RangeInv ==
    Inside => /\ h_offset \in 0 .. Width - 1 /\ v_offset \in 0 .. Rows - 1
              /\ mb_add \in Nat \ {0} /\ mb_skip \in Nat
              /\ orig.column \in Nat /\ seen.column \in Nat
              /\ orig.first \in Nat /\ seen.first \in Nat

\* The decoders are together but for the macroblocks that wait to be skipped.
Untouched(d) == d.mv = Zero /\ d.dc = 0
Together ==
    Inside =>
        /\ orig.column = seen.column + mb_skip
        /\ mb_skip = 0 => /\ seen.mv = orig.mv /\ seen.dc = orig.dc
                          /\ seen.first = 0 <=> orig.first = 0
        /\ mb_skip # 0 => picture.type = P /\ Untouched(orig) /\ orig.first # 0
        /\ seen.first = 0 => Untouched(seen)
        /\ at = "address" => orig.first # 0 /\ (mb.out = {} \/ mb_skip = 0)

\* Of a slice of one row nothing is pending at the row's ends.
RowInv ==
    whole /\ Inside =>
        /\ seen.first = orig.first
        /\ at = "macroblock" => /\ orig.column + mb_add = h_offset + 1
                                /\ orig.first = 0 => h_offset = 0
        /\ at = "address"    => /\ orig.column = h_offset + 1
                                /\ mb_skip # 0 => h_offset # Width - 1

EndInv ==
    /\ at \in {"flush", "ended"} /\ whole /\ ~sliceError =>
         mb_skip = 0 /\ seen.first = orig.first /\ seen.column = orig.column
    /\ kept => at = "ended" /\ ~sliceError

SliceInv == HeadersInv /\ RangeInv /\ Together /\ RowInv /\ EndInv

-------------------------------------------------------------------------------
LEMMA Remainder ==
    \A x \in Nat : /\ x % Width \in 0 .. Width - 1 /\ x \div Width \in Nat
                   /\ x < Width => x % Width = x /\ x \div Width = 0
<1>1. Width \in Nat \ {0}
  BY SliceAssumption
<1> QED BY <1>1

\* What a step of the decoder does to its place.
LEMMA Advance ==
    ASSUME NEW d, NEW inc \in Nat \ {0}, NEW modes, NEW scale,
           d.column \in Nat, d.first \in Nat
    PROVE  LET e == Decoded(d, inc, modes, scale) IN
           /\ e.column = d.column + inc /\ e.column \in Nat
           /\ e.first \in Nat \ {0}
           /\ d.first # 0 => e.first = d.first
           /\ d.first = 0 => e.first = d.column + inc
BY DEF Decoded

\* Two decoders that are together stay so, whatever scales they are told.
LEMMA StayTogether ==
    ASSUME NEW d, NEW e, NEW inc, NEW modes, NEW sent, NEW s, NEW t,
           d.mv = e.mv, d.dc = e.dc, d.first = 0 <=> e.first = 0,
           "intra" \in modes <=> "intra" \in sent,
           "fwd" \in modes <=> "fwd" \in sent,
           "bwd" \in modes <=> "bwd" \in sent
    PROVE  /\ Decoded(d, inc, modes, s).mv = Decoded(e, inc, sent, t).mv
           /\ Decoded(d, inc, modes, s).dc = Decoded(e, inc, sent, t).dc
<1>1. Decoded(d, inc, modes, s).dc = Decoded(e, inc, sent, t).dc
  BY DEF Decoded
<1> DEFINE before == IF d.first # 0 /\ inc > 1 /\ picture.type = P THEN Zero ELSE d.mv
           M(m) == [v \in {"fwd", "bwd"} |-> IF v \in m THEN before[v] + 1 ELSE before[v]]
<1>2. M(modes) = M(sent)
  OBVIOUS
<1>3. Decoded(d, inc, modes, s).mv = Decoded(e, inc, sent, t).mv
  BY <1>2 DEF Decoded
<1> QED BY <1>1, <1>3

\* A decoder that skips what was dropped has the predictors of one that saw it.
LEMMA ComeTogether ==
    ASSUME NEW d, NEW e, NEW inc, NEW more \in Nat, more > 1,
           NEW modes, NEW sent, NEW s, NEW t,
           picture.type = P, Untouched(d), d.first # 0, e.first = 0 => Untouched(e),
           "intra" \in modes <=> "intra" \in sent,
           "fwd" \in modes <=> "fwd" \in sent,
           "bwd" \in modes <=> "bwd" \in sent
    PROVE  /\ Decoded(d, inc, modes, s).mv = Decoded(e, more, sent, t).mv
           /\ Decoded(d, inc, modes, s).dc = Decoded(e, more, sent, t).dc
<1>1. Decoded(d, inc, modes, s).dc = Decoded(e, more, sent, t).dc
  BY DEF Decoded, Untouched
<1> DEFINE M(m) == [v \in {"fwd", "bwd"} |-> IF v \in m THEN Zero[v] + 1 ELSE Zero[v]]
<1>2. M(modes) = M(sent)
  OBVIOUS
<1>3. Decoded(d, inc, modes, s).mv = Decoded(e, more, sent, t).mv
  BY <1>2 DEF Decoded, Untouched
<1> QED BY <1>1, <1>3

\* Only the flags of the scale change.
LEMMA SameFlags ==
    ASSUME NEW modes, NEW nq, NEW f \in {"intra", "fwd", "bwd"}
    PROVE  f \in modes <=> f \in Flags(modes, nq)
BY DEF Flags

\* A macroblock is read: what a step inside a slice begins with.
LEMMA ReadStep ==
    ASSUME SliceInv, NEW modes, NEW q, Read(modes, q)
    PROVE  /\ at = "macroblock" /\ Inside /\ at' = "address" /\ Inside'
           /\ HeadersInv'
           /\ h_offset' = h_offset /\ v_offset' = v_offset /\ mb_add' = mb_add
           /\ whole' = whole /\ kept' = kept /\ picture' = picture
           /\ orig' = Decoded(orig, mb_add, modes, q)
           /\ orig'.column = orig.column + mb_add /\ orig'.column \in Nat
           /\ orig'.first \in Nat \ {0}
           /\ orig.first # 0 => orig'.first = orig.first
           /\ orig.first = 0 => orig'.first = orig.column + mb_add
           /\ ~kept
<1>1. /\ at = "macroblock" /\ Inside /\ at' = "address" /\ Inside'
      /\ h_offset' = h_offset /\ v_offset' = v_offset /\ mb_add' = mb_add
      /\ whole' = whole /\ kept' = kept /\ picture' = picture
      /\ orig' = Decoded(orig, mb_add, modes, q)
  BY DEF Read, Inside, scanning, headers
<1>2. HeadersInv'
  BY DEF SliceInv, HeadersInv, Read, scanning, headers
<1>3. mb_add \in Nat \ {0} /\ orig.column \in Nat /\ orig.first \in Nat
  BY <1>1 DEF SliceInv, RangeInv
<1>4. ~kept
  BY <1>1 DEF SliceInv, EndInv
<1> QED BY <1>1, <1>2, <1>3, <1>4, Advance

\* It is written, with the same prediction, and with whatever was dropped before.
LEMMA EmitStep ==
    ASSUME SliceInv, NEW modes, NEW q, Read(modes, q),
           NEW given, NEW nq, Emit(given, nq),
           \A f \in {"intra", "fwd", "bwd"} : f \in modes <=> f \in given
    PROVE  SliceInv'
<1> DEFINE sent == Flags(given, nq)
<1>1. /\ at = "macroblock" /\ Inside /\ at' = "address" /\ Inside'
      /\ HeadersInv'
      /\ h_offset' = h_offset /\ v_offset' = v_offset /\ mb_add' = mb_add
      /\ whole' = whole /\ kept' = kept /\ picture' = picture
      /\ orig' = Decoded(orig, mb_add, modes, q)
      /\ orig'.column = orig.column + mb_add /\ orig'.column \in Nat
      /\ orig'.first \in Nat \ {0}
      /\ orig.first # 0 => orig'.first = orig.first
      /\ orig.first = 0 => orig'.first = orig.column + mb_add
      /\ ~kept
  BY ReadStep
<1>2. /\ mb_add \in Nat \ {0} /\ mb_skip \in Nat
      /\ h_offset \in 0 .. Width - 1 /\ v_offset \in 0 .. Rows - 1
      /\ seen.column \in Nat /\ seen.first \in Nat /\ orig.column \in Nat /\ orig.first \in Nat
  BY <1>1 DEF SliceInv, RangeInv
<1>3. seen' = Decoded(seen, mb_add + mb_skip, sent, nq) /\ mb_skip' = 0
  BY DEF Emit
<1>4. /\ seen'.column = seen.column + mb_add + mb_skip /\ seen'.column \in Nat
      /\ seen'.first \in Nat \ {0}
      /\ seen.first # 0 => seen'.first = seen.first
      /\ seen.first = 0 => seen'.first = seen.column + mb_add + mb_skip
  <2> DEFINE inc == mb_add + mb_skip
  <2>1. inc \in Nat \ {0}
    BY <1>2
  <2>2. seen.column + inc = seen.column + mb_add + mb_skip
    BY <1>2
  <2>3. seen' = Decoded(seen, inc, sent, nq)
    BY <1>3
  <2> HIDE DEF inc, sent
  <2> QED BY <1>2, <2>1, <2>2, <2>3, Advance
<1>5. \A f \in {"intra", "fwd", "bwd"} : f \in modes <=> f \in sent
  BY SameFlags
<1>6. seen'.mv = orig'.mv /\ seen'.dc = orig'.dc
  <2> HIDE DEF sent
  <2>1. CASE mb_skip = 0
    <3>1. /\ orig.mv = seen.mv /\ orig.dc = seen.dc /\ (orig.first = 0 <=> seen.first = 0)
      BY <1>1, <2>1 DEF SliceInv, Together
    <3>2. mb_add + mb_skip = mb_add
      BY <1>2, <2>1
    <3> QED BY <1>1, <1>3, <1>5, <3>1, <3>2, StayTogether
  <2>2. CASE mb_skip # 0
    <3>1. /\ picture.type = P /\ Untouched(orig) /\ orig.first # 0
          /\ (seen.first = 0 => Untouched(seen))
      BY <1>1, <2>2 DEF SliceInv, Together
    <3> DEFINE more == mb_add + mb_skip
    <3>2. more \in Nat /\ more > 1
      BY <1>2, <2>2
    <3>3. seen' = Decoded(seen, more, sent, nq)
      BY <1>3
    <3> HIDE DEF more
    <3> QED BY <1>1, <1>5, <3>1, <3>2, <3>3, ComeTogether
  <2> QED BY <2>1, <2>2
<1>7. RangeInv'
  BY <1>1, <1>2, <1>3, <1>4 DEF RangeInv
<1>8. Together'
  <2>1. orig.column = seen.column + mb_skip
    BY <1>1 DEF SliceInv, Together
  <2>2. orig'.column = seen'.column + mb_skip'
    BY <1>1, <1>2, <1>3, <1>4, <2>1
  <2> QED BY <1>1, <1>3, <1>4, <1>6, <2>2 DEF Together
<1>9. RowInv'
  <2> SUFFICES ASSUME whole PROVE RowInv'
    BY <1>1 DEF RowInv
  <2>1. /\ seen.first = orig.first /\ orig.column + mb_add = h_offset + 1
        /\ orig.column = seen.column + mb_skip
    BY <1>1 DEF SliceInv, RowInv, Together
  <2>2. seen'.first = orig'.first
    BY <1>1, <1>2, <1>4, <2>1
  <2> QED BY <1>1, <1>3, <2>1, <2>2 DEF RowInv
<1>10. EndInv'
  BY <1>1 DEF EndInv
<1> QED BY <1>1, <1>7, <1>8, <1>9, <1>10 DEF SliceInv

\* It is dropped: a macroblock of a P picture without a vector, not at an end of a row.
LEMMA DropStep ==
    ASSUME SliceInv, NEW modes, NEW q, Read(modes, q),
           "intra" \notin modes, "fwd" \notin modes, picture_coding_type = P, ~AtEdge,
           mb_skip' = SkipMore, seen' = seen, mb'.out = {}
    PROVE  SliceInv'
<1>1. /\ at = "macroblock" /\ Inside /\ at' = "address" /\ Inside'
      /\ HeadersInv'
      /\ h_offset' = h_offset /\ v_offset' = v_offset /\ mb_add' = mb_add
      /\ whole' = whole /\ kept' = kept /\ picture' = picture
      /\ orig' = Decoded(orig, mb_add, modes, q)
      /\ orig'.column = orig.column + mb_add /\ orig'.column \in Nat
      /\ orig'.first \in Nat \ {0}
      /\ orig.first # 0 => orig'.first = orig.first
      /\ ~kept
  BY ReadStep
<1>2. /\ mb_add \in Nat \ {0} /\ mb_skip \in Nat
      /\ h_offset \in 0 .. Width - 1 /\ v_offset \in 0 .. Rows - 1
      /\ seen.column \in Nat /\ seen.first \in Nat /\ orig.column \in Nat /\ orig.first \in Nat
  BY <1>1 DEF SliceInv, RangeInv
<1>3. picture.type = P
  BY <1>1 DEF SliceInv, HeadersInv
<1>4. Untouched(orig')
  BY <1>1, <1>3 DEF Untouched, Decoded
<1>5. mb_skip' = mb_skip + mb_add /\ mb_skip' \in Nat \ {0}
  BY <1>2 DEF SkipMore
<1>6. RangeInv'
  BY <1>1, <1>2, <1>5 DEF RangeInv
<1>7. Together'
  <2>1. orig.column = seen.column + mb_skip /\ (seen.first = 0 => Untouched(seen))
    BY <1>1 DEF SliceInv, Together
  <2>2. orig'.column = seen'.column + mb_skip'
    BY <1>1, <1>2, <1>5, <2>1
  <2>3. seen'.first = 0 => Untouched(seen')
    BY <2>1
  <2> QED BY <1>1, <1>3, <1>4, <1>5, <2>2, <2>3 DEF Together
<1>8. RowInv'
  <2> SUFFICES ASSUME whole PROVE RowInv'
    BY <1>1 DEF RowInv
  <2>1. /\ seen.first = orig.first /\ orig.column + mb_add = h_offset + 1
        /\ (orig.first = 0 => h_offset = 0)
    BY <1>1 DEF SliceInv, RowInv
  <2>2. orig.first # 0 /\ h_offset # Width - 1
    BY <2>1 DEF AtEdge
  <2> QED BY <1>1, <2>1, <2>2 DEF RowInv
<1>9. EndInv'
  BY <1>1 DEF EndInv
<1> QED BY <1>1, <1>6, <1>7, <1>8, <1>9 DEF SliceInv

-------------------------------------------------------------------------------
LEMMA MacroblockStep ==
    ASSUME SliceInv, Macroblock
    PROVE  SliceInv'
<1>1. PICK modes, q, blocks, nq :
        IntraMacroblock(modes, q, blocks, nq) \/ NonIntraMacroblock(modes, q, blocks, nq)
  BY DEF Macroblock
<1>2. CASE IntraMacroblock(modes, q, blocks, nq)
  <2>1. Read(modes, q) /\ Emit(modes, nq)
    BY <1>2 DEF IntraMacroblock
  <2> QED BY <2>1, EmitStep
<1>3. CASE NonIntraMacroblock(modes, q, blocks, nq)
  <2> DEFINE plain == modes \ {"pattern", "quant"}
             back  == plain \cup {"pattern"}
  <2>1. Read(modes, q) /\ "intra" \notin modes
    BY <1>3 DEF NonIntraMacroblock
  <2>2. \A f \in {"intra", "fwd", "bwd"} : (f \in modes <=> f \in plain) /\ (f \in modes <=> f \in back)
    OBVIOUS
  <2>3. \/ Emit(modes, nq)
        \/ Emit(plain, nq)
        \/ Emit(back, q)
        \/ /\ picture_coding_type = P /\ "fwd" \notin modes /\ ~AtEdge
           /\ mb_skip' = SkipMore /\ seen' = seen
           /\ mb' = Pair(modes, q, blocks, nq, {}, NoBlocks)
    BY <1>3 DEF NonIntraMacroblock
  <2> HIDE DEF plain, back
  <2>4. CASE Emit(modes, nq)
    BY <2>1, <2>4, EmitStep
  <2>5. CASE Emit(plain, nq)
    BY <2>1, <2>2, <2>5, EmitStep
  <2>6. CASE Emit(back, q)
    BY <2>1, <2>2, <2>6, EmitStep
  <2>7. CASE /\ picture_coding_type = P /\ "fwd" \notin modes /\ ~AtEdge
             /\ mb_skip' = SkipMore /\ seen' = seen
             /\ mb' = Pair(modes, q, blocks, nq, {}, NoBlocks)
    <3>1. mb'.out = {}
      BY <2>7 DEF Pair
    <3> QED BY <2>1, <2>7, <3>1, DropStep
  <2> QED BY <2>3, <2>4, <2>5, <2>6, <2>7
<1> QED BY <1>1, <1>2, <1>3

\* A slice begins with two fresh decoders; one that is whole, in its row at the left.
LEMMA BeginStep ==
    ASSUME SliceInv, BeginSlice
    PROVE  SliceInv'
<1>1. PICK code, inc, scale, nq :
        /\ code \in 1 .. Rows + 1 /\ inc \in 0 .. Width + 1
        /\ orig' = Fresh(scale) /\ seen' = Fresh(nq)
        /\ whole' = (inc = 1 /\ code <= Rows)
        /\ mb_skip' = 0 /\ mb_add' = inc
        /\ h_offset' = (inc - 1) % Width
        /\ v_offset' = code - 1 + (inc - 1) \div Width
        /\ \/ at' = "flush" /\ sliceError' = TRUE
           \/ inc # 0 /\ at' = "flush" /\ v_offset' > Rows - 1
           \/ inc # 0 /\ at' = "macroblock" /\ ~(v_offset' > Rows - 1)
  <2>1. PICK code \in 1 .. Rows + 1, q \in 0 .. Len(ScaleCodes), inc \in 0 .. Width + 1 :
          \E nq \in NewQuant(ScaleCodes[IF q = 0 THEN 1 ELSE q]) :
            /\ orig' = Fresh(quantizer_scale') /\ seen' = Fresh(nq)
            /\ whole' = (inc = 1 /\ code <= Rows)
            /\ mb_skip' = 0 /\ mb_add' = inc
            /\ h_offset' = (inc - 1) % Width
            /\ v_offset' = code - 1 + (inc - 1) \div Width
            /\ IF inc = 0 THEN Leave(TRUE)
               ELSE IF v_offset' > Rows - 1 THEN Leave(q = 0)
               ELSE IF q = 0 THEN Leave(TRUE)
               ELSE at' = "macroblock" /\ sliceError' = FALSE
    BY DEF BeginSlice
  <2>2. \/ at' = "flush" /\ sliceError' = TRUE
        \/ inc # 0 /\ at' = "flush" /\ v_offset' > Rows - 1
        \/ inc # 0 /\ at' = "macroblock" /\ ~(v_offset' > Rows - 1)
    BY <2>1 DEF Leave
  <2> QED BY <2>1, <2>2
<1>2. /\ validSeqHeader /\ validPicHeader /\ validExtHeader
      /\ UNCHANGED <<validPicHeader, validExtHeader, picture_coding_type, ext, picture>>
      /\ kept' = FALSE
  BY DEF BeginSlice, scanning, headers
<1>3. HeadersInv'
  BY <1>2 DEF SliceInv, HeadersInv
<1>4. Width \in Nat \ {0} /\ Rows \in Nat \ {0}
  BY SliceAssumption
<1>5. inc # 0 => h_offset' \in 0 .. Width - 1 /\ v_offset' \in Nat
  <2> SUFFICES ASSUME inc # 0 PROVE h_offset' \in 0 .. Width - 1 /\ v_offset' \in Nat
    OBVIOUS
  <2> DEFINE x == inc - 1
  <2>1. x \in Nat /\ code - 1 \in Nat
    BY <1>1, <1>4
  <2>2. h_offset' = x % Width /\ v_offset' = code - 1 + x \div Width
    BY <1>1
  <2> HIDE DEF x
  <2> QED BY <2>1, <2>2, <1>4, Remainder
<1>6. whole' => h_offset' = 0 /\ v_offset' = code - 1 /\ code <= Rows /\ mb_add' = 1
  <2> SUFFICES ASSUME inc = 1, code <= Rows
               PROVE  h_offset' = 0 /\ v_offset' = code - 1 /\ mb_add' = 1
    BY <1>1
  <2>1. 0 % Width = 0 /\ 0 \div Width = 0
    BY <1>4, Remainder
  <2> QED BY <1>1, <2>1
<1>7. RangeInv'
  BY <1>1, <1>4, <1>5 DEF RangeInv, Inside, Fresh
<1>8. Together'
  BY <1>1 DEF Together, Inside, Fresh, Untouched
<1>9. RowInv'
  BY <1>1, <1>6 DEF RowInv, Inside, Fresh
<1>10. EndInv'
  <2>1. whole' /\ at' = "flush" => sliceError'
    BY <1>1, <1>4, <1>6
  <2>2. at' \in {"flush", "macroblock"} /\ ~kept'
    BY <1>1, <1>2
  <2> QED BY <2>1, <2>2 DEF EndInv
<1> QED BY <1>3, <1>7, <1>8, <1>9, <1>10 DEF SliceInv

\* The address of the next macroblock goes on in the row, or the slice is not whole.
LEMMA AddressStep ==
    ASSUME SliceInv, NextAddress
    PROVE  SliceInv'
<1>1. PICK inc \in 1 .. Width + 1 :
        /\ mb_add' = inc
        /\ h_offset' = (h_offset + inc) % Width
        /\ v_offset' = v_offset + (h_offset + inc) \div Width
        /\ whole' = (whole /\ h_offset + inc < Width)
        /\ \/ at' = "flush" /\ v_offset' > Rows - 1
           \/ at' = "macroblock" /\ ~(v_offset' > Rows - 1)
  BY DEF NextAddress, Leave
<1>2. /\ at = "address" /\ Inside
      /\ UNCHANGED <<validPicHeader, validExtHeader, picture_coding_type, ext, picture>>
      /\ UNCHANGED <<mb_skip, orig, seen, kept>>
  BY DEF NextAddress, InSlice, scanning, headers, Inside
<1>3. HeadersInv'
  BY <1>1, <1>2 DEF SliceInv, HeadersInv
<1>4. /\ Width \in Nat \ {0} /\ Rows \in Nat \ {0}
      /\ h_offset \in 0 .. Width - 1 /\ v_offset \in 0 .. Rows - 1
  BY <1>2, SliceAssumption DEF SliceInv, RangeInv
<1> DEFINE x == h_offset + inc
<1>5. /\ x \in Nat /\ h_offset' = x % Width /\ v_offset' = v_offset + x \div Width
      /\ whole' = (whole /\ x < Width)
  BY <1>1, <1>4
<1>6. h_offset' \in 0 .. Width - 1 /\ v_offset' \in Nat
  <2> HIDE DEF x
  <2>1. x % Width \in 0 .. Width - 1 /\ x \div Width \in Nat
    BY <1>5, Remainder
  <2> QED BY <1>4, <1>5, <2>1
<1>7. whole' => whole /\ h_offset' = x /\ v_offset' = v_offset
  <2> HIDE DEF x
  <2>1. x < Width => x % Width = x /\ x \div Width = 0
    BY <1>5, Remainder
  <2>2. v_offset + 0 = v_offset
    BY <1>4
  <2> QED BY <1>5, <2>1, <2>2
<1>8. RangeInv'
  BY <1>1, <1>2, <1>4, <1>6 DEF SliceInv, RangeInv, Inside
<1>9. Together'
  BY <1>1, <1>2 DEF SliceInv, Together, Inside, Untouched
<1>10. RowInv'
  <2> SUFFICES ASSUME whole', Inside' PROVE RowInv'
    BY DEF RowInv
  <2>1. orig.column = h_offset + 1 /\ orig.first # 0 /\ seen.first = orig.first
    BY <1>2, <1>7 DEF SliceInv, RowInv, Together
  <2>2. at' = "macroblock"
    BY <1>1 DEF Inside
  <2>3. orig.column + inc = h_offset' + 1
    BY <1>4, <1>7, <2>1
  <2> QED BY <1>1, <1>2, <2>1, <2>2, <2>3 DEF RowInv
<1>11. EndInv'
  <2>1. whole' => at' # "flush"
    BY <1>1, <1>4, <1>7
  <2>2. at' # "ended" /\ ~kept'
    BY <1>1, <1>2 DEF SliceInv, EndInv
  <2> QED BY <2>1, <2>2 DEF EndInv
<1> QED BY <1>3, <1>8, <1>9, <1>10, <1>11 DEF SliceInv

\* A slice that ends, at the end of a row or with an error, leaves nothing pending.
LEMMA EndStep ==
    ASSUME SliceInv, PictureEnds \/ SliceEnds \/ BadCode
    PROVE  SliceInv'
<1>1. /\ at \in {"macroblock", "address"} /\ Inside /\ at' = "flush"
      /\ UNCHANGED <<validPicHeader, validExtHeader, picture_coding_type, ext, picture>>
      /\ UNCHANGED <<mb_skip, orig, seen, kept, whole>>
  BY DEF PictureEnds, SliceEnds, BadCode, InSlice, Leave, scanning, headers, Inside
<1>2. (at = "address" /\ h_offset = Width - 1) \/ sliceError'
  <2>1. CASE PictureEnds
    BY <2>1 DEF PictureEnds, LastOfPicture
  <2>2. CASE SliceEnds
    BY <2>2 DEF SliceEnds, Leave
  <2>3. CASE BadCode
    BY <2>3 DEF BadCode, Leave
  <2> QED BY <2>1, <2>2, <2>3
<1>3. HeadersInv'
  BY <1>1 DEF SliceInv, HeadersInv
<1>4. RangeInv' /\ Together' /\ RowInv'
  BY <1>1 DEF RangeInv, Together, RowInv, Inside
<1>5. whole /\ at = "address" /\ h_offset = Width - 1 =>
        mb_skip = 0 /\ seen.first = orig.first /\ seen.column = orig.column
  <2> SUFFICES ASSUME whole, at = "address", h_offset = Width - 1
               PROVE  mb_skip = 0 /\ seen.first = orig.first /\ seen.column = orig.column
    OBVIOUS
  <2>1. mb_skip = 0 /\ seen.first = orig.first
    BY <1>1 DEF SliceInv, RowInv
  <2>2. orig.column = seen.column + mb_skip /\ seen.column \in Nat
    BY <1>1 DEF SliceInv, Together, RangeInv
  <2> QED BY <2>1, <2>2
<1>6. EndInv'
  <2>1. ~kept'
    BY <1>1 DEF SliceInv, EndInv
  <2> QED BY <1>1, <1>2, <1>5, <2>1 DEF EndInv
<1> QED BY <1>3, <1>4, <1>6 DEF SliceInv

LEMMA EndSliceStep ==
    ASSUME SliceInv, EndSlice
    PROVE  SliceInv'
<1>1. kept' => ~sliceError
  BY DEF EndSlice
<1>2. /\ at = "flush" /\ at' = "ended"
      /\ UNCHANGED <<validPicHeader, validExtHeader, picture_coding_type, ext, picture>>
      /\ UNCHANGED <<mb_skip, orig, seen, whole, sliceError>>
  BY DEF EndSlice, scanning, headers, slice
<1>3. HeadersInv'
  BY <1>2 DEF SliceInv, HeadersInv
<1>4. RangeInv' /\ Together' /\ RowInv'
  BY <1>2 DEF RangeInv, Together, RowInv, Inside
<1>5. EndInv'
  BY <1>1, <1>2 DEF SliceInv, EndInv
<1> QED BY <1>3, <1>4, <1>5 DEF SliceInv

\* Between slices only the headers change.
LEMMA ScanStep ==
    ASSUME SliceInv,
           FillTables \/ Request \/ Search \/ SequenceHeader \/ PictureHeader \/ PictureExtension
    PROVE  SliceInv'
<1>1. at' \in {"idle", "scan"}
  BY DEF FillTables, Request, Search, SequenceHeader, PictureHeader, PictureExtension, Scanned
<1>2. ~kept'
  <2>1. CASE Search
    BY <2>1 DEF Search
  <2>2. CASE FillTables \/ Request \/ SequenceHeader \/ PictureHeader \/ PictureExtension
    <3>1. at # "ended" /\ kept' = kept
      BY <2>2 DEF FillTables, Request, SequenceHeader, PictureHeader, PictureExtension, Scanned
    <3> QED BY <3>1 DEF SliceInv, EndInv
  <2> QED BY <2>1, <2>2
<1>3. HeadersInv'
  <2>1. CASE FillTables \/ Request \/ Search
    <3>1. UNCHANGED <<validPicHeader, validExtHeader, picture_coding_type, ext, picture>>
      BY <2>1 DEF FillTables, Request, Search, scanning, headers
    <3> QED BY <1>1, <3>1 DEF SliceInv, HeadersInv
  <2>2. CASE SequenceHeader
    BY <1>1, <2>2 DEF SequenceHeader, HeadersInv
  <2>3. CASE PictureHeader
    BY <1>1, <2>3 DEF PictureHeader, HeadersInv, ExtAfterPicture
  <2>4. CASE PictureExtension
    BY <1>1, <2>4 DEF PictureExtension, SliceInv, HeadersInv
  <2> QED BY <2>1, <2>2, <2>3, <2>4
<1>4. RangeInv' /\ Together' /\ RowInv' /\ EndInv'
  BY <1>1, <1>2 DEF RangeInv, Together, RowInv, EndInv, Inside
<1> QED BY <1>3, <1>4 DEF SliceInv

-------------------------------------------------------------------------------
LEMMA SliceInvariance == SliceSpec => []SliceInv
<1>1. SliceInit => SliceInv
  BY DEF SliceInit, SliceInv, HeadersInv, RangeInv, Together, RowInv, EndInv, Inside
<1>2. SliceInv /\ [SliceNext]_sliceVars => SliceInv'
  <2> SUFFICES ASSUME SliceInv, [SliceNext]_sliceVars PROVE SliceInv'
    OBVIOUS
  <2>1. CASE UNCHANGED sliceVars
    BY <2>1 DEF sliceVars, scanning, headers, slice, SliceInv, HeadersInv, RangeInv, Together, RowInv,
                EndInv, Inside
  <2> QED BY <2>1, MacroblockStep, BeginStep, AddressStep, EndStep, EndSliceStep, ScanStep
          DEF SliceNext
<1> QED BY <1>1, <1>2, PTL DEF SliceSpec

\* For every size of picture, every table of scales and every macroblock: when a
\* macroblock is written the decoder of the recoded slice is in the same place and has
\* the same vector and DC predictors as that of the original (requant.c, mb_skip).
THEOREM SamePredictions == SliceSpec => []SamePrediction
<1>1. SliceInv => SamePrediction
  <2> SUFFICES ASSUME SliceInv, at = "address", mb.out # {}
               PROVE  seen.column = orig.column /\ seen.mv = orig.mv /\ seen.dc = orig.dc
    BY DEF SamePrediction
  <2>1. mb_skip = 0 /\ seen.mv = orig.mv /\ seen.dc = orig.dc
    BY DEF SliceInv, Together, Inside
  <2>2. orig.column = seen.column + mb_skip /\ seen.column \in Nat
    BY DEF SliceInv, Together, RangeInv, Inside
  <2> QED BY <2>1, <2>2
<1> QED BY <1>1, SliceInvariance, PTL

\* For every width of picture: a recoded slice that is kept, begins at the left and stays
\* in its row, has the same first and last macroblock as the original, as those at the
\* ends of a row are never dropped (requant.c, mb_sav_lev).
THEOREM SlicesAreWhole == SliceSpec => []WholeSlice
<1>1. SliceInv => WholeSlice
  BY DEF SliceInv, EndInv, WholeSlice
<1> QED BY <1>1, SliceInvariance, PTL

\* Whatever the order of the headers, a slice is recoded by the type and the extension of
\* its own picture (requant.c, validPicHeader and validExtHeader).
THEOREM HeadersAreOwn == SliceSpec => []OwnHeaders
<1>1. SliceInv => OwnHeaders
  BY DEF SliceInv, HeadersInv, OwnHeaders
<1> QED BY <1>1, SliceInvariance, PTL

-------------------------------------------------------------------------------
(***************************************************************************)
(* Blocks: Recoded                                                         *)
(*                                                                         *)
(* The places of a block rise, so that a coefficient is found at its own,  *)
(* and a list that leaves some of them out and tells each one's distance   *)
(* from the last that stays puts those that stay where they were.          *)
(***************************************************************************)
LEMMA SetInduction ==
    ASSUME NEW S, 0 \in S, \A n \in Nat : n \in S => n + 1 \in S
    PROVE  Nat \subseteq S
<1> DEFINE T == Nat \ S
           R == {ss \in Nat \X Nat : ss[1] < ss[2]}
<1>1. IsWellFoundedOn(R, Nat)
  BY NatLessThanWellFounded DEF OpToRel
<1> SUFFICES ASSUME T # {} PROVE FALSE
  OBVIOUS
<1>2. PICK x \in T : \A y \in T : ~ (<<y, x>> \in R)
  <2> HIDE DEF R
  <2> QED BY <1>1, WFMin
<1>3. x # 0 /\ x - 1 \in Nat
  OBVIOUS
<1>4. <<x - 1, x>> \in R
  BY <1>3
<1>5. x - 1 \notin T
  BY <1>2, <1>4
<1>6. (x - 1) + 1 \in S
  BY <1>3, <1>5
<1> QED BY <1>6

LEMMA Least ==
    ASSUME NEW S \in SUBSET Nat, S # {}
    PROVE  \E b \in S : \A c \in S : b <= c
<1> DEFINE R == {ss \in Nat \X Nat : ss[1] < ss[2]}
<1>1. IsWellFoundedOn(R, Nat)
  BY NatLessThanWellFounded DEF OpToRel
<1>2. PICK x \in S : \A y \in S : ~ (<<y, x>> \in R)
  <2> HIDE DEF R
  <2> QED BY <1>1, WFMin
<1>3. \A y \in S : ~ (y < x)
  BY <1>2
<1> QED BY <1>3

\* g[k] is made of g[k - 1], from base on.
ChainOf(step, origin, n, g) ==
    /\ g[0] = origin
    /\ \A u \in 1 .. n : g[u] = step[u][g[u - 1]]

LEMMA ChainExists ==
    ASSUME NEW V, NEW origin \in V, NEW n \in Nat, NEW step \in [1 .. n -> [V -> V]]
    PROVE  \E g \in [0 .. n -> V] : ChainOf(step, origin, n, g)
<1> DEFINE S == {m \in Nat : m <= n => \E g \in [0 .. m -> V] : ChainOf(step, origin, m, g)}
<1>1. 0 \in S
  <2> DEFINE g == [i \in 0 .. 0 |-> origin]
  <2>1. g \in [0 .. 0 -> V] /\ g[0] = origin
    OBVIOUS
  <2> HIDE DEF g
  <2>2. ChainOf(step, origin, 0, g)
    BY <2>1 DEF ChainOf
  <2> QED BY <2>1, <2>2
<1>2. ASSUME NEW m \in Nat, m \in S PROVE m + 1 \in S
  <2> SUFFICES ASSUME m + 1 <= n
               PROVE  \E g \in [0 .. m + 1 -> V] : ChainOf(step, origin, m + 1, g)
    OBVIOUS
  <2>1. PICK f \in [0 .. m -> V] : ChainOf(step, origin, m, f)
    BY <1>2
  <2>2. f[0] = origin /\ \A u \in 1 .. m : f[u] = step[u][f[u - 1]]
    BY <2>1 DEF ChainOf
  <2> DEFINE g == [i \in 0 .. m + 1 |-> IF i = m + 1 THEN step[m + 1][f[m]] ELSE f[i]]
  <2>3. g \in [0 .. m + 1 -> V]
    <3>1. m + 1 \in 1 .. n /\ f[m] \in V
      BY <2>1
    <3>2. step[m + 1] \in [V -> V]
      BY <3>1
    <3>3. step[m + 1][f[m]] \in V
      BY <3>1, <3>2
    <3>4. \A i \in 0 .. m + 1 : i # m + 1 => i \in 0 .. m /\ f[i] \in V
      BY <2>1
    <3> QED BY <3>3, <3>4
  <2>4. g[0] = origin
    BY <2>2
  <2>5. ASSUME NEW u \in 1 .. m + 1 PROVE g[u] = step[u][g[u - 1]]
    <3>1. CASE u = m + 1
      <4>1. g[u] = step[m + 1][f[m]] /\ u - 1 = m /\ g[m] = f[m]
        BY <3>1
      <4> QED BY <3>1, <4>1
    <3>2. CASE u # m + 1
      <4>1. u \in 1 .. m /\ u - 1 \in 0 .. m /\ u - 1 # m + 1
        BY <3>2
      <4>2. g[u] = f[u] /\ g[u - 1] = f[u - 1]
        BY <3>2, <4>1
      <4> QED BY <2>2, <4>1, <4>2
    <3> QED BY <3>1, <3>2
  <2> HIDE DEF g
  <2>6. ChainOf(step, origin, m + 1, g)
    BY <2>4, <2>5 DEF ChainOf
  <2> QED BY <2>3, <2>6
<1> HIDE DEF S
<1>3. n \in S
  BY <1>1, <1>2, SetInduction
<1> QED BY <1>3 DEF S

Codes == Seq([run : Nat, level : Int])

LEMMA CodeOf ==
    ASSUME NEW blk \in Codes, NEW u \in 1 .. Len(blk)
    PROVE  /\ Len(blk) \in Nat
           /\ blk[u].run \in Nat /\ blk[u].level \in Int
<1>1. blk[u] \in [run : Nat, level : Int]
  BY ElementOfSeq DEF Codes
<1> QED BY <1>1 DEF Codes

\* Where a block stands behind its first k codes.
Behind(blk, from, u) == IF u = 0 THEN from ELSE Places(blk, from)[u]

LEMMA PlacesOf ==
    ASSUME NEW blk \in Codes, NEW from \in Int
    PROVE  /\ Len(blk) \in Nat
           /\ Places(blk, from) \in [1 .. Len(blk) -> Int]
           /\ \A u \in 1 .. Len(blk) :
                 Behind(blk, from, u) = Behind(blk, from, u - 1) + blk[u].run + 1
<1> DEFINE n == Len(blk)
           p == CHOOSE p : p = [u \in 0 .. n |-> IF u = 0 THEN from ELSE p[u - 1] + blk[u].run + 1]
           step == [u \in 1 .. n |-> [v \in Int |-> v + blk[u].run + 1]]
<1>0. n \in Nat
  BY DEF Codes
<1>1. step \in [1 .. n -> [Int -> Int]]
  BY CodeOf
<1>2. PICK g \in [0 .. n -> Int] : ChainOf(step, from, n, g)
  <2> HIDE DEF step, n
  <2> QED BY <1>0, <1>1, ChainExists
<1>3. g[0] = from /\ \A u \in 1 .. n : g[u] = g[u - 1] + blk[u].run + 1
  <2>1. g[0] = from /\ \A u \in 1 .. n : g[u] = step[u][g[u - 1]]
    BY <1>2 DEF ChainOf
  <2>2. \A u \in 1 .. n : g[u - 1] \in Int
    BY <1>0
  <2> HIDE DEF n
  <2> QED BY <2>1, <2>2
<1>4. g = [u \in 0 .. n |-> IF u = 0 THEN from ELSE g[u - 1] + blk[u].run + 1]
  <2> DEFINE h == [u \in 0 .. n |-> IF u = 0 THEN from ELSE g[u - 1] + blk[u].run + 1]
  <2>1. \A u \in 0 .. n : g[u] = h[u]
    <3>1. \A u \in 0 .. n : u # 0 => u \in 1 .. n
      BY <1>0
    <3> HIDE DEF n
    <3> QED BY <1>3, <3>1
  <2> HIDE DEF n
  <2> QED BY <2>1
<1>5. p = [u \in 0 .. n |-> IF u = 0 THEN from ELSE p[u - 1] + blk[u].run + 1]
  <2> HIDE DEF n, step
  <2> QED BY <1>4
<1>6. Places(blk, from) = [u \in 1 .. n |-> p[u]]
  BY DEF Places
<1> HIDE DEF p, n
<1>7. p[0] = from /\ \A u \in 1 .. n : p[u] = p[u - 1] + blk[u].run + 1
  <2>1. 0 \in 0 .. n /\ \A u \in 1 .. n : u \in 0 .. n /\ u # 0
    BY <1>0
  <2> QED BY <1>5, <2>1
<1>8. p \in [0 .. n -> Int]
  <2> DEFINE S == {m \in Nat : m <= n => p[m] \in Int}
  <2>1. 0 \in S
    BY <1>7
  <2>2. ASSUME NEW m \in Nat, m \in S PROVE m + 1 \in S
    <3> SUFFICES ASSUME m + 1 <= n PROVE p[m + 1] \in Int
      OBVIOUS
    <3>1. m + 1 \in 1 .. n /\ (m + 1) - 1 = m
      BY <1>0
    <3>2. blk[m + 1].run \in Nat
      BY <3>1, CodeOf DEF n
    <3>3. p[m] \in Int
      BY <1>0, <2>2
    <3>4. p[m + 1] = p[(m + 1) - 1] + blk[m + 1].run + 1
      BY <1>7, <3>1
    <3> QED BY <3>1, <3>2, <3>3, <3>4
  <2> HIDE DEF S
  <2>3. Nat \subseteq S
    BY <2>1, <2>2, SetInduction
  <2>4. \A m \in 0 .. n : p[m] \in Int
    BY <1>0, <2>3 DEF S
  <2> QED BY <1>5, <2>4
<1>9. \A u \in 0 .. n : Behind(blk, from, u) = p[u]
  <2>1. \A u \in 0 .. n : u # 0 => u \in 1 .. n
    BY <1>0
  <2> QED BY <1>6, <1>7, <2>1 DEF Behind
<1>10. \A u \in 1 .. n : u \in 0 .. n /\ u - 1 \in 0 .. n
  BY <1>0
<1> QED BY <1>0, <1>6, <1>7, <1>8, <1>9, <1>10 DEF n

\* Codes stand behind each other.
LEMMA PlacesRise ==
    ASSUME NEW blk \in Codes, NEW from \in Int,
           NEW i \in 0 .. Len(blk), NEW j \in 0 .. Len(blk), i < j
    PROVE  /\ Behind(blk, from, i) \in Int /\ Behind(blk, from, j) \in Int
           /\ Behind(blk, from, i) < Behind(blk, from, j)
<1> DEFINE n == Len(blk)
           b == [u \in 0 .. n |-> Behind(blk, from, u)]
<1>0. n \in Nat
  BY PlacesOf
<1>1. \A u \in 0 .. n : b[u] \in Int
  BY PlacesOf DEF Behind
<1>2. \A u \in 1 .. n : blk[u].run \in Nat /\ b[u] = b[u - 1] + blk[u].run + 1
  <2>1. \A u \in 1 .. n : u \in 0 .. n /\ u - 1 \in 0 .. n
    BY <1>0
  <2> QED BY <2>1, PlacesOf, CodeOf
<1> DEFINE S == {m \in Nat : i + m + 1 <= n => b[i] < b[i + m + 1]}
<1> HIDE DEF b, n
<1>i. i \in 0 .. n /\ j \in 0 .. n
  BY DEF n
<1>3. \A u \in 1 .. n : b[u - 1] < b[u]
  <2> SUFFICES ASSUME NEW u \in 1 .. n PROVE b[u - 1] < b[u]
    OBVIOUS
  <2>1. b[u] \in Int /\ b[u - 1] \in Int /\ blk[u].run \in Nat /\ b[u] = b[u - 1] + blk[u].run + 1
    BY <1>0, <1>1, <1>2
  <2> QED BY <2>1
<1>4. 0 \in S
  <2> SUFFICES ASSUME i + 1 <= n PROVE b[i] < b[i + 1]
    BY <1>0, <1>i
  <2>1. i + 1 \in 1 .. n /\ (i + 1) - 1 = i
    BY <1>0, <1>i
  <2> QED BY <1>3, <2>1
<1>5. ASSUME NEW m \in Nat, m \in S PROVE m + 1 \in S
  <2> SUFFICES ASSUME i + (m + 1) + 1 <= n PROVE b[i] < b[i + (m + 1) + 1]
    OBVIOUS
  <2>1. i + (m + 1) + 1 \in 1 .. n /\ (i + (m + 1) + 1) - 1 = i + m + 1
    BY <1>0, <1>i
  <2>2. b[i + m + 1] < b[i + (m + 1) + 1] /\ b[i] < b[i + m + 1]
    BY <1>0, <1>3, <1>5, <1>i, <2>1
  <2>3. b[i] \in Int /\ b[i + m + 1] \in Int /\ b[i + (m + 1) + 1] \in Int
    BY <1>0, <1>1, <1>i, <2>1
  <2> QED BY <2>2, <2>3
<1> HIDE DEF S
<1>6. j - i - 1 \in S
  BY <1>0, <1>i, <1>4, <1>5, SetInduction
<1>7. i + (j - i - 1) + 1 = j
  BY <1>0, <1>i
<1>8. b[i] < b[j]
  BY <1>0, <1>i, <1>6, <1>7 DEF S
<1> QED BY <1>1, <1>8, <1>i DEF b, n

\* A decoder finds a coefficient where its code stands, and 0 elsewhere.
LEMMA ValueOf ==
    ASSUME NEW blk \in Codes, NEW from \in Int, NEW scale, NEW p
    PROVE  /\ \A u \in 1 .. Len(blk) :
                 Behind(blk, from, u) = p => Value(blk, from, scale, p) = scale * blk[u].level
           /\ (\A u \in 1 .. Len(blk) : Behind(blk, from, u) # p) =>
                 Value(blk, from, scale, p) = 0
<1> DEFINE hit == {u \in 1 .. Len(blk) : Places(blk, from)[u] = p}
<1>0. Len(blk) \in Nat
  BY PlacesOf
<1>1. Value(blk, from, scale, p) =
        IF hit = {} THEN 0 ELSE scale * blk[CHOOSE u \in hit : TRUE].level
  BY DEF Value
<1>2. \A u \in 1 .. Len(blk) : Behind(blk, from, u) = Places(blk, from)[u]
  BY <1>0 DEF Behind
<1>3. ASSUME NEW u \in 1 .. Len(blk), Behind(blk, from, u) = p
      PROVE  Value(blk, from, scale, p) = scale * blk[u].level
  <2>1. u \in hit
    BY <1>2, <1>3
  <2>2. \A l \in hit : l = u
    <3> SUFFICES ASSUME NEW l \in 1 .. Len(blk), Behind(blk, from, l) = p, l # u
                 PROVE  FALSE
      BY <1>2
    <3>1. u \in 0 .. Len(blk) /\ l \in 0 .. Len(blk)
      BY <1>0
    <3>2. u < l \/ l < u
      BY <1>0
    <3>3. u < l => Behind(blk, from, u) \in Int /\ Behind(blk, from, u) < Behind(blk, from, l)
      BY <3>1, PlacesRise
    <3>4. l < u => Behind(blk, from, l) \in Int /\ Behind(blk, from, l) < Behind(blk, from, u)
      BY <3>1, PlacesRise
    <3> QED BY <1>3, <3>2, <3>3, <3>4
  <2> HIDE DEF hit
  <2>3. (CHOOSE l \in hit : TRUE) = u
    BY <2>1, <2>2
  <2> QED BY <1>1, <2>1, <2>3
<1>4. ASSUME \A u \in 1 .. Len(blk) : Behind(blk, from, u) # p
      PROVE  Value(blk, from, scale, p) = 0
  <2>1. hit = {}
    BY <1>2, <1>4
  <2> QED BY <1>1, <2>1
<1> QED BY <1>3, <1>4

\* s lists the numbers from 1 to n of which keep is true.
Lists(s, n, keep) ==
    /\ s \in Seq(1 .. n)
    /\ \A i, j \in 1 .. Len(s) : i < j => s[i] < s[j]
    /\ \A u \in 1 .. n : keep[u] <=> \E j \in 1 .. Len(s) : s[j] = u

LEMMA ListGrows ==
    ASSUME NEW m \in Nat, NEW s, NEW keep, NEW t, Lists(s, m, keep),
           t = IF keep[m + 1] THEN Append(s, m + 1) ELSE s
    PROVE  Lists(t, m + 1, keep)
<1>1. /\ s \in Seq(1 .. m) /\ Len(s) \in Nat
      /\ \A i \in 1 .. Len(s) : s[i] \in 1 .. m
  BY ElementOfSeq DEF Lists
<1>2. s \in Seq(1 .. m + 1)
  BY <1>1
<1>3. \A u \in 1 .. m + 1 : u # m + 1 => u \in 1 .. m
  OBVIOUS
<1>4. CASE ~keep[m + 1]
  <2>1. \A u \in 1 .. m + 1 : keep[u] <=> \E j \in 1 .. Len(s) : s[j] = u
    BY <1>1, <1>3, <1>4 DEF Lists
  <2> QED BY <1>2, <1>4, <2>1 DEF Lists
<1>5. CASE keep[m + 1]
  <2>1. m + 1 \in 1 .. m + 1 /\ t = Append(s, m + 1)
    BY <1>5
  <2>2. /\ t \in Seq(1 .. m + 1) /\ Len(t) = Len(s) + 1
        /\ \A i \in 1 .. Len(s) : t[i] = s[i]
        /\ t[Len(s) + 1] = m + 1
    <3> DEFINE N == 1 .. m + 1
    <3>1. s \in Seq(N) /\ m + 1 \in N
      BY <1>2, <2>1
    <3> HIDE DEF N
    <3>2. /\ Append(s, m + 1) \in Seq(N) /\ Len(Append(s, m + 1)) = Len(s) + 1
          /\ \A i \in 1 .. Len(s) : Append(s, m + 1)[i] = s[i]
          /\ Append(s, m + 1)[Len(s) + 1] = m + 1
      BY <3>1, AppendProperties
    <3> QED BY <2>1, <3>2 DEF N
  <2>3. \A i, j \in 1 .. Len(t) : i < j => t[i] < t[j]
    <3> SUFFICES ASSUME NEW i \in 1 .. Len(t), NEW j \in 1 .. Len(t), i < j
                 PROVE  t[i] < t[j]
      OBVIOUS
    <3>1. i \in 1 .. Len(s) /\ (j = Len(s) + 1 \/ j \in 1 .. Len(s))
      BY <1>1, <2>2
    <3>2. CASE j = Len(s) + 1
      BY <1>1, <2>2, <3>1, <3>2
    <3>3. CASE j \in 1 .. Len(s)
      BY <2>2, <3>1, <3>3 DEF Lists
    <3> QED BY <3>1, <3>2, <3>3
  <2>4. ASSUME NEW u \in 1 .. m + 1 PROVE keep[u] <=> \E j \in 1 .. Len(t) : t[j] = u
    <3>1. CASE u = m + 1
      <4>1. Len(s) + 1 \in 1 .. Len(t)
        BY <1>1, <2>2
      <4> QED BY <1>5, <2>2, <3>1, <4>1
    <3>2. CASE u # m + 1
      <4>1. u \in 1 .. m
        BY <1>3, <3>2
      <4>2. keep[u] <=> \E j \in 1 .. Len(s) : s[j] = u
        BY <4>1 DEF Lists
      <4>3. \A j \in 1 .. Len(t) : j = Len(s) + 1 \/ j \in 1 .. Len(s)
        BY <1>1, <2>2
      <4>4. \A j \in 1 .. Len(s) : j \in 1 .. Len(t)
        BY <1>1, <2>2
      <4> QED BY <2>2, <3>2, <4>2, <4>3, <4>4
    <3> QED BY <3>1, <3>2
  <2> QED BY <2>2, <2>3, <2>4 DEF Lists
<1> QED BY <1>4, <1>5

LEMMA StayingOf ==
    ASSUME NEW blk \in Codes, NEW q, NEW nq
    PROVE  Lists(Staying(blk, q, nq), Len(blk),
                 [u \in 1 .. Len(blk) |-> Table(blk[u].level, q, nq) # 0])
<1> DEFINE n    == Len(blk)
           keep == [u \in 1 .. n |-> Table(blk[u].level, q, nq) # 0]
           stay == CHOOSE stay : stay =
                     [u \in 0 .. n |-> IF u = 0 THEN <<>>
                                       ELSE IF Table(blk[u].level, q, nq) # 0
                                            THEN Append(stay[u - 1], u) ELSE stay[u - 1]]
           step == [u \in 1 .. n |-> [s \in Seq(Nat) |-> IF keep[u] THEN Append(s, u) ELSE s]]
<1>0. n \in Nat
  BY DEF Codes
<1>1. step \in [1 .. n -> [Seq(Nat) -> Seq(Nat)]]
  <2> HIDE DEF n, keep
  <2>1. \A u \in 1 .. n, s \in Seq(Nat) : Append(s, u) \in Seq(Nat)
    BY <1>0
  <2> QED BY <2>1
<1>2. PICK g \in [0 .. n -> Seq(Nat)] : ChainOf(step, <<>>, n, g)
  <2>1. <<>> \in Seq(Nat)
    OBVIOUS
  <2> HIDE DEF step, n
  <2> QED BY <1>0, <1>1, <2>1, ChainExists
<1>3. g[0] = <<>> /\ \A u \in 1 .. n : g[u] = IF keep[u] THEN Append(g[u - 1], u) ELSE g[u - 1]
  <2>1. g[0] = <<>> /\ \A u \in 1 .. n : g[u] = step[u][g[u - 1]]
    BY <1>2 DEF ChainOf
  <2>2. \A u \in 1 .. n : g[u - 1] \in Seq(Nat)
    BY <1>0
  <2> HIDE DEF n, keep
  <2> QED BY <2>1, <2>2
<1>4. g = [u \in 0 .. n |-> IF u = 0 THEN <<>>
                            ELSE IF Table(blk[u].level, q, nq) # 0
                                 THEN Append(g[u - 1], u) ELSE g[u - 1]]
  <2>1. \A u \in 0 .. n : u # 0 => u \in 1 .. n
    BY <1>0
  <2>2. \A u \in 1 .. n : keep[u] <=> Table(blk[u].level, q, nq) # 0
    OBVIOUS
  <2> HIDE DEF n, keep
  <2> QED BY <1>3, <2>1, <2>2
<1>5. stay = [u \in 0 .. n |-> IF u = 0 THEN <<>>
                               ELSE IF Table(blk[u].level, q, nq) # 0
                                    THEN Append(stay[u - 1], u) ELSE stay[u - 1]]
  <2> HIDE DEF n, step, keep
  <2> QED BY <1>4
<1>6. Staying(blk, q, nq) = stay[n]
  BY DEF Staying
<1>7. \A u \in 1 .. n : keep[u] <=> Table(blk[u].level, q, nq) # 0
  OBVIOUS
<1> HIDE DEF stay, n, keep, step
<1>8. stay[0] = <<>> /\ \A u \in 1 .. n : stay[u] = IF keep[u] THEN Append(stay[u - 1], u) ELSE stay[u - 1]
  <2>1. 0 \in 0 .. n /\ \A u \in 1 .. n : u \in 0 .. n /\ u # 0
    BY <1>0
  <2> QED BY <1>5, <1>7, <2>1
<1> DEFINE S == {m \in Nat : m <= n => Lists(stay[m], m, keep)}
<1>9. 0 \in S
  <2>1. Len(<<>>) = 0 /\ <<>> \in Seq(1 .. 0)
    OBVIOUS
  <2>2. Lists(<<>>, 0, keep)
    BY <2>1 DEF Lists
  <2> QED BY <1>8, <2>2
<1>10. ASSUME NEW m \in Nat, m \in S PROVE m + 1 \in S
  <2> SUFFICES ASSUME m + 1 <= n PROVE Lists(stay[m + 1], m + 1, keep)
    OBVIOUS
  <2>1. m + 1 \in 1 .. n /\ (m + 1) - 1 = m /\ m <= n
    BY <1>0
  <2>2. stay[m + 1] = IF keep[m + 1] THEN Append(stay[m], m + 1) ELSE stay[m]
    BY <1>8, <2>1
  <2> QED BY <1>10, <2>1, <2>2, ListGrows
<1> HIDE DEF S
<1>11. n \in S
  BY <1>0, <1>9, <1>10, SetInduction
<1>12. Lists(stay[n], n, keep)
  BY <1>0, <1>11 DEF S
<1> QED BY <1>6, <1>12 DEF n, keep

-------------------------------------------------------------------------------
\* As near as the tables promise: by half a step at most, or by less than a whole one.
Near(x, y, tried) == IF tables = "nearest" THEN 2 * Abs(x - y) <= tried ELSE Abs(x - y) < tried

LEMMA Quotient ==
    ASSUME NEW v \in Nat, NEW n \in Nat \ {0}
    PROVE  /\ v \div n \in Nat /\ (v \div n) * n \in Nat
           /\ (v \div n) * n <= v /\ v < (v \div n) * n + n
           /\ (v \div n + 1) * n = (v \div n) * n + n
OBVIOUS

LEMMA Negated ==
    ASSUME NEW a \in Int, NEW b \in Int
    PROVE  /\ a * b = b * a /\ a * b \in Int
           /\ a * (-b) = -(a * b) /\ (-a) * b = -(a * b)
OBVIOUS

LEMMA NearNumbers ==
    ASSUME NEW x \in Int, NEW y \in Int, NEW tried \in Int
    PROVE  /\ Near(x, y, tried) <=> Near(-x, -y, tried)
           /\ tried > 0 => Near(x, x, tried)
           /\ (x <= y /\ y - x < tried /\ (tables = "nearest" => 2 * (y - x) <= tried)) =>
                 Near(x, y, tried) /\ Near(y, x, tried)
BY DEF Near, Abs

LEMMA TableNear ==
    ASSUME NEW level \in Int, NEW q \in Nat \ {0}, NEW nq \in Nat \ {0}
    PROVE  /\ Table(level, q, nq) \in Int
           /\ Near(q * level, nq * Table(level, q, nq), nq)
<1>1. CASE q = nq
  <2>1. q * level \in Int /\ Table(level, q, nq) = level
    BY <1>1 DEF Table
  <2> QED BY <1>1, <2>1, NearNumbers
<1>2. CASE q # nq
  <2> DEFINE v == Abs(level) * q
             t == v \div nq
             up == tables = "nearest" /\ (t + 1) * nq - v < v - t * nq
             r == IF up THEN t + 1 ELSE t
  <2>1. /\ Abs(level) \in Nat
        /\ level < 0 => level = -Abs(level)
        /\ ~(level < 0) => level = Abs(level)
    BY DEF Abs
  <2>2. v \in Nat /\ v = q * Abs(level)
    BY <2>1
  <2>3. /\ t \in Nat /\ t * nq \in Nat /\ t * nq <= v /\ v < t * nq + nq
        /\ (t + 1) * nq = t * nq + nq
    <3> HIDE DEF v
    <3> QED BY <2>2, Quotient
  <2>4. Table(level, q, nq) = IF level < 0 THEN -r ELSE r
    BY <1>2 DEF Table, Requant
  <2>5. q * level = IF level < 0 THEN -v ELSE v
    <3> HIDE DEF v
    <3>1. q \in Int /\ Abs(level) \in Int
      BY <2>1
    <3>2. q * (-Abs(level)) = -(q * Abs(level))
      BY <3>1, Negated
    <3> QED BY <2>1, <2>2, <3>2
  <2> DEFINE lo == t * nq
             hi == t * nq + nq
  <2>6. nq * r = IF up THEN hi ELSE lo
    <3> HIDE DEF v
    <3>1. nq * t = t * nq /\ nq * (t + 1) = (t + 1) * nq
      BY <2>3
    <3> HIDE DEF t
    <3> QED BY <2>3, <3>1
  <2>7. r \in Nat
    BY <2>3
  <2>8. up <=> tables = "nearest" /\ hi - v < v - lo
    BY <2>3
  <2>9. lo \in Int /\ hi \in Int /\ v \in Int /\ lo <= v /\ v < hi /\ hi = lo + nq
    BY <2>2, <2>3
  <2> HIDE DEF v, t, r, up, lo, hi
  <2>10. Near(v, nq * r, nq)
    <3>1. CASE up
      <4>1. v <= hi /\ hi - v < nq /\ 2 * (hi - v) <= nq
        BY <2>8, <2>9, <3>1
      <4>2. Near(v, hi, nq)
        BY <2>9, <4>1, NearNumbers
      <4> QED BY <2>6, <3>1, <4>2
    <3>2. CASE ~up
      <4>1. v - lo < nq /\ (tables = "nearest" => 2 * (v - lo) <= nq)
        BY <2>8, <2>9, <3>2
      <4>2. Near(v, lo, nq)
        BY <2>9, <4>1, NearNumbers
      <4> QED BY <2>6, <3>2, <4>2
    <3> QED BY <3>1, <3>2
  <2>11. nq * r \in Int /\ nq * (-r) = -(nq * r)
    BY <2>7, Negated
  <2>12. Near(-v, -(nq * r), nq)
    BY <2>9, <2>10, <2>11, NearNumbers
  <2>13. CASE level < 0
    BY <2>4, <2>5, <2>7, <2>11, <2>12, <2>13
  <2>14. CASE ~(level < 0)
    BY <2>4, <2>5, <2>7, <2>10, <2>14
  <2> QED BY <2>13, <2>14
<1> QED BY <1>1, <1>2

\* The recoded block has the coefficients that stay where they were.
LEMMA RequantisedOf ==
    ASSUME NEW blk \in Codes, NEW from \in Int, NEW q \in Nat \ {0}, NEW nq \in Nat \ {0}
    PROVE  LET stays == Staying(blk, q, nq)
               sent  == Requantised(blk, q, nq, from)
           IN  /\ sent \in Codes /\ Len(sent) = Len(stays)
               /\ \A j \in 1 .. Len(sent) :
                     /\ sent[j].level = Table(blk[stays[j]].level, q, nq)
                     /\ Behind(sent, from, j) = Behind(blk, from, stays[j])
<1> DEFINE stays == Staying(blk, q, nq)
           sent  == Requantised(blk, q, nq, from)
           n    == Len(stays)
           src(j) == IF j = 0 THEN 0 ELSE stays[j]
<1>1. /\ stays \in Seq(1 .. Len(blk)) /\ n \in Nat
      /\ \A j \in 1 .. n : stays[j] \in 1 .. Len(blk)
      /\ \A i, j \in 1 .. n : i < j => stays[i] < stays[j]
  <2>1. /\ stays \in Seq(1 .. Len(blk))
        /\ \A i, j \in 1 .. n : i < j => stays[i] < stays[j]
    BY StayingOf DEF Lists
  <2> HIDE DEF stays
  <2> QED BY <2>1, ElementOfSeq
<1>2. Len(blk) \in Nat
  BY PlacesOf
<1>3. sent = [j \in 1 .. n |->
               [run   |-> Places(blk, from)[stays[j]]
                            - (IF j = 1 THEN from ELSE Places(blk, from)[stays[j - 1]]) - 1,
                level |-> Table(blk[stays[j]].level, q, nq)]]
  BY DEF Requantised
<1> HIDE DEF stays, sent
<1>4. \A j \in 0 .. n : src(j) \in 0 .. Len(blk) /\ (j # 0 => src(j) = stays[j] /\ src(j) # 0)
  BY <1>1, <1>2
<1>5. \A j \in 1 .. n : j \in 0 .. n /\ j - 1 \in 0 .. n /\ src(j - 1) < src(j)
  <2> SUFFICES ASSUME NEW j \in 1 .. n
               PROVE  j \in 0 .. n /\ j - 1 \in 0 .. n /\ src(j - 1) < src(j)
    OBVIOUS
  <2>1. CASE j = 1
    BY <1>1, <1>2, <2>1
  <2>2. CASE j # 1
    <3>1. j - 1 \in 1 .. n /\ j - 1 < j /\ j - 1 # 0 /\ j # 0 /\ j \in 0 .. n /\ j - 1 \in 0 .. n
      BY <1>1, <2>2
    <3>2. src(j) = stays[j] /\ src(j - 1) = stays[j - 1]
      BY <3>1
    <3>3. stays[j - 1] < stays[j]
      BY <1>1, <3>1
    <3> HIDE DEF src
    <3> QED BY <3>1, <3>2, <3>3
  <2> QED BY <2>1, <2>2
<1>6. \A j \in 1 .. n :
        sent[j] = [run   |-> Behind(blk, from, src(j)) - Behind(blk, from, src(j - 1)) - 1,
                  level |-> Table(blk[stays[j]].level, q, nq)]
  <2> SUFFICES ASSUME NEW j \in 1 .. n
               PROVE  sent[j] = [run   |-> Behind(blk, from, src(j)) - Behind(blk, from, src(j - 1)) - 1,
                                level |-> Table(blk[stays[j]].level, q, nq)]
    OBVIOUS
  <2>1. Behind(blk, from, src(j)) = Places(blk, from)[stays[j]]
    BY <1>4, <1>5 DEF Behind
  <2>2. CASE j = 1
    <3>1. Behind(blk, from, src(j - 1)) = from
      BY <2>2 DEF Behind
    <3> QED BY <1>3, <2>1, <2>2, <3>1
  <2>3. CASE j # 1
    <3>1. j - 1 # 0
      BY <2>3
    <3>2. src(j - 1) = stays[j - 1] /\ src(j - 1) # 0
      BY <1>4, <1>5, <3>1
    <3>3. Behind(blk, from, src(j - 1)) = Places(blk, from)[stays[j - 1]]
      BY <3>2 DEF Behind
    <3> QED BY <1>3, <2>1, <2>3, <3>3
  <2> QED BY <2>2, <2>3
<1> HIDE DEF src
<1>16. ASSUME NEW j \in 1 .. n
       PROVE  /\ sent[j].run = Behind(blk, from, src(j)) - Behind(blk, from, src(j - 1)) - 1
              /\ sent[j].level = Table(blk[stays[j]].level, q, nq)
              /\ sent[j] = [run |-> sent[j].run, level |-> sent[j].level]
  <2> DEFINE run   == Behind(blk, from, src(j)) - Behind(blk, from, src(j - 1)) - 1
             level == Table(blk[stays[j]].level, q, nq)
  <2>1. sent[j] = [run |-> run, level |-> level]
    BY <1>6
  <2> HIDE DEF run, level
  <2>2. sent[j].run = run /\ sent[j].level = level
    BY <2>1
  <2> QED BY <2>1, <2>2 DEF run, level
<1>7. \A j \in 1 .. n : /\ Behind(blk, from, src(j)) \in Int /\ Behind(blk, from, src(j - 1)) \in Int
                        /\ Behind(blk, from, src(j - 1)) < Behind(blk, from, src(j))
  BY <1>4, <1>5, PlacesRise
<1>8. \A j \in 1 .. n : sent[j] \in [run : Nat, level : Int]
  <2> SUFFICES ASSUME NEW j \in 1 .. n PROVE sent[j] \in [run : Nat, level : Int]
    OBVIOUS
  <2>1. Behind(blk, from, src(j)) - Behind(blk, from, src(j - 1)) - 1 \in Nat
    BY <1>7
  <2>2. Table(blk[stays[j]].level, q, nq) \in Int
    BY <1>1, CodeOf, TableNear
  <2>3. sent[j].run \in Nat /\ sent[j].level \in Int
    BY <1>16, <2>1, <2>2
  <2> DEFINE run   == sent[j].run
             level == sent[j].level
  <2>4. sent[j] = [run |-> run, level |-> level]
    BY <1>16
  <2> HIDE DEF run, level
  <2>5. run \in Nat /\ level \in Int
    BY <2>3 DEF run, level
  <2> QED BY <2>4, <2>5
<1>9. sent \in Codes /\ Len(sent) = n
  <2>1. sent = [j \in 1 .. n |-> sent[j]]
    BY <1>3
  <2> QED BY <1>1, <1>8, <2>1 DEF Codes
<1> DEFINE S == {m \in Nat : m <= n => Behind(sent, from, m) = Behind(blk, from, src(m))}
<1>10. 0 \in S
  BY DEF Behind, src
<1>11. ASSUME NEW m \in Nat, m \in S PROVE m + 1 \in S
  <2> SUFFICES ASSUME m + 1 <= n
               PROVE  Behind(sent, from, m + 1) = Behind(blk, from, src(m + 1))
    OBVIOUS
  <2>1. m + 1 \in 1 .. n /\ (m + 1) - 1 = m /\ m <= n
    BY <1>1
  <2>2. Behind(sent, from, m) = Behind(blk, from, src(m))
    BY <1>11, <2>1
  <2>3. Behind(sent, from, m + 1) = Behind(sent, from, (m + 1) - 1) + sent[m + 1].run + 1
    BY <1>9, <2>1, PlacesOf
  <2>4. sent[m + 1].run = Behind(blk, from, src(m + 1)) - Behind(blk, from, src((m + 1) - 1)) - 1
    BY <1>16, <2>1
  <2>5. Behind(blk, from, src(m + 1)) \in Int /\ Behind(blk, from, src((m + 1) - 1)) \in Int
    BY <1>7, <2>1
  <2> QED BY <2>1, <2>2, <2>3, <2>4, <2>5
<1> HIDE DEF S
<1>12. \A j \in 1 .. n : Behind(sent, from, j) = Behind(blk, from, stays[j])
  <2>1. Nat \subseteq S
    BY <1>10, <1>11, SetInduction
  <2>2. \A j \in 1 .. n : j \in Nat /\ j <= n /\ src(j) = stays[j]
    BY <1>1, <1>4, <1>5
  <2> QED BY <2>1, <2>2 DEF S
<1>13. \A j \in 1 .. n : sent[j].level = Table(blk[stays[j]].level, q, nq)
  BY <1>16
<1> QED BY <1>9, <1>12, <1>13 DEF stays, sent

LEMMA PlacesApart ==
    ASSUME NEW blk \in Codes, NEW from \in Int,
           NEW u \in 1 .. Len(blk), NEW l \in 1 .. Len(blk),
           Behind(blk, from, u) = Behind(blk, from, l)
    PROVE  u = l
<1>1. u \in 0 .. Len(blk) /\ l \in 0 .. Len(blk) /\ (u = l \/ u < l \/ l < u)
  <2>1. Len(blk) \in Nat
    BY PlacesOf
  <2> QED BY <2>1
<1>2. u < l => Behind(blk, from, u) \in Int /\ Behind(blk, from, u) < Behind(blk, from, l)
  BY <1>1, PlacesRise
<1>3. l < u => Behind(blk, from, l) \in Int /\ Behind(blk, from, l) < Behind(blk, from, u)
  BY <1>1, PlacesRise
<1> QED BY <1>1, <1>2, <1>3

LEMMA NearZero == ASSUME NEW n \in Nat \ {0} PROVE Near(0, 0, n)
BY NearNumbers

\* Each coefficient of a requantised block is near what it was.
LEMMA BlockNear ==
    ASSUME NEW blk \in Codes, NEW from \in Int, NEW q \in Nat \ {0}, NEW nq \in Nat \ {0},
           NEW p
    PROVE  Near(Value(blk, from, q, p), Value(Requantised(blk, q, nq, from), from, nq, p), nq)
<1> DEFINE stays == Staying(blk, q, nq)
           sent  == Requantised(blk, q, nq, from)
           T(u) == Table(blk[u].level, q, nq)
<1>1. /\ sent \in Codes /\ Len(sent) = Len(stays)
      /\ \A j \in 1 .. Len(sent) : /\ sent[j].level = T(stays[j])
                                  /\ Behind(sent, from, j) = Behind(blk, from, stays[j])
  BY RequantisedOf
<1>2. /\ \A j \in 1 .. Len(sent) : stays[j] \in 1 .. Len(blk)
      /\ \A u \in 1 .. Len(blk) : T(u) # 0 <=> \E j \in 1 .. Len(sent) : stays[j] = u
  <2>1. /\ stays \in Seq(1 .. Len(blk))
        /\ \A u \in 1 .. Len(blk) : T(u) # 0 <=> \E j \in 1 .. Len(stays) : stays[j] = u
    <3> DEFINE keep == [u \in 1 .. Len(blk) |-> T(u) # 0]
    <3>1. \A u \in 1 .. Len(blk) : keep[u] <=> T(u) # 0
      OBVIOUS
    <3>2. Lists(stays, Len(blk), keep)
      BY StayingOf
    <3> HIDE DEF keep, stays, T
    <3> QED BY <3>1, <3>2 DEF Lists
  <2> HIDE DEF stays, sent
  <2> QED BY <1>1, <2>1, ElementOfSeq
<1> HIDE DEF stays, sent
<1>3. CASE \A u \in 1 .. Len(blk) : Behind(blk, from, u) # p
  <2>1. \A j \in 1 .. Len(sent) : Behind(sent, from, j) # p
    BY <1>1, <1>2, <1>3
  <2>2. Value(blk, from, q, p) = 0
    BY <1>3, ValueOf
  <2>3. Value(sent, from, nq, p) = 0
    BY <1>1, <2>1, ValueOf
  <2> QED BY <2>2, <2>3, NearZero DEF sent
<1>4. ASSUME NEW u \in 1 .. Len(blk), Behind(blk, from, u) = p
      PROVE  Near(Value(blk, from, q, p), Value(sent, from, nq, p), nq)
  <2>1. Value(blk, from, q, p) = q * blk[u].level
    BY <1>4, ValueOf
  <2>2. Near(q * blk[u].level, nq * T(u), nq)
    BY CodeOf, TableNear
  <2>3. CASE T(u) = 0
    <3>1. \A j \in 1 .. Len(sent) : Behind(sent, from, j) # p
      <4> SUFFICES ASSUME NEW j \in 1 .. Len(sent), Behind(sent, from, j) = p PROVE FALSE
        OBVIOUS
      <4>1. stays[j] \in 1 .. Len(blk) /\ Behind(blk, from, stays[j]) = Behind(blk, from, u)
        BY <1>1, <1>2, <1>4
      <4>2. stays[j] = u
        BY <4>1, PlacesApart
      <4> HIDE DEF T
      <4> QED BY <1>2, <2>3, <4>2
    <3>2. Value(sent, from, nq, p) = 0
      BY <1>1, <3>1, ValueOf
    <3>3. nq * T(u) = 0
      BY <2>3
    <3> HIDE DEF T
    <3> QED BY <2>1, <2>2, <3>2, <3>3
  <2>4. CASE T(u) # 0
    <3>1. PICK j \in 1 .. Len(sent) : stays[j] = u
      BY <1>2, <2>4
    <3>2. Behind(sent, from, j) = p /\ sent[j].level = T(u)
      BY <1>1, <1>4, <3>1
    <3>3. Value(sent, from, nq, p) = nq * T(u)
      BY <1>1, <3>2, ValueOf
    <3> HIDE DEF T
    <3> QED BY <2>1, <2>2, <3>3
  <2> QED BY <2>3, <2>4
<1> QED BY <1>3, <1>4 DEF sent

LEMMA EmptyValue ==
    ASSUME NEW from \in Int, NEW scale, NEW p
    PROVE  <<>> \in Codes /\ Value(<<>>, from, scale, p) = 0
<1>1. <<>> \in Codes /\ Len(<<>>) = 0
  BY DEF Codes
<1> QED BY <1>1, ValueOf

\* A block that loses all its coefficients had none that count.
LEMMA GoneNear ==
    ASSUME NEW blk \in Codes, NEW from \in Int, NEW q \in Nat \ {0}, NEW nq \in Nat \ {0},
           NEW p, Requantised(blk, q, nq, from) = <<>>
    PROVE  Near(Value(blk, from, q, p), 0, nq)
BY BlockNear, EmptyValue

LEMMA EmptyRequantised ==
    ASSUME NEW from \in Int, NEW q \in Nat \ {0}, NEW nq \in Nat \ {0}
    PROVE  Requantised(<<>>, q, nq, from) = <<>>
<1>1. <<>> \in Codes /\ Len(<<>>) = 0
  BY DEF Codes
<1> DEFINE stays == Staying(<<>>, q, nq)
           sent  == Requantised(<<>>, q, nq, from)
<1>2. stays \in Seq(1 .. 0)
  BY <1>1, StayingOf DEF Lists
<1>3. stays = <<>>
  <2> HIDE DEF stays
  <2>1. Len(stays) \in Nat /\ \A j \in 1 .. Len(stays) : stays[j] \in 1 .. 0
    BY <1>2, ElementOfSeq
  <2>2. Len(stays) = 0
    <3>1. Len(stays) # 0 => 1 \in 1 .. Len(stays) /\ stays[1] \in 1 .. 0
      BY <2>1
    <3> QED BY <3>1
  <2> QED BY <1>2, <2>2, EmptySeq
<1>4. sent \in Codes /\ Len(sent) = 0
  BY <1>1, <1>3, RequantisedOf
<1> HIDE DEF sent
<1>5. sent = <<>>
  BY <1>4, EmptySeq DEF Codes
<1> QED BY <1>5 DEF sent

\* One coefficient in a block of its own stands where it did.
LEMMA SingleValue ==
    ASSUME NEW r \in Nat, NEW l \in Int, NEW scale, NEW p
    PROVE  LET one == <<[run |-> r, level |-> l]>>
           IN  Value(one, -1, scale, p) = IF p = r THEN scale * l ELSE 0
<1> DEFINE one  == <<[run |-> r, level |-> l]>>
           from == -1
<1>1. one \in Codes /\ Len(one) = 1 /\ one[1].run = r /\ one[1].level = l
  BY DEF Codes
<1>0. from \in Int /\ from + r + 1 = r
  OBVIOUS
<1> HIDE DEF one, from
<1>2. 1 \in 1 .. Len(one) /\ \A u \in 1 .. Len(one) : u = 1
  BY <1>1
<1>3. Behind(one, from, 1) = Behind(one, from, 1 - 1) + one[1].run + 1
  BY <1>0, <1>1, <1>2, PlacesOf
<1>4. Behind(one, from, 1 - 1) = from
  BY DEF Behind
<1>5. Behind(one, from, 1) = r
  BY <1>0, <1>1, <1>3, <1>4
<1>6. p = r => Value(one, from, scale, p) = scale * l
  BY <1>0, <1>1, <1>2, <1>5, ValueOf
<1>7. p # r => Value(one, from, scale, p) = 0
  BY <1>0, <1>1, <1>2, <1>5, ValueOf
<1> QED BY <1>6, <1>7 DEF one, from

-------------------------------------------------------------------------------
\* The smallest coefficient is one of those that were read.
Coefficients(blocks) == {x \in (1 .. Blocks) \X (1 .. Coefs) : x[2] <= Len(blocks[x[1]])}

LEMMA SavedOf ==
    ASSUME NEW blocks \in [1 .. Blocks -> Codes],
           NEW c \in 1 .. Blocks, blocks[c] # <<>>, Legal(blocks[c], -1)
    PROVE  \E b \in 1 .. Blocks : \E u \in 1 .. Len(blocks[b]) :
             Saved(blocks) = [NoBlocks EXCEPT ![b] =
               <<[run |-> Places(blocks[b], -1)[u], level |-> blocks[b][u].level]>>]
<1> DEFINE all  == Coefficients(blocks)
           C(x) == blocks[x[1]][x[2]]
           Best(x) == \A y \in all :
                        \/ Smaller(C(x), C(y))
                        \/ ~Smaller(C(y), C(x)) /\ (x[1] < y[1] \/ (x[1] = y[1] /\ x[2] <= y[2]))
           best == CHOOSE x \in all : Best(x)
<1>0. Blocks \in Nat /\ Coefs \in Nat
  BY SliceAssumption
<1>1. \A x \in all : /\ x[1] \in 1 .. Blocks /\ x[2] \in 1 .. Coefs
                    /\ x[2] \in 1 .. Len(blocks[x[1]])
                    /\ Abs(C(x).level) \in Nat
  <2> SUFFICES ASSUME NEW x \in all
               PROVE  /\ x[1] \in 1 .. Blocks /\ x[2] \in 1 .. Coefs
                      /\ x[2] \in 1 .. Len(blocks[x[1]])
                      /\ Abs(C(x).level) \in Nat
    OBVIOUS
  <2>1. x[1] \in 1 .. Blocks /\ x[2] \in 1 .. Coefs /\ x[2] <= Len(blocks[x[1]])
    BY DEF Coefficients
  <2>2. blocks[x[1]] \in Codes
    BY <2>1
  <2>3. Len(blocks[x[1]]) \in Nat
    BY <2>2 DEF Codes
  <2>4. x[2] \in 1 .. Len(blocks[x[1]])
    BY <1>0, <2>1, <2>3
  <2>5. C(x).level \in Int
    BY <2>2, <2>4, CodeOf
  <2> HIDE DEF C
  <2>6. Abs(C(x).level) \in Nat
    BY <2>5 DEF Abs
  <2> QED BY <2>1, <2>4, <2>6
<1>2. <<c, 1>> \in all
  <2>1. blocks[c] \in Codes
    OBVIOUS
  <2>2. Len(blocks[c]) \in Nat /\ Len(blocks[c]) # 0
    BY <2>1, EmptySeq DEF Codes
  <2> DEFINE n == Len(blocks[c])
             from == -1
  <2>3. from \in Int /\ n \in 1 .. n /\ n \in 0 .. n /\ 0 \in 0 .. n /\ 0 < n
    BY <2>2
  <2>4. Behind(blocks[c], from, 0) < Behind(blocks[c], from, n) /\ Behind(blocks[c], from, n) \in Int
    <3> HIDE DEF from
    <3> QED BY <2>1, <2>3, PlacesRise
  <2>5. Behind(blocks[c], from, n) < Coefs
    <3>1. Last(Places(blocks[c], from)) < Coefs
      BY DEF Legal
    <3>2. Places(blocks[c], from) \in [1 .. n -> Int]
      <4> HIDE DEF from
      <4> QED BY <2>1, <2>3, PlacesOf
    <3>3. Len(Places(blocks[c], from)) = n
      BY <2>2, <3>2
    <3> QED BY <2>3, <3>1, <3>3 DEF Last, Behind
  <2>6. 1 \in 1 .. Coefs /\ 1 <= n
    BY <1>0, <2>2, <2>4, <2>5 DEF Behind
  <2> QED BY <2>6 DEF Coefficients
<1>3. \E x \in all : Best(x)
  <2> DEFINE A == {Abs(C(x).level) : x \in all}
  <2>1. A \in SUBSET Nat /\ A # {}
    BY <1>1, <1>2
  <2> HIDE DEF C, all
  <2>2. PICK a \in A : \A d \in A : a <= d
    <3> HIDE DEF A
    <3> QED BY <2>1, Least
  <2> DEFINE F == {x \in all : Abs(C(x).level) = a}
             B1 == {x[1] : x \in F}
  <2>3. F # {} /\ B1 # {} /\ B1 \in SUBSET Nat /\ a \in Nat
    BY <1>0, <1>1, <2>1, <2>2
  <2>4. PICK b \in B1 : \A d \in B1 : b <= d
    <3> HIDE DEF B1
    <3> QED BY <2>3, Least
  <2> DEFINE G == {x \in F : x[1] = b}
             K == {x[2] : x \in G}
  <2>5. K # {} /\ K \in SUBSET Nat
    BY <1>0, <1>1, <2>4
  <2>6. PICK u \in K : \A d \in K : u <= d
    <3> HIDE DEF K
    <3> QED BY <2>5, Least
  <2>7. PICK x \in G : x[2] = u
    BY <2>6
  <2>8. ASSUME NEW y \in all
        PROVE  \/ Smaller(C(x), C(y))
               \/ ~Smaller(C(y), C(x)) /\ (x[1] < y[1] \/ (x[1] = y[1] /\ x[2] <= y[2]))
    <3>1. Abs(C(x).level) = a /\ x[1] = b /\ x \in all /\ a <= Abs(C(y).level)
      BY <2>2, <2>7
    <3>2. CASE Abs(C(y).level) # a
      BY <1>1, <2>3, <3>1, <3>2 DEF Smaller
    <3>3. CASE Abs(C(y).level) = a
      <4>1. y \in F /\ b <= y[1] /\ y[1] \in Nat /\ b \in Nat
        BY <1>0, <1>1, <2>3, <2>4, <3>3
      <4>2. y[1] = b => y \in G /\ u <= y[2]
        BY <2>6, <4>1
      <4>3. ~Smaller(C(y), C(x))
        BY <2>3, <3>1, <3>3 DEF Smaller
      <4> QED BY <2>7, <3>1, <4>1, <4>2, <4>3
    <3> QED BY <3>2, <3>3
  <2> QED BY <2>7, <2>8
<1>4. best \in all
  <2> HIDE DEF all, Best
  <2> QED BY <1>3
<1>5. Saved(blocks) = [NoBlocks EXCEPT ![best[1]] =
         <<[run |-> Places(blocks[best[1]], -1)[best[2]], level |-> C(best).level]>>]
  BY DEF Saved, Coefficients
<1> HIDE DEF best
<1> QED BY <1>1, <1>4, <1>5

-------------------------------------------------------------------------------
\* The scales are those of the code, and the decoder has the one written last.
Positive == Nat \ {0}
ScaleInv ==
    /\ validPicHeader => picture_coding_type \in {I, P, B}
    /\ validExtHeader => ext.q_scale_type \in {0, 1}
    /\ Inside => /\ seen.scale = last_coded_scale
                 /\ quantizer_scale \in ScaleSet

LEMMA ScalesPositive ==
    ASSUME ext.q_scale_type \in {0, 1}
    PROVE  ScaleSet \subseteq Positive
<1>1. ScaleCodes \in Seq(Nat \ {0})
  BY SliceAssumption DEF ScaleCodes
<1>2. \A i \in 1 .. Len(ScaleCodes) : ScaleCodes[i] \in Nat \ {0}
  BY <1>1, ElementOfSeq
<1>3. DOMAIN ScaleCodes = 1 .. Len(ScaleCodes)
  BY <1>1
<1> QED BY <1>2, <1>3 DEF ScaleSet, Range, Positive

\* The macroblock as it goes out, to a decoder that has this scale.
CloseBy(m, scale) ==
    \A b \in 1 .. Blocks, p \in 0 .. Coefs - 1 :
       LET from == IF "intra" \in m.modes THEN 0 ELSE -1
       IN  Near(Value(m.blocks[b], from, m.scale, p),
                Value(m.outBlocks[b], from, scale, p), m.tried)

LEMMA PairOf ==
    ASSUME NEW modes, NEW q, NEW blocks, NEW nq, NEW sent, NEW outBlocks
    PROVE  LET m == Pair(modes, q, blocks, nq, sent, outBlocks)
           IN  /\ m.modes = modes /\ m.scale = q /\ m.blocks = blocks /\ m.tried = nq
               /\ m.out = sent /\ m.outBlocks = outBlocks
BY DEF Pair

\* Every way a macroblock goes out.
LEMMA RequantisedClose ==
    ASSUME NEW modes, NEW q \in Positive, NEW nq \in Positive,
           NEW blocks \in [1 .. Blocks -> Codes], NEW sent, NEW from \in Int,
           from = IF "intra" \in modes THEN 0 ELSE -1
    PROVE  CloseBy(Pair(modes, q, blocks, nq, sent,
                        [b \in 1 .. Blocks |-> Requantised(blocks[b], q, nq, from)]), nq)
<1> DEFINE outBlocks == [b \in 1 .. Blocks |-> Requantised(blocks[b], q, nq, from)]
           m == Pair(modes, q, blocks, nq, sent, outBlocks)
<1>1. /\ m.modes = modes /\ m.scale = q /\ m.blocks = blocks /\ m.tried = nq
      /\ m.outBlocks = outBlocks
  BY PairOf
<1>2. ASSUME NEW b \in 1 .. Blocks, NEW p
      PROVE  Near(Value(blocks[b], from, q, p), Value(outBlocks[b], from, nq, p), nq)
  <2>1. blocks[b] \in Codes /\ outBlocks[b] = Requantised(blocks[b], q, nq, from)
    OBVIOUS
  <2> QED BY <2>1, BlockNear DEF Positive
<1> HIDE DEF m, outBlocks
<1> QED BY <1>1, <1>2 DEF CloseBy, m, outBlocks

\* Nothing goes out of blocks without coefficients that count.
LEMMA NothingClose ==
    ASSUME NEW modes, "intra" \notin modes, NEW q \in Positive, NEW nq \in Positive,
           NEW blocks \in [1 .. Blocks -> Codes], NEW sent, NEW scale,
           \A b \in 1 .. Blocks : Requantised(blocks[b], q, nq, -1) = <<>>
    PROVE  CloseBy(Pair(modes, q, blocks, nq, sent, NoBlocks), scale)
<1> DEFINE m    == Pair(modes, q, blocks, nq, sent, NoBlocks)
           from == -1
<1>0. from \in Int
  OBVIOUS
<1>1. /\ m.modes = modes /\ m.scale = q /\ m.blocks = blocks /\ m.tried = nq
      /\ m.outBlocks = NoBlocks
  BY PairOf
<1>2. ASSUME NEW b \in 1 .. Blocks, NEW p
      PROVE  Near(Value(blocks[b], from, q, p), Value(NoBlocks[b], from, scale, p), nq)
  <2>1. blocks[b] \in Codes /\ NoBlocks[b] = <<>> /\ Requantised(blocks[b], q, nq, from) = <<>>
    BY DEF NoBlocks
  <2> HIDE DEF from
  <2>2. Near(Value(blocks[b], from, q, p), 0, nq)
    BY <1>0, <2>1, GoneNear DEF Positive
  <2>3. Value(NoBlocks[b], from, scale, p) = 0
    BY <1>0, <2>1, EmptyValue
  <2> QED BY <2>2, <2>3
<1> HIDE DEF m
<1> QED BY <1>1, <1>2 DEF CloseBy, m

\* The coefficient that is put back is exact, and the others do not count.
LEMMA SavedClose ==
    ASSUME NEW modes, "intra" \notin modes, NEW q \in Positive, NEW nq \in Positive,
           NEW blocks \in [1 .. Blocks -> Codes], NEW sent,
           NEW c \in 1 .. Blocks, blocks[c] # <<>>, Legal(blocks[c], -1),
           \A b \in 1 .. Blocks : Requantised(blocks[b], q, nq, -1) = <<>>
    PROVE  /\ CloseBy(Pair(modes, q, blocks, nq, sent, Saved(blocks)), q)
           /\ Saved(blocks) # NoBlocks
<1> DEFINE m    == Pair(modes, q, blocks, nq, sent, Saved(blocks))
           from == -1
<1>0. from \in Int
  OBVIOUS
<1>1. /\ m.modes = modes /\ m.scale = q /\ m.blocks = blocks /\ m.tried = nq
      /\ m.outBlocks = Saved(blocks)
  BY PairOf
<1>2. PICK b \in 1 .. Blocks : \E u \in 1 .. Len(blocks[b]) :
        Saved(blocks) = [NoBlocks EXCEPT ![b] =
          <<[run |-> Places(blocks[b], from)[u], level |-> blocks[b][u].level]>>]
  BY SavedOf
<1>3. PICK u \in 1 .. Len(blocks[b]) :
        Saved(blocks) = [NoBlocks EXCEPT ![b] =
          <<[run |-> Places(blocks[b], from)[u], level |-> blocks[b][u].level]>>]
  BY <1>2
<1> DEFINE r   == Places(blocks[b], from)[u]
           l   == blocks[b][u].level
           one == <<[run |-> r, level |-> l]>>
<1>4. /\ blocks[b] \in Codes /\ l \in Int
      /\ r = Behind(blocks[b], from, u) /\ r \in Nat
  <2>1. blocks[b] \in Codes
    OBVIOUS
  <2>2. Len(blocks[b]) \in Nat /\ l \in Int
    BY <2>1, CodeOf
  <2>3. u # 0 /\ 0 \in 0 .. Len(blocks[b]) /\ u \in 0 .. Len(blocks[b]) /\ 0 < u
    BY <2>2
  <2>4. r = Behind(blocks[b], from, u)
    BY <2>3 DEF Behind
  <2>5. Behind(blocks[b], from, 0) = -1
    BY DEF Behind
  <2>6. Behind(blocks[b], from, u) \in Int /\ Behind(blocks[b], from, 0) < Behind(blocks[b], from, u)
    <3> HIDE DEF from, r, l
    <3> QED BY <1>0, <2>1, <2>3, PlacesRise
  <2>7. Behind(blocks[b], from, u) \in Nat
    <3> HIDE DEF from
    <3> QED BY <2>5, <2>6
  <2> QED BY <2>1, <2>2, <2>4, <2>7
<1>5. /\ Saved(blocks)[b] = one
      /\ \A d \in 1 .. Blocks : d # b => Saved(blocks)[d] = <<>>
  BY <1>3 DEF NoBlocks
<1>6. Saved(blocks) # NoBlocks
  <2>1. NoBlocks[b] = <<>>
    BY DEF NoBlocks
  <2>2. one # <<>>
    OBVIOUS
  <2> HIDE DEF one
  <2> QED BY <1>5, <2>1, <2>2
<1>7. ASSUME NEW d \in 1 .. Blocks, NEW p
      PROVE  Near(Value(blocks[d], from, q, p), Value(Saved(blocks)[d], from, q, p), nq)
  <2>1. blocks[d] \in Codes /\ Requantised(blocks[d], q, nq, from) = <<>>
    OBVIOUS
  <2>2. Near(Value(blocks[d], from, q, p), 0, nq)
    <3> HIDE DEF from
    <3> QED BY <1>0, <2>1, GoneNear DEF Positive
  <2>3. CASE d # b
    <3>1. Saved(blocks)[d] = <<>>
      BY <1>5, <2>3
    <3> HIDE DEF from
    <3>2. Value(<<>>, from, q, p) = 0
      BY <1>0, EmptyValue
    <3> QED BY <2>2, <3>1, <3>2
  <2>4. CASE d = b
    <3> HIDE DEF r, l
    <3>1. Value(one, -1, q, p) = IF p = r THEN q * l ELSE 0
      BY <1>4, SingleValue
    <3>2. CASE p = r
      <4>1. Value(blocks[b], from, q, p) = q * l
        <5> HIDE DEF from
        <5>1. Value(blocks[b], from, q, p) = q * blocks[b][u].level
          BY <1>0, <1>4, <3>2, ValueOf
        <5> QED BY <5>1 DEF l
      <4>2. q * l \in Int /\ nq \in Int /\ nq > 0
        BY <1>4 DEF Positive
      <4> DEFINE v == q * l
      <4> HIDE DEF v
      <4>3. Near(v, v, nq)
        BY <4>2, NearNumbers DEF v
      <4> QED BY <1>5, <2>4, <3>1, <3>2, <4>1, <4>3 DEF v
    <3>3. CASE p # r
      BY <1>5, <2>2, <2>4, <3>1, <3>3
    <3> QED BY <3>2, <3>3
  <2> QED BY <2>3, <2>4
<1> HIDE DEF m, one
<1> QED BY <1>1, <1>6, <1>7 DEF CloseBy, m

\* What is written carries its scale, unless it has no coefficients.
LEMMA EmitScale ==
    ASSUME seen.scale = last_coded_scale, NEW modes, NEW nq, Emit(modes, nq)
    PROVE  /\ seen'.scale = last_coded_scale'
           /\ modes \cap {"intra", "pattern"} # {} => seen'.scale = nq
<1> DEFINE sent == Flags(modes, nq)
<1>1. /\ seen'.scale = IF "quant" \in sent THEN nq ELSE seen.scale
      /\ last_coded_scale' = IF "quant" \in sent THEN nq ELSE last_coded_scale
  BY DEF Emit, Decoded
<1>2. CASE last_coded_scale = nq
  BY <1>1, <1>2
<1>3. CASE last_coded_scale # nq /\ modes \cap {"intra", "pattern"} # {}
  <2>1. "quant" \in sent
    BY <1>3 DEF Flags
  <2> QED BY <1>1, <2>1
<1>4. CASE modes \cap {"intra", "pattern"} = {}
  BY <1>1, <1>4
<1> QED BY <1>2, <1>3, <1>4

\* The modes that are written have a code, as those that were read.
LEMMA WithFlags ==
    ASSUME NEW dirs, "pattern" \notin dirs, "quant" \notin dirs, NEW modes \in With(dirs)
    PROVE  /\ modes \ {"quant"} \in With(dirs)
           /\ "pattern" \in modes => modes \cup {"quant"} \in With(dirs)
           /\ modes \ {"pattern", "quant"} = dirs /\ dirs \in With(dirs)
           /\ \A f : f \in dirs => f \in modes
           /\ \A f : f \in modes => f \in dirs \cup {"pattern", "quant"}
<1>1. CASE modes = dirs
  <2>1. modes \ {"quant"} = dirs /\ modes \ {"pattern", "quant"} = dirs
    BY <1>1
  <2> QED BY <1>1, <2>1 DEF With
<1>2. CASE modes = dirs \cup {"pattern"}
  <2>1. /\ modes \ {"quant"} = dirs \cup {"pattern"} /\ modes \ {"pattern", "quant"} = dirs
        /\ modes \cup {"quant"} = dirs \cup {"pattern", "quant"}
    BY <1>2
  <2> QED BY <1>2, <2>1 DEF With
<1>3. CASE modes = dirs \cup {"pattern", "quant"}
  <2>1. /\ modes \ {"quant"} = dirs \cup {"pattern"} /\ modes \ {"pattern", "quant"} = dirs
        /\ modes \cup {"quant"} = dirs \cup {"pattern", "quant"}
    BY <1>3
  <2> QED BY <1>3, <2>1 DEF With
<1> QED BY <1>1, <1>2, <1>3 DEF With

LEMMA IntraFlags ==
    ASSUME NEW modes \in Intra
    PROVE  /\ modes \ {"quant"} \in Intra /\ modes \cup {"quant"} \in Intra
           /\ "intra" \in modes /\ "pattern" \notin modes
<1>1. /\ {"intra"} \ {"quant"} = {"intra"} /\ {"intra"} \cup {"quant"} = {"intra", "quant"}
      /\ {"intra", "quant"} \ {"quant"} = {"intra"}
      /\ {"intra", "quant"} \cup {"quant"} = {"intra", "quant"}
  OBVIOUS
<1> QED BY <1>1 DEF Intra

LEMMA PatternFlags ==
    ASSUME NEW modes \in {{"pattern"}, {"pattern", "quant"}}
    PROVE  /\ modes \ {"quant"} = {"pattern"} /\ modes \cup {"quant"} = {"pattern", "quant"}
           /\ "intra" \notin modes /\ "fwd" \notin modes /\ "pattern" \in modes
           /\ (modes \ {"pattern", "quant"}) \cup {"pattern"} = {"pattern"}
OBVIOUS

\* All that can be written has a code, and nothing else is written.
LEMMA ModesCoded ==
    ASSUME NEW type \in {I, P, B}, NEW modes \in Types[type], NEW nq
    PROVE  /\ Flags(modes, nq) \in Types[type]
           /\ "intra" \in modes => "intra" \in Flags(modes, nq)
           /\ "pattern" \in modes <=> "pattern" \in Flags(modes, nq)
           /\ modes \subseteq {"intra", "fwd", "bwd", "pattern", "quant"}
<1>1. \/ Flags(modes, nq) = modes \ {"quant"}
      \/ /\ Flags(modes, nq) = modes \cup {"quant"}
         /\ "intra" \in modes \/ "pattern" \in modes
      \/ Flags(modes, nq) = modes /\ "intra" \notin modes /\ "pattern" \notin modes
  BY DEF Flags
<1>2. \A dirs \in {{"fwd"}, {"bwd"}, {"fwd", "bwd"}} : "pattern" \notin dirs /\ "quant" \notin dirs
  OBVIOUS
<1>3. \/ modes \in Intra /\ Intra \subseteq Types[type]
      \/ \E dirs \in {{"fwd"}, {"bwd"}, {"fwd", "bwd"}} :
           modes \in With(dirs) /\ With(dirs) \subseteq Types[type]
      \/ /\ modes \in {{"pattern"}, {"pattern", "quant"}}
         /\ {{"pattern"}, {"pattern", "quant"}} \subseteq Types[type]
  BY DEF Types, I, P, B
<1>4. CASE modes \in Intra /\ Intra \subseteq Types[type]
  <2>1. /\ modes \ {"quant"} \in Intra /\ modes \cup {"quant"} \in Intra
        /\ "intra" \in modes /\ "pattern" \notin modes
    BY <1>4, IntraFlags
  <2>2. modes \subseteq {"intra", "fwd", "bwd", "pattern", "quant"}
    BY <1>4 DEF Intra
  <2> QED BY <1>1, <1>4, <2>1, <2>2
<1>5. ASSUME NEW dirs \in {{"fwd"}, {"bwd"}, {"fwd", "bwd"}},
             modes \in With(dirs), With(dirs) \subseteq Types[type]
      PROVE  /\ Flags(modes, nq) \in Types[type]
             /\ "intra" \in modes => "intra" \in Flags(modes, nq)
             /\ "pattern" \in modes <=> "pattern" \in Flags(modes, nq)
             /\ modes \subseteq {"intra", "fwd", "bwd", "pattern", "quant"}
  <2>1. /\ modes \ {"quant"} \in With(dirs)
        /\ "pattern" \in modes => modes \cup {"quant"} \in With(dirs)
        /\ \A f : f \in modes => f \in dirs \cup {"pattern", "quant"}
    BY <1>2, <1>5, WithFlags
  <2>2. dirs \subseteq {"fwd", "bwd"}
    OBVIOUS
  <2>3. "intra" \notin modes /\ modes \subseteq {"intra", "fwd", "bwd", "pattern", "quant"}
    BY <2>1, <2>2
  <2>4. Flags(modes, nq) \in Types[type]
    BY <1>1, <1>5, <2>1, <2>3
  <2> QED BY <1>1, <2>3, <2>4
<1>6. CASE /\ modes \in {{"pattern"}, {"pattern", "quant"}}
           /\ {{"pattern"}, {"pattern", "quant"}} \subseteq Types[type]
  <2>1. /\ modes \ {"quant"} = {"pattern"} /\ modes \cup {"quant"} = {"pattern", "quant"}
        /\ "intra" \notin modes /\ "pattern" \in modes
    BY <1>6, PatternFlags
  <2> QED BY <1>1, <1>6, <2>1
<1> QED BY <1>3, <1>4, <1>5, <1>6

\* Stripped of its pattern a macroblock that is not to be skipped still has a code.
LEMMA PlainCoded ==
    ASSUME NEW type \in {I, P, B}, NEW modes \in Types[type], "intra" \notin modes,
           ~(type = P /\ "fwd" \notin modes)
    PROVE  modes \ {"pattern", "quant"} \in Types[type]
<1>1. \A dirs \in {{"fwd"}, {"bwd"}, {"fwd", "bwd"}} : "pattern" \notin dirs /\ "quant" \notin dirs
  OBVIOUS
<1>2. modes \notin Intra
  BY IntraFlags
<1>3. ~(modes \in {{"pattern"}, {"pattern", "quant"}} /\ type = P)
  BY PatternFlags
<1>4. PICK dirs \in {{"fwd"}, {"bwd"}, {"fwd", "bwd"}} :
        modes \in With(dirs) /\ With(dirs) \subseteq Types[type]
  BY <1>2, <1>3 DEF Types, I, P, B
<1>5. modes \ {"pattern", "quant"} = dirs /\ dirs \in With(dirs)
  BY <1>1, <1>4, WithFlags
<1> QED BY <1>4, <1>5

\* One that is to be skipped has one again, with a coefficient put back.
LEMMA BackCoded ==
    ASSUME NEW modes \in Types[P], "intra" \notin modes, "fwd" \notin modes
    PROVE  /\ (modes \ {"pattern", "quant"}) \cup {"pattern"} \in Types[P]
           /\ "pattern" \in modes
<1>1. modes \notin Intra
  BY IntraFlags
<1>2. modes \notin With({"fwd"})
  BY DEF With
<1>3. modes \in {{"pattern"}, {"pattern", "quant"}} /\ {"pattern"} \in Types[P]
  BY <1>1, <1>2 DEF Types, P
<1> QED BY <1>3, PatternFlags

-------------------------------------------------------------------------------
\* The scales inside a slice.
LEMMA ScaleInvInside ==
    ASSUME SliceInv, ScaleInv, Inside
    PROVE  /\ picture_coding_type \in {I, P, B} /\ picture.type = picture_coding_type
           /\ ext.q_scale_type \in {0, 1} /\ ScaleSet \subseteq Positive
           /\ seen.scale = last_coded_scale /\ quantizer_scale \in ScaleSet
<1>1. validPicHeader /\ validExtHeader
  BY DEF SliceInv, HeadersInv, Inside
<1>2. picture_coding_type \in {I, P, B} /\ ext.q_scale_type \in {0, 1}
  BY <1>1 DEF ScaleInv
<1> QED BY <1>1, <1>2, ScalesPositive DEF ScaleInv, SliceInv, HeadersInv

\* What a macroblock that is read leaves as it is.
LEMMA ReadKeeps ==
    ASSUME NEW modes, NEW q, Read(modes, q)
    PROVE  /\ UNCHANGED <<fact_x, tables, validPicHeader, validExtHeader, picture_coding_type,
                          ext, picture>>
           /\ ScaleSet' = ScaleSet /\ quantizer_scale' = q /\ at' = "address"
<1>1. /\ UNCHANGED <<fact_x, tables, validPicHeader, validExtHeader, picture_coding_type,
                     ext, picture>>
      /\ quantizer_scale' = q /\ at' = "address"
  BY DEF Read, scanning, headers
<1> QED BY <1>1 DEF ScaleSet, ScaleCodes

LEMMA RecodedBy ==
    ASSUME NEW m, mb' = m, NEW scale, seen'.scale = scale, UNCHANGED <<tables, picture>>,
           CloseBy(m, scale),
           m.out # {} => /\ m.out \in Types[picture.type]
                         /\ "intra" \notin m.out => ("pattern" \in m.out <=> m.outBlocks # NoBlocks)
    PROVE  Recoded'
<1>1. Close'
  BY DEF Close, CloseBy, Near
<1>2. Codable'
  BY DEF Codable
<1> QED BY <1>1, <1>2 DEF Recoded

LEMMA MacroblockRecodes ==
    ASSUME SliceInv, ScaleInv, Macroblock
    PROVE  ScaleInv' /\ Recoded'
<1>1. Inside
  BY DEF Macroblock, Inside
<1>2. /\ picture_coding_type \in {I, P, B} /\ picture.type = picture_coding_type
      /\ ext.q_scale_type \in {0, 1} /\ ScaleSet \subseteq Positive
      /\ seen.scale = last_coded_scale /\ quantizer_scale \in ScaleSet
  BY <1>1, ScaleInvInside
<1>3. PICK modes \in Types[picture_coding_type] :
        \E q \in (IF "quant" \in modes THEN ScaleSet ELSE {quantizer_scale}),
           blocks \in BlocksOf(modes) :
        \E nq \in NewQuant(q) :
           IntraMacroblock(modes, q, blocks, nq) \/ NonIntraMacroblock(modes, q, blocks, nq)
  BY DEF Macroblock
<1>4. PICK q \in ScaleSet, blocks \in BlocksOf(modes) : \E nq \in NewQuant(q) :
           IntraMacroblock(modes, q, blocks, nq) \/ NonIntraMacroblock(modes, q, blocks, nq)
  BY <1>2, <1>3
<1>5. PICK nq \in NewQuant(q) :
           IntraMacroblock(modes, q, blocks, nq) \/ NonIntraMacroblock(modes, q, blocks, nq)
  BY <1>4
<1>6. q \in Positive /\ nq \in Positive /\ q \in ScaleSet
  BY <1>2 DEF NewQuant
<1>7. blocks \in [1 .. Blocks -> Codes]
  <2>1. Coded \cup {<<>>} \subseteq Codes
    <3>1. Coded \subseteq Codes
      BY SliceAssumption DEF Codes
    <3>2. <<>> \in Codes
      BY DEF Codes
    <3> QED BY <3>1, <3>2
  <2>2. NoBlocks \in [1 .. Blocks -> Codes]
    BY <2>1 DEF NoBlocks
  <2> QED BY <2>1, <2>2 DEF BlocksOf
<1>8. Read(modes, q)
  BY <1>5 DEF IntraMacroblock, NonIntraMacroblock
<1>9. /\ UNCHANGED <<fact_x, tables, validPicHeader, validExtHeader, picture_coding_type,
                     ext, picture>>
      /\ ScaleSet' = ScaleSet /\ quantizer_scale' = q
  BY <1>8, ReadKeeps
<1>10. seen'.scale = last_coded_scale' => ScaleInv'
  BY <1>2, <1>6, <1>9 DEF ScaleInv
<1> DEFINE sent == Flags(modes, nq)
<1>11. /\ sent \in Types[picture.type] /\ ("intra" \in modes => "intra" \in sent)
       /\ ("pattern" \in modes <=> "pattern" \in sent)
  BY <1>2, ModesCoded
<1>12. ASSUME Emit(modes, nq) PROVE seen'.scale = last_coded_scale'
  BY <1>2, <1>12, EmitScale
<1>13. CASE IntraMacroblock(modes, q, blocks, nq)
  <2> DEFINE m == Pair(modes, q, blocks, nq, sent,
                       [b \in 1 .. Blocks |-> Requantised(blocks[b], q, nq, 0)])
  <2>1. "intra" \in modes /\ Emit(modes, nq) /\ mb' = m
    BY <1>13 DEF IntraMacroblock
  <2>2. seen'.scale = last_coded_scale' /\ seen'.scale = nq
    BY <1>2, <2>1, EmitScale
  <2>3. CloseBy(m, nq)
    <3> DEFINE from == 0
    <3>1. from \in Int /\ from = IF "intra" \in modes THEN 0 ELSE -1
      BY <2>1
    <3>2. m = Pair(modes, q, blocks, nq, sent, [b \in 1 .. Blocks |-> Requantised(blocks[b], q, nq, from)])
      OBVIOUS
    <3> HIDE DEF from, m, sent
    <3> QED BY <1>6, <1>7, <3>1, <3>2, RequantisedClose
  <2>4. m.out = sent /\ "intra" \in sent
    BY <1>11, <2>1, PairOf
  <2> HIDE DEF m, sent
  <2> QED BY <1>9, <1>10, <1>11, <2>1, <2>2, <2>3, <2>4, RecodedBy
<1>14. CASE NonIntraMacroblock(modes, q, blocks, nq)
  <2> DEFINE requantised == [b \in 1 .. Blocks |-> Requantised(blocks[b], q, nq, -1)]
             plain       == modes \ {"pattern", "quant"}
             back        == plain \cup {"pattern"}
             skippable   == picture_coding_type = P /\ "fwd" \notin modes
  <2>1. /\ "intra" \notin modes
        /\ \A b \in 1 .. Blocks : Legal(blocks[b], -1)
    BY <1>14 DEF NonIntraMacroblock
  <2>2. \/ /\ "pattern" \in modes /\ requantised # NoBlocks
           /\ Emit(modes, nq) /\ mb' = Pair(modes, q, blocks, nq, sent, requantised)
        \/ /\ "pattern" \notin modes
           /\ Emit(modes, nq) /\ mb' = Pair(modes, q, blocks, nq, sent, requantised)
        \/ /\ "pattern" \in modes /\ requantised = NoBlocks /\ ~skippable
           /\ Emit(plain, nq)
           /\ mb' = Pair(modes, q, blocks, nq, Flags(plain, nq), NoBlocks)
        \/ /\ "pattern" \in modes /\ requantised = NoBlocks /\ skippable
           /\ Emit(back, q)
           /\ mb' = Pair(modes, q, blocks, nq, Flags(back, q), Saved(blocks))
        \/ /\ "pattern" \in modes /\ requantised = NoBlocks
           /\ mb' = Pair(modes, q, blocks, nq, {}, NoBlocks)
           /\ UNCHANGED <<last_coded_scale, seen>>
    BY <1>14 DEF NonIntraMacroblock
  <2>3. \A b \in 1 .. Blocks : requantised[b] = Requantised(blocks[b], q, nq, -1)
    OBVIOUS
  <2>4. \A b \in 1 .. Blocks : NoBlocks[b] = <<>>
    BY DEF NoBlocks
  <2>5. requantised = NoBlocks => \A b \in 1 .. Blocks : Requantised(blocks[b], q, nq, -1) = <<>>
    <3> HIDE DEF requantised
    <3> QED BY <2>3, <2>4
  <2>6. CASE /\ "pattern" \in modes /\ requantised # NoBlocks
             /\ Emit(modes, nq) /\ mb' = Pair(modes, q, blocks, nq, sent, requantised)
    <3> DEFINE m == Pair(modes, q, blocks, nq, sent, requantised)
               from == -1
    <3>1. seen'.scale = last_coded_scale' /\ seen'.scale = nq
      BY <1>2, <2>6, EmitScale
    <3>2. from \in Int /\ from = IF "intra" \in modes THEN 0 ELSE -1
      BY <2>1
    <3>3. m = Pair(modes, q, blocks, nq, sent, [b \in 1 .. Blocks |-> Requantised(blocks[b], q, nq, from)])
      OBVIOUS
    <3>4. CloseBy(m, nq)
      <4> HIDE DEF from, m, sent
      <4> QED BY <1>6, <1>7, <3>2, <3>3, RequantisedClose
    <3>5. m.out = sent /\ m.outBlocks = requantised
      BY PairOf
    <3> HIDE DEF m, sent, requantised
    <3>6. mb' = m
      BY <2>6 DEF m
    <3> QED BY <1>9, <1>10, <1>11, <2>6, <3>1, <3>4, <3>5, <3>6, RecodedBy
  <2>7. CASE /\ "pattern" \notin modes
             /\ Emit(modes, nq) /\ mb' = Pair(modes, q, blocks, nq, sent, requantised)
    <3> DEFINE m == Pair(modes, q, blocks, nq, sent, NoBlocks)
               from == -1
    <3>1. blocks = NoBlocks
      BY <2>1, <2>7 DEF BlocksOf
    <3>2. \A b \in 1 .. Blocks : Requantised(blocks[b], q, nq, -1) = <<>>
      <4> SUFFICES ASSUME NEW b \in 1 .. Blocks
                   PROVE  Requantised(blocks[b], q, nq, from) = <<>>
        OBVIOUS
      <4>1. blocks[b] = <<>> /\ from \in Int
        BY <2>4, <3>1
      <4> HIDE DEF from
      <4> QED BY <1>6, <4>1, EmptyRequantised DEF Positive
    <3>3. requantised = NoBlocks
      BY <3>2 DEF NoBlocks
    <3>4. mb' = m
      BY <2>7, <3>3
    <3>5. CloseBy(m, seen'.scale)
      BY <1>6, <1>7, <2>1, <3>2, NothingClose
    <3>6. m.out = sent /\ m.outBlocks = NoBlocks
      BY PairOf
    <3> HIDE DEF m, sent, requantised
    <3> QED BY <1>9, <1>10, <1>11, <1>12, <2>7, <3>4, <3>5, <3>6, RecodedBy
  <2>8. CASE /\ "pattern" \in modes /\ requantised = NoBlocks /\ ~skippable
             /\ Emit(plain, nq)
             /\ mb' = Pair(modes, q, blocks, nq, Flags(plain, nq), NoBlocks)
    <3> DEFINE less == Flags(plain, nq)
               m    == Pair(modes, q, blocks, nq, less, NoBlocks)
    <3>1. seen'.scale = last_coded_scale'
      <4> HIDE DEF plain
      <4> QED BY <1>2, <2>8, EmitScale
    <3>2. CloseBy(m, seen'.scale)
      BY <1>6, <1>7, <2>1, <2>5, <2>8, NothingClose
    <3>3. m.out = less /\ m.outBlocks = NoBlocks
      BY PairOf
    <3>4. plain \in Types[picture.type] /\ "pattern" \notin plain
      BY <1>2, <2>1, <2>8, PlainCoded
    <3>5. less \in Types[picture.type] /\ "pattern" \notin less
      <4> HIDE DEF plain
      <4> QED BY <1>2, <3>4, ModesCoded
    <3>6. mb' = m
      BY <2>8
    <3> HIDE DEF m, less, requantised
    <3> QED BY <1>9, <1>10, <3>1, <3>2, <3>3, <3>5, <3>6, RecodedBy
  <2>9. CASE /\ "pattern" \in modes /\ requantised = NoBlocks /\ skippable
             /\ Emit(back, q)
             /\ mb' = Pair(modes, q, blocks, nq, Flags(back, q), Saved(blocks))
    <3> DEFINE less == Flags(back, q)
               m    == Pair(modes, q, blocks, nq, less, Saved(blocks))
    <3>1. seen'.scale = last_coded_scale' /\ seen'.scale = q
      <4>1. back \cap {"intra", "pattern"} # {}
        OBVIOUS
      <4> HIDE DEF back
      <4> QED BY <1>2, <2>9, <4>1, EmitScale
    <3>2. PICK c \in 1 .. Blocks : blocks[c] # <<>>
      <4>1. blocks # NoBlocks
        BY <2>1, <2>9 DEF BlocksOf
      <4> QED BY <1>7, <4>1 DEF NoBlocks
    <3>3. CloseBy(m, q) /\ Saved(blocks) # NoBlocks
      <4>1. Legal(blocks[c], -1) /\ \A b \in 1 .. Blocks : Requantised(blocks[b], q, nq, -1) = <<>>
        BY <2>1, <2>5, <2>9
      <4> HIDE DEF less
      <4> QED BY <1>6, <1>7, <2>1, <3>2, <4>1, SavedClose
    <3>4. m.out = less /\ m.outBlocks = Saved(blocks)
      BY PairOf
    <3>5. back \in Types[picture.type] /\ "pattern" \in back
      BY <1>2, <2>1, <2>9, BackCoded
    <3>6. less \in Types[picture.type] /\ "pattern" \in less
      <4> HIDE DEF back
      <4> QED BY <1>2, <3>5, ModesCoded
    <3>7. mb' = m
      BY <2>9
    <3> HIDE DEF m, less, requantised
    <3> QED BY <1>9, <1>10, <3>1, <3>3, <3>4, <3>6, <3>7, RecodedBy
  <2>10. CASE /\ "pattern" \in modes /\ requantised = NoBlocks
              /\ mb' = Pair(modes, q, blocks, nq, {}, NoBlocks)
              /\ UNCHANGED <<last_coded_scale, seen>>
    <3> DEFINE m == Pair(modes, q, blocks, nq, {}, NoBlocks)
    <3>1. seen'.scale = last_coded_scale'
      BY <1>2, <2>10
    <3>2. CloseBy(m, seen'.scale)
      BY <1>6, <1>7, <2>1, <2>5, <2>10, NothingClose
    <3>3. m.out = {}
      BY PairOf
    <3>4. mb' = m
      BY <2>10
    <3> HIDE DEF m, requantised
    <3> QED BY <1>9, <1>10, <3>1, <3>2, <3>3, <3>4, RecodedBy
  <2> HIDE DEF requantised, sent, plain, back, skippable
  <2> QED BY <2>2, <2>6, <2>7, <2>8, <2>9, <2>10
<1> QED BY <1>5, <1>13, <1>14

LEMMA BeginScales ==
    ASSUME ScaleInv, BeginSlice
    PROVE  ScaleInv'
<1>1. /\ validExtHeader
      /\ UNCHANGED <<validPicHeader, validExtHeader, picture_coding_type, ext, picture>>
  BY DEF BeginSlice, scanning, headers
<1>2. ScaleSet' = ScaleSet
  BY <1>1 DEF ScaleSet, ScaleCodes
<1>3. PICK code \in 1 .. Rows + 1, q \in 0 .. Len(ScaleCodes), inc \in 0 .. Width + 1 :
      \E nq \in NewQuant(ScaleCodes[IF q = 0 THEN 1 ELSE q]) :
        /\ quantizer_scale' = ScaleCodes[IF q = 0 THEN 1 ELSE q]
        /\ last_coded_scale' = nq /\ seen' = Fresh(nq)
        /\ IF inc = 0 THEN Leave(TRUE)
           ELSE IF v_offset' > Rows - 1 THEN Leave(q = 0)
           ELSE IF q = 0 THEN Leave(TRUE)
           ELSE at' = "macroblock" /\ sliceError' = FALSE
  BY DEF BeginSlice
<1>4. seen'.scale = last_coded_scale'
  BY <1>3 DEF Fresh
<1>5. at' = "flush" \/ (at' = "macroblock" /\ q # 0)
  BY <1>3 DEF Leave
<1>6. q # 0 => quantizer_scale' \in ScaleSet
  <2>1. ScaleCodes \in Seq(Nat \ {0})
    BY <1>1, SliceAssumption DEF ScaleInv, ScaleCodes
  <2>2. DOMAIN ScaleCodes = 1 .. Len(ScaleCodes) /\ Len(ScaleCodes) \in Nat
    BY <2>1
  <2> QED BY <1>3, <2>2 DEF ScaleSet, Range
<1> QED BY <1>1, <1>2, <1>4, <1>5, <1>6 DEF ScaleInv, Inside

LEMMA ScanScales ==
    ASSUME ScaleInv,
           FillTables \/ Request \/ Search \/ SequenceHeader \/ PictureHeader \/ PictureExtension
    PROVE  ScaleInv'
<1>1. ~Inside'
  BY DEF FillTables, Request, Search, SequenceHeader, PictureHeader, PictureExtension, Scanned,
         Inside
<1>2. CASE FillTables \/ Request \/ Search
  BY <1>1, <1>2 DEF FillTables, Request, Search, scanning, headers, ScaleInv
<1>3. CASE SequenceHeader
  BY <1>1, <1>3 DEF SequenceHeader, ScaleInv
<1>4. CASE PictureHeader
  <2>1. PICK type \in 0 .. 3 : picture_coding_type' = type /\ validPicHeader' = (type # 0)
    BY <1>4 DEF PictureHeader
  <2>2. validPicHeader' => picture_coding_type' \in {I, P, B}
    <3>1. type # 0 => type \in {I, P, B}
      BY DEF I, P, B
    <3>2. validPicHeader' => type # 0
      BY <2>1, Zenon
    <3> QED BY <2>1, <3>1, <3>2
  <2>3. ~validExtHeader'
    BY <1>4 DEF PictureHeader, ExtAfterPicture
  <2> QED BY <1>1, <2>2, <2>3 DEF ScaleInv
<1>5. CASE PictureExtension
  BY <1>1, <1>5, SliceAssumption DEF PictureExtension, ScaleInv
<1> QED BY <1>2, <1>3, <1>4, <1>5

LEMMA LeaveScales ==
    ASSUME ScaleInv, BadCode \/ PictureEnds \/ SliceEnds \/ NextAddress \/ EndSlice
    PROVE  ScaleInv'
<1>1. UNCHANGED <<validPicHeader, validExtHeader, picture_coding_type, ext, quantizer_scale,
                  last_coded_scale, seen>>
  BY DEF BadCode, PictureEnds, SliceEnds, NextAddress, EndSlice, InSlice, scanning, headers, slice
<1>2. Inside' => Inside
  BY DEF BadCode, PictureEnds, SliceEnds, NextAddress, EndSlice, Leave, Inside
<1>3. ScaleSet' = ScaleSet
  BY <1>1 DEF ScaleSet, ScaleCodes
<1> QED BY <1>1, <1>2, <1>3 DEF ScaleInv

\* Whatever the coefficients, the scales and the tables are: the macroblock a decoder gets
\* differs from the one that was read by less than the scale that was tried, coefficient
\* by coefficient, by the scale that this decoder has; and what is written has a code
\* (requant.c, get_non_intra_block_rq(), mb_sav_lev, last_coded_scale and putcbp()).
THEOREM Recodes == SliceSpec => []Recoded
<1>1. SliceInit => ScaleInv /\ Recoded
  BY DEF SliceInit, ScaleInv, Recoded, Close, Codable, Inside
<1>2. SliceInv /\ ScaleInv /\ Recoded /\ [SliceNext]_sliceVars => ScaleInv' /\ Recoded'
  <2> SUFFICES ASSUME SliceInv, ScaleInv, Recoded, [SliceNext]_sliceVars
               PROVE  ScaleInv' /\ Recoded'
    OBVIOUS
  <2>1. CASE UNCHANGED sliceVars
    <3>1. UNCHANGED <<tables, at, mb, seen, picture, validPicHeader, validExtHeader,
                      picture_coding_type, ext, quantizer_scale, last_coded_scale>>
      BY <2>1 DEF sliceVars, scanning, headers, slice
    <3>2. ScaleInv'
      BY <3>1 DEF ScaleInv, Inside, ScaleSet, ScaleCodes
    <3>3. Recoded'
      BY <3>1 DEF Recoded, Close, Codable
    <3> QED BY <3>2, <3>3
  <2>2. CASE Macroblock
    BY <2>2, MacroblockRecodes
  <2>3. ASSUME SliceNext, ~Macroblock
        PROVE  ScaleInv' /\ Recoded'
    <3>1. at' # "address"
      BY <2>3 DEF SliceNext, FillTables, Request, Search, SequenceHeader, PictureHeader,
                  PictureExtension, Scanned, BeginSlice, BadCode, PictureEnds, SliceEnds,
                  NextAddress, EndSlice, Leave
    <3>2. Recoded'
      BY <3>1 DEF Recoded, Close, Codable
    <3>3. ScaleInv'
      BY <2>3, BeginScales, ScanScales, LeaveScales DEF SliceNext
    <3> QED BY <3>2, <3>3
  <2> QED BY <2>1, <2>2, <2>3
<1> QED BY <1>1, <1>2, SliceInvariance, PTL DEF SliceSpec
-------------------------------------------------------------------------------
(***************************************************************************)
(* The program stream                                                      *)
(***************************************************************************)
\* wb and out are buffers of sector numbers, and wb has room for one more.
Buffers == /\ wb \in Seq(Nat) /\ out \in Seq(Nat)
           /\ Len(wb) < WBUF /\ rp \in Nat

\* What is copied is added at the end of what is written, flushed or not.
LEMMA CopyWrites ==
    ASSUME Buffers, Copy
    PROVE  Buffers' /\ rp' = rp + 1 /\ Written' = Append(Written, rp + 1)
<1> DEFINE w == Append(wb, rp + 1)
<1>1. /\ w \in Seq(Nat) /\ Len(w) = Len(wb) + 1 /\ out \o w \in Seq(Nat)
      /\ out \o w = Append(out \o wb, rp + 1)
    BY DEF Buffers
<1>2. rp' = rp + 1 /\ rp' \in Nat
    BY DEF Copy, Buffers
<1>3. CASE Len(w) = WBUF
    <2>1. wb' = <<>> /\ out' = out \o w
        BY <1>3 DEF Copy, Put
    <2>2. out' \o wb' = out \o w
        BY <1>1, <2>1
    <2>3. wb' \in Seq(Nat) /\ Len(wb') < WBUF /\ out' \in Seq(Nat)
        BY <1>1, <2>1, StreamAssumption
    <2> QED
        BY <1>1, <1>2, <2>2, <2>3 DEF Written, Buffers
<1>4. CASE Len(w) # WBUF
    <2>1. wb' = w /\ out' = out
        BY <1>4 DEF Copy, Put
    <2>2. Len(w) < WBUF
        <3>1. Len(wb) \in Nat /\ Len(w) = Len(wb) + 1 /\ Len(wb) < WBUF
            BY <1>1 DEF Buffers
        <3>2. WBUF \in Nat
            BY StreamAssumption
        <3> QED
            BY <1>4, <3>1, <3>2
    <2>3. out' \o wb' = Append(out \o wb, rp + 1)
        BY <1>1, <2>1
    <2>4. wb' \in Seq(Nat) /\ Len(wb') < WBUF /\ out' \in Seq(Nat)
        BY <1>1, <2>1, <2>2 DEF Buffers
    <2> QED
        BY <1>2, <2>3, <2>4 DEF Written, Buffers
<1> QED
    BY <1>3, <1>4

\* A flush changes nothing in what is written.
LEMMA FlushWrites ==
    ASSUME Buffers, Flush, rp' = rp
    PROVE  Buffers' /\ Written' = Written
<1>1. out \o wb \in Seq(Nat) /\ (out \o wb) \o <<>> = out \o wb
    BY DEF Buffers
<1>2. wb' = <<>> /\ out' = out \o wb
    BY DEF Flush
<1>3. wb' \in Seq(Nat) /\ Len(wb') < WBUF
    BY <1>2, StreamAssumption
<1> QED
    BY <1>1, <1>2, <1>3 DEF Buffers, Written

\* Written is strictly increasing, ends before rptr, holds what must be kept and
\* nothing that must be dropped.
Ordered  == \A i, j \in 1 .. Len(Written) : i < j => Written[i] < Written[j]
ReadBefore == \A i \in 1 .. Len(Written) : Written[i] <= rp
Complete == \A s \in 1 .. rp : ps[s] \in {"aux", "nav"} =>
                                \E i \in 1 .. Len(Written) : Written[i] = s
Clean    == \A i \in 1 .. Len(Written) : ps[Written[i]] \notin {"drop", "gap"}
SelInv   == Buffers /\ Ordered /\ ReadBefore /\ Complete /\ Clean

\* Copying a sector that need not be dropped.
LEMMA CopyStep ==
    ASSUME SelInv, Copy, ps' = ps, ps[rp + 1] \notin {"drop", "gap"}
    PROVE  SelInv'
<1>1. Buffers' /\ rp' = rp + 1 /\ Written' = Append(Written, rp + 1)
    BY CopyWrites DEF SelInv
<1>2. Written \in Seq(Nat) /\ rp \in Nat
    BY DEF SelInv, Buffers, Written
<1>3. /\ Len(Written') = Len(Written) + 1 /\ Len(Written) \in Nat
      /\ Written'[Len(Written) + 1] = rp + 1
      /\ \A i \in 1 .. Len(Written) : Written'[i] = Written[i] /\ Written[i] \in Nat
    BY <1>1, <1>2
<1>4. ReadBefore'
    BY <1>1, <1>2, <1>3, SMT DEF SelInv, ReadBefore
<1>5. Ordered'
    <2> SUFFICES ASSUME NEW i \in 1 .. Len(Written'), NEW j \in 1 .. Len(Written'),
                        i < j
                 PROVE  Written'[i] < Written'[j]
        BY DEF Ordered
    <2>1. i \in 1 .. Len(Written) /\ Written'[i] = Written[i] /\ Written[i] <= rp
        BY <1>3 DEF SelInv, ReadBefore
    <2>2. CASE j = Len(Written) + 1
        BY <1>2, <1>3, <2>1, <2>2
    <2>3. CASE j # Len(Written) + 1
        <3>1. j \in 1 .. Len(Written) /\ Written'[j] = Written[j]
            BY <1>3, <2>3
        <3> QED
            BY <2>1, <3>1 DEF SelInv, Ordered
    <2> QED
        BY <2>2, <2>3
<1>6. Complete'
    <2> SUFFICES ASSUME NEW s \in 1 .. rp', ps[s] \in {"aux", "nav"}
                 PROVE  \E i \in 1 .. Len(Written') : Written'[i] = s
        BY DEF Complete
    <2>1. CASE s = rp + 1
        BY <1>3, <2>1
    <2>2. CASE s # rp + 1
        <3>1. s \in 1 .. rp
            BY <1>1, <1>2, <2>2
        <3>2. PICK i \in 1 .. Len(Written) : Written[i] = s
            BY <3>1 DEF SelInv, Complete
        <3> QED
            BY <1>3, <3>2
    <2> QED
        BY <2>1, <2>2
<1>7. Clean'
    <2> SUFFICES ASSUME NEW i \in 1 .. Len(Written')
                 PROVE  ps[Written'[i]] \notin {"drop", "gap"}
        BY DEF Clean
    <2>1. CASE i = Len(Written) + 1
        BY <1>3, <2>1
    <2>2. CASE i # Len(Written) + 1
        <3>1. i \in 1 .. Len(Written)
            BY <1>3, <2>2
        <3> QED
            BY <1>3, <3>1 DEF SelInv, Clean
    <2> QED
        BY <2>1, <2>2
<1> QED
    BY <1>1, <1>4, <1>5, <1>6, <1>7 DEF SelInv

\* Skipping a sector that need not be kept.
LEMMA SkipStep ==
    ASSUME SelInv, Skip, ps' = ps, ps[rp + 1] \notin {"aux", "nav"}
    PROVE  SelInv'
<1>1. Written' = Written /\ rp' = rp + 1 /\ Buffers'
    BY DEF Skip, Written, SelInv, Buffers
<1>2. Written \in Seq(Nat) /\ rp \in Nat
    BY DEF SelInv, Buffers, Written
<1>3. Ordered' /\ ReadBefore'
    BY <1>1, <1>2, SMT DEF SelInv, Ordered, ReadBefore
<1>4. Complete' /\ Clean'
    <2>1. \A s \in 1 .. rp' : s # rp + 1 => s \in 1 .. rp
        BY <1>1, <1>2
    <2> QED
        BY <1>1, <1>2, <2>1, SMT DEF SelInv, Complete, Clean
<1> QED
    BY <1>1, <1>3, <1>4 DEF SelInv

\* Neither copying nor skipping, flushed or not.
LEMMA RestStep ==
    ASSUME SelInv, ps' = ps, rp' = rp, Flush \/ UNCHANGED <<wb, out>>
    PROVE  SelInv'
<1>1. Written' = Written /\ Buffers'
    BY FlushWrites DEF SelInv, Written, Buffers
<1> QED
    BY <1>1 DEF SelInv, Ordered, ReadBefore, Complete, Clean

LEMMA SelStep == ASSUME SelInv, [Next]_vars PROVE SelInv'
<1>1. CASE LeaderRead
    BY <1>1, RestStep DEF LeaderRead
<1>2. CASE LeaderSector
    BY <1>2, CopyStep, SkipStep, RestStep DEF LeaderSector, Stay
<1>3. CASE Phase1Read
    BY <1>3, RestStep DEF Phase1Read
<1>4. CASE Phase1Sector
    BY <1>4, RestStep DEF Phase1Sector
<1>5. CASE Shrink
    BY <1>5, RestStep DEF Shrink
<1>6. CASE Phase2Sector
    BY <1>6, CopyStep, SkipStep, RestStep DEF Phase2Sector, Stay, VideoKinds
<1>7. CASE EndGop
    BY <1>7, RestStep DEF EndGop
<1>8. CASE TrailerSector
    <2>1. ps' = ps
        BY <1>8 DEF TrailerSector
    <2>2. CASE Stay
        BY <2>1, <2>2, RestStep DEF Stay
    <2>3. CASE ~Stay
        BY <1>8, <2>1, <2>3, CopyStep, SkipStep DEF TrailerSector
    <2> QED
        BY <2>2, <2>3
<1>9. CASE EndTrailer
    BY <1>9, RestStep DEF EndTrailer
<1>10. CASE Fatal \/ Terminated \/ UNCHANGED vars
    BY <1>10, RestStep DEF Fatal, Terminated, vars
<1> QED
    BY <1>1, <1>2, <1>3, <1>4, <1>5, <1>6, <1>7, <1>8, <1>9, <1>10 DEF Next, Step

\* In every stream, what has been written is in order, once each, complete in
\* what is selected and free of what is not.
THEOREM Selection == Spec => []Selected
<1>1. Init => SelInv
    BY StreamAssumption
    DEF Init, SelInv, Buffers, Ordered, ReadBefore, Complete, Clean, Written
<1>2. SelInv => Selected
    BY DEF SelInv, Ordered, ReadBefore, Complete, Clean, Selected
<1> QED
    BY <1>1, <1>2, SelStep, PTL DEF Spec

\* copy() always finds room in wbuf: no loop forgets to flush.
THEOREM RoomToWrite == Spec => []WriteRoom
<1>1. Init => SelInv
    BY StreamAssumption
    DEF Init, SelInv, Buffers, Ordered, ReadBefore, Complete, Clean, Written
<1>2. SelInv => WriteRoom
    BY DEF SelInv, Buffers, WriteRoom
<1> QED
    BY <1>1, <1>2, SelStep, PTL DEF Spec

-------------------------------------------------------------------------------
\* Where rptr and rhwp are: in every phase the sectors it is about to look at, and
\* the one that the GOP ended at, have been read.
Pointers == /\ ps \in Streams
            /\ rp \in Nat /\ rd \in Nat /\ rp <= rd /\ rd <= Len(ps)
            /\ base \in Nat /\ base <= rp /\ seq \in Nat /\ k \in Nat
            /\ pc = "leader"  => seq = 0
            /\ pc = "phase1"  => rp + seq <= rd /\ rp + 1 <= rd
            /\ pc = "shrink"  => rp + seq + 1 <= rd
            /\ pc = "phase2"  => k <= seq /\ rp + (seq - k) + 1 <= rd
            /\ pc = "trailer" => k <= seq /\ rp + (seq - k) <= rd

\* The leader has no sequence header.
Leader == pc = "leader" => \A i \in 1 .. rp : ps[i] # "seq"

\* A GOP of an orderly stream begins with a sequence header, has no other, and is
\* followed by one or by the end of the stream.
Gop == Orderly(ps) =>
          /\ pc = "phase1"  => /\ ps[rp + 1] = "seq"
                               /\ \A i \in rp + 2 .. rp + seq : ps[i] # "seq"
          /\ pc = "shrink"  => ps[rp + seq + 1] = "seq"
          /\ pc = "phase2"  => ps[rp + (seq - k) + 1] = "seq"
          /\ pc = "trailer" => rp + (seq - k) = rd /\ rd = Len(ps)

RunInv == Pointers /\ Leader /\ Gop /\ InBuffer

\* What lock() may read, and where it puts it.
LEMMA ReadBounds ==
    ASSUME Pointers, NEW n \in Readable
    PROVE  /\ n \in Nat /\ rd + n <= Len(ps) /\ n <= ReadMax
           /\ n > 0 => n <= RBUF - avail
           /\ n = 0 => RBUF = avail \/ rd = Len(ps)
<1> DEFINE most == MinOf(ReadMax, MinOf(RBUF - avail, Len(ps) - rd))
<1>1. /\ Len(ps) \in Nat /\ rd \in Nat /\ rp \in Nat /\ rd <= Len(ps)
      /\ RBUF \in Nat \ {0} /\ ReadMax \in Nat \ {0} /\ avail = rd - rp
  BY StreamAssumption DEF Pointers, avail
<1>2. /\ most \in Int /\ most <= ReadMax /\ most <= RBUF - avail /\ most <= Len(ps) - rd
      /\ most = 0 => RBUF = avail \/ rd = Len(ps)
  BY <1>1 DEF MinOf
<1>3. (most = 0 /\ n = 0) \/ (most # 0 /\ n \in 1 .. most)
  BY DEF Readable
<1> HIDE DEF most
<1> QED BY <1>1, <1>2, <1>3

LEMMA ReadSteps == ASSUME RunInv, LeaderRead \/ Phase1Read PROVE RunInv'
<1> USE DEF RunInv
<1>0. /\ rp \in Nat /\ rd \in Nat /\ rp <= rd /\ rd <= Len(ps) /\ base \in Nat /\ base <= rp
      /\ seq \in Nat /\ k \in Nat /\ ps \in Streams /\ Len(ps) \in Nat
      /\ RBUF \in Nat \ {0} /\ ReadMax \in Nat \ {0}
  BY StreamAssumption DEF Pointers
<1>1. CASE LeaderRead
  <2>1. PICK n \in Readable :
          /\ Lock(1, n)
          /\ \/ n > 0 /\ Then("leader")
             \/ pc' = "done"
    BY <1>1 DEF LeaderRead
  <2>2. pc = "leader" /\ seq = 0 /\ UNCHANGED <<ps, rp, seq, k>>
    BY <1>1 DEF LeaderRead, Pointers
  <2>3. n \in Nat /\ rd + n <= Len(ps) /\ n <= ReadMax
    BY ReadBounds
  <2>4. avail = 0 /\ rd' = rd + n /\ base' = base
    BY <1>0, <2>1 DEF Lock, avail
  <2>5. pc' \in {"leader", "overrun", "done"}
    BY <2>1 DEF Then
  <2>6. Pointers' /\ Leader' /\ Gop'
    BY <1>0, <2>2, <2>3, <2>4, <2>5 DEF Pointers, Leader, Gop
  <2>7. ASSUME ShortLeader(ps) PROVE pc' # "overrun"
    <3>1. PICK i \in 1 .. Len(ps) : i <= RBUF - ReadMax + 1 /\ ps[i] = "seq"
      BY <2>7 DEF ShortLeader
    <3>2. rp < i
      BY <1>0, <2>2, <3>1 DEF Leader
    <3>3. base + n <= RBUF
      BY <1>0, <2>3, <3>1, <3>2
    <3>4. base' + avail + (rd' - rd) <= RBUF
      BY <1>0, <2>3, <2>4, <3>3
    <3> QED BY <2>1, <3>4 DEF Then
  <2>8. InBuffer'
    BY <2>2, <2>7 DEF InBuffer
  <2> QED BY <2>6, <2>8
<1>2. CASE Phase1Read
  <2>1. PICK n \in Readable :
          /\ Lock(seq + 1, n)
          /\ \/ n > 0 /\ Then("phase1") /\ UNCHANGED k
             \/ n = 0 /\ pc' = "trailer" /\ k' = 0
    BY <1>2 DEF Phase1Read
  <2>2. pc = "phase1" /\ rp + seq <= rd /\ rp + 1 <= rd /\ UNCHANGED <<ps, rp, seq>>
    BY <1>2 DEF Phase1Read, Pointers
  <2>3. /\ n \in Nat /\ rd + n <= Len(ps)
        /\ n > 0 => n <= RBUF - avail
        /\ n = 0 => RBUF = avail \/ rd = Len(ps)
    BY ReadBounds
  <2>4. avail = seq /\ avail > 0 /\ rd' = rd + n /\ base' = 0
    BY <1>0, <2>1, <2>2 DEF Lock, avail
  <2>5. \/ n > 0 /\ pc' = "phase1" /\ UNCHANGED k
        \/ n = 0 /\ pc' = "trailer" /\ k' = 0
    BY <1>0, <2>1, <2>3, <2>4 DEF Then
  <2>6. Pointers' /\ Leader' /\ InBuffer'
    BY <1>0, <2>2, <2>3, <2>4, <2>5 DEF Pointers, Leader, InBuffer
  <2>7. ASSUME Orderly(ps), n = 0 PROVE rd = Len(ps)
    <3>1. ps[rp + 1] = "seq" /\ \A i \in rp + 2 .. rp + seq : ps[i] # "seq"
      BY <2>2, <2>7 DEF Gop
    <3>2. ASSUME rd < Len(ps) PROVE FALSE
      <4>1. seq = RBUF /\ rp + seq = rd
        BY <1>0, <2>3, <2>4, <2>7, <3>2 DEF avail
      <4>2. rp + 1 \in 1 .. Len(ps) /\ (rp + 1) + RBUF <= Len(ps)
        BY <1>0, <3>2, <4>1
      <4>3. PICK j \in (rp + 1) + 1 .. (rp + 1) + RBUF - 1 : ps[j] = "seq"
        BY <2>7, <3>1, <4>2 DEF Orderly, GopsFit
      <4>4. j \in rp + 2 .. rp + seq
        BY <1>0, <4>1
      <4> QED BY <3>1, <4>3, <4>4
    <3> QED BY <1>0, <3>2
  <2>8. Gop'
    <3>1. CASE pc' = "phase1"
      BY <2>2, <3>1 DEF Gop
    <3>2. CASE pc' = "trailer" /\ n = 0 /\ k' = 0
      <4>1. rp + seq = rd /\ rd' = rd
        BY <1>0, <2>4, <3>2 DEF avail
      <4> QED BY <1>0, <2>2, <2>7, <3>2, <4>1 DEF Gop
    <3> QED BY <2>5, <3>1, <3>2
  <2> QED BY <2>6, <2>8
<1> QED BY <1>1, <1>2

\* How far a sector that is worked off moves rptr.
LEMMA Moved ==
    ASSUME rp \in Nat, base \in Nat, Copy \/ Skip \/ Stay
    PROVE  /\ rp' \in {rp, rp + 1} /\ base' - base = rp' - rp /\ base' \in Nat
           /\ ~Stay => rp' = rp + 1
BY DEF Copy, Skip, Stay

LEMMA SectorSteps ==
    ASSUME RunInv, LeaderSector \/ Phase1Sector \/ Phase2Sector \/ TrailerSector
    PROVE  RunInv'
<1> USE DEF RunInv
<1>0. /\ rp \in Nat /\ rd \in Nat /\ rp <= rd /\ rd <= Len(ps) /\ base \in Nat /\ base <= rp
      /\ seq \in Nat /\ k \in Nat /\ ps \in Streams /\ Len(ps) \in Nat
  BY StreamAssumption DEF Pointers
<1>1. CASE LeaderSector
  <2>1. /\ pc = "leader" /\ rp + 1 <= rd /\ seq = 0 /\ UNCHANGED <<ps, rd, seq, k>>
        /\ \/ ps[rp + 1] = "seq" /\ pc' = "phase1" /\ UNCHANGED <<rp, base>>
           \/ ps[rp + 1] # "seq" /\ pc' = pc /\ (Copy \/ Skip \/ Stay)
    BY <1>0, <1>1 DEF LeaderSector, avail, Pointers, Stay
  <2>2. CASE ps[rp + 1] = "seq" /\ pc' = "phase1" /\ UNCHANGED <<rp, base>>
    <3>1. rp + 2 .. rp + seq = {}
      BY <1>0, <2>1
    <3>2. Gop'
      BY <2>1, <2>2, <3>1 DEF Gop
    <3> QED BY <1>0, <2>1, <2>2, <3>2 DEF Pointers, Leader, InBuffer
  <2>3. CASE ps[rp + 1] # "seq" /\ pc' = pc /\ (Copy \/ Skip \/ Stay)
    <3>1. rp' \in {rp, rp + 1} /\ base' - base = rp' - rp /\ base' \in Nat
      BY <1>0, <2>3, Moved
    <3>2. Pointers' /\ Gop' /\ InBuffer'
      BY <1>0, <2>1, <2>3, <3>1 DEF Pointers, Gop, InBuffer
    <3>3. \A i \in 1 .. rp' : i \in 1 .. rp \/ i = rp + 1
      BY <1>0, <3>1
    <3>4. Leader'
      BY <2>1, <2>3, <3>3 DEF Leader
    <3> QED BY <3>2, <3>4
  <2> QED BY <2>1, <2>2, <2>3
<1>2. CASE Phase1Sector
  <2>1. /\ pc = "phase1" /\ rp + seq + 1 <= rd /\ UNCHANGED <<ps, rd, rp, base, k>>
        /\ \/ ps[rp + seq + 1] = "seq" /\ pc' = "shrink" /\ UNCHANGED seq
           \/ /\ ~(ps[rp + seq + 1] = "seq" /\ seq > 0)
              /\ pc' = pc /\ seq' = seq + 1
    BY <1>0, <1>2 DEF Phase1Sector, avail
  <2>2. Pointers' /\ Leader' /\ InBuffer'
    BY <1>0, <2>1 DEF Pointers, Leader, InBuffer
  <2>3. CASE ps[rp + seq + 1] = "seq" /\ pc' = "shrink" /\ UNCHANGED seq
    BY <2>1, <2>2, <2>3 DEF Gop
  <2>4. CASE /\ ~(ps[rp + seq + 1] = "seq" /\ seq > 0)
             /\ pc' = pc /\ seq' = seq + 1
    <3>1. \A i \in rp + 2 .. rp + seq' : i \in rp + 2 .. rp + seq \/ (i = rp + seq + 1 /\ seq > 0)
      BY <1>0, <2>4
    <3>2. Gop'
      BY <2>1, <2>4, <3>1 DEF Gop
    <3> QED BY <2>2, <3>2
  <2> QED BY <2>1, <2>3, <2>4
<1>3. CASE Phase2Sector \/ TrailerSector
  <2>1. /\ pc \in {"phase2", "trailer"} /\ k < seq /\ k' = k + 1 /\ UNCHANGED <<ps, pc, rd, seq>>
        /\ Copy \/ Skip \/ Stay
    BY <1>3 DEF Phase2Sector, TrailerSector
  <2>2. rp' \in {rp, rp + 1} /\ base' - base = rp' - rp /\ base' \in Nat
    BY <1>0, <2>1, Moved
  <2>3. rp + (seq - k) <= rd
    BY <1>0, <2>1 DEF Pointers
  <2>a. Leader' /\ InBuffer'
    BY <2>1 DEF Leader, InBuffer
  <2>b. /\ rp' \in Nat /\ base' <= rp' /\ k' \in Nat /\ k' <= seq /\ rp' <= rd
    <3>1. k < seq /\ k' = k + 1
      BY <2>1
    <3>2. rp' \in Nat /\ base' <= rp' /\ rp' <= rp + 1
      BY <1>0, <2>2
    <3>3. k' \in Nat /\ k' <= seq
      BY <1>0, <3>1
    <3>4. rp' <= rd
      BY <1>0, <2>3, <3>1, <3>2
    <3> QED BY <3>2, <3>3, <3>4
  <2>c. /\ rp' + (seq - k') <= rd
        /\ rp + (seq - k) + 1 <= rd => rp' + (seq - k') + 1 <= rd
    <3>1. k' = k + 1 /\ rp' <= rp + 1
      BY <1>0, <2>1, <2>2
    <3>2. /\ rp \in Int /\ rp' \in Int /\ seq \in Int /\ k \in Int /\ k' \in Int /\ rd \in Int
      BY <1>0, <2>b
    <3>3. CASE rp' = rp
      BY <2>3, <3>1, <3>2, <3>3
    <3>4. CASE rp' = rp + 1
      <4>1. rp' + (seq - k') = rp + (seq - k)
        BY <3>1, <3>2, <3>4
      <4> QED BY <2>3, <4>1
    <3> QED BY <2>2, <3>3, <3>4
  <2>4. Pointers' /\ Leader' /\ InBuffer'
    BY <1>0, <2>1, <2>2, <2>a, <2>b, <2>c DEF Pointers
  <2>5. ASSUME Orderly(ps) PROVE rp' = rp + 1
    <3>1. rp + 1 \in 1 .. Len(ps)
      BY <1>0, <2>1, <2>3
    <3>2. ps[rp + 1] # "pad"
      BY <2>5, <3>1 DEF Orderly
    <3>3. Copy \/ Skip
      BY <1>3, <3>2 DEF Phase2Sector, TrailerSector
    <3> QED BY <3>3 DEF Copy, Skip
  <2>6. Gop'
    <3>1. ASSUME Orderly(ps) PROVE rp' + (seq' - k') = rp + (seq - k)
      BY <1>0, <2>1, <2>5, <3>1
    <3> QED BY <2>1, <3>1 DEF Gop
  <2> QED BY <2>4, <2>6
<1> QED BY <1>1, <1>2, <1>3

LEMMA OtherSteps ==
    ASSUME RunInv, Shrink \/ EndGop \/ EndTrailer \/ Fatal \/ UNCHANGED vars
    PROVE  RunInv'
<1> USE DEF RunInv
<1>0. /\ rp \in Nat /\ rd \in Nat /\ rp <= rd /\ rd <= Len(ps) /\ base \in Nat /\ base <= rp
      /\ seq \in Nat /\ k \in Nat /\ ps \in Streams /\ Len(ps) \in Nat
  BY StreamAssumption DEF Pointers
<1>1. CASE Shrink
  <2>1. /\ pc = "shrink" /\ pc' \in {"phase2", "hang"} /\ k' = 0
        /\ UNCHANGED <<ps, rd, rp, base, seq>>
    BY <1>1 DEF Shrink
  <2>2. rp + (seq - 0) + 1 = rp + seq + 1
    BY <1>0
  <2> QED BY <1>0, <2>1, <2>2 DEF Pointers, Leader, Gop, InBuffer
<1>2. CASE EndGop
  <2>1. /\ pc = "phase2" /\ k = seq /\ pc' = "phase1" /\ seq' = 0 /\ k' = 0
        /\ UNCHANGED <<ps, rd, rp, base>>
    BY <1>2 DEF EndGop
  <2>2. rp + (seq - k) + 1 = rp + 1 /\ rp + 2 .. rp + 0 = {}
    BY <1>0, <2>1
  <2>3. Gop'
    BY <2>1, <2>2 DEF Gop
  <2> QED BY <1>0, <2>1, <2>2, <2>3 DEF Pointers, Leader, InBuffer
<1>3. CASE EndTrailer \/ Fatal
  <2>1. pc' \in {"done", "fatal"} /\ UNCHANGED <<ps, rd, rp, base, seq, k>>
    BY <1>3 DEF EndTrailer, Fatal
  <2> QED BY <1>0, <2>1 DEF Pointers, Leader, Gop, InBuffer
<1>4. CASE UNCHANGED vars
  BY <1>4 DEF vars, Pointers, Leader, Gop, InBuffer
<1> QED BY <1>1, <1>2, <1>3, <1>4

LEMMA RunInvariance == Spec => []RunInv
<1>1. Init => RunInv
  BY StreamAssumption DEF Init, RunInv, Pointers, Leader, Gop, InBuffer
<1>2. ASSUME RunInv, [Next]_vars PROVE RunInv'
  BY <1>2, ReadSteps, SectorSteps, OtherSteps DEF Next, Step, Terminated
<1> QED BY <1>1, <1>2, PTL DEF Spec

\* lock() stays inside rbuf, whatever sectors come after a leader that is short and
\* however read() cuts the stream.
THEOREM NeverOverrun == Spec => []InBuffer
<1>1. RunInv => InBuffer
  BY DEF RunInv
<1> QED BY <1>1, RunInvariance, PTL

-------------------------------------------------------------------------------
\* T[i] is the sum of f[1] to f[i].
SumsOf(f, n, T) == /\ T \in [0 .. n -> Nat]
                   /\ T[0] = 0
                   /\ \A i \in 1 .. n : T[i] = T[i - 1] + f[i]

LEMMA SumsExist ==
    ASSUME NEW f, NEW n \in Nat, \A i \in 1 .. n : f[i] \in Nat
    PROVE  \E T : SumsOf(f, n, T)
<1> DEFINE S == {m \in Nat : m <= n => \E T : SumsOf(f, m, T)}
<1>1. 0 \in S
  <2>1. SumsOf(f, 0, [i \in 0 .. 0 |-> 0])
    BY DEF SumsOf
  <2> QED BY <2>1
<1>2. ASSUME NEW m \in Nat, m \in S PROVE m + 1 \in S
  <2> SUFFICES ASSUME m + 1 <= n PROVE \E T : SumsOf(f, m + 1, T)
    OBVIOUS
  <2>1. PICK T : SumsOf(f, m, T)
    BY <1>2
  <2>2. T \in [0 .. m -> Nat] /\ T[0] = 0 /\ \A i \in 1 .. m : T[i] = T[i - 1] + f[i]
    BY <2>1 DEF SumsOf
  <2> DEFINE Q == [i \in 0 .. m + 1 |-> IF i = m + 1 THEN T[m] + f[m + 1] ELSE T[i]]
  <2>3. Q \in [0 .. m + 1 -> Nat]
    <3>1. T[m] \in Nat /\ f[m + 1] \in Nat
      BY <2>2
    <3>2. \A i \in 0 .. m + 1 : i # m + 1 => i \in 0 .. m /\ T[i] \in Nat
      BY <2>2
    <3> QED BY <3>1, <3>2
  <2>4. Q[0] = 0
    BY <2>2
  <2>5. ASSUME NEW i \in 1 .. m + 1 PROVE Q[i] = Q[i - 1] + f[i]
    <3>1. CASE i = m + 1
      <4>1. Q[i] = T[m] + f[m + 1] /\ i - 1 = m /\ Q[m] = T[m]
        BY <3>1
      <4> QED BY <3>1, <4>1
    <3>2. CASE i # m + 1
      <4>1. i \in 1 .. m /\ i - 1 \in 0 .. m /\ i - 1 # m + 1
        BY <3>2
      <4>2. Q[i] = T[i] /\ Q[i - 1] = T[i - 1]
        BY <3>2, <4>1
      <4> QED BY <2>2, <4>1, <4>2
    <3> QED BY <3>1, <3>2
  <2> HIDE DEF Q
  <2>6. SumsOf(f, m + 1, Q)
    BY <2>3, <2>4, <2>5 DEF SumsOf
  <2> QED BY <2>6
<1> HIDE DEF S
<1>3. n \in S
  BY <1>1, <1>2, SetInduction
<1> QED BY <1>3 DEF S

\* Sums of numbers that are not negative do not decrease.
LEMMA SumsGrow ==
    ASSUME NEW f, NEW n \in Nat, \A i \in 1 .. n : f[i] \in Nat,
           NEW T, SumsOf(f, n, T), NEW i \in 0 .. n, NEW j \in i .. n
    PROVE  T[i] <= T[j]
<1> DEFINE S == {m \in Nat : i + m <= n => T[i] <= T[i + m]}
<1>0. T \in [0 .. n -> Nat] /\ \A l \in 1 .. n : T[l] = T[l - 1] + f[l]
  BY DEF SumsOf
<1>1. 0 \in S
  BY <1>0
<1>2. ASSUME NEW m \in Nat, m \in S PROVE m + 1 \in S
  <2> SUFFICES ASSUME i + (m + 1) <= n PROVE T[i] <= T[i + (m + 1)]
    OBVIOUS
  <2>1. T[i] <= T[i + m]
    BY <1>2
  <2>2. i + (m + 1) \in 1 .. n /\ (i + (m + 1)) - 1 = i + m
    OBVIOUS
  <2>3. T[i + (m + 1)] = T[i + m] + f[i + (m + 1)] /\ f[i + (m + 1)] \in Nat
    BY <1>0, <2>2
  <2>4. T[i] \in Nat /\ T[i + m] \in Nat
    BY <1>0
  <2> QED BY <2>1, <2>3, <2>4
<1> HIDE DEF S
<1>3. j - i \in S
  BY <1>1, <1>2, SetInduction
<1> QED BY <1>3 DEF S

\* The units of video in the first i sectors of a stream.
UnitsIn(s) == [i \in 1 .. Len(s) |-> IF s[i] \in VideoKinds THEN Content[s[i]] ELSE 0]
Units(s)   == CHOOSE T : SumsOf(UnitsIn(s), Len(s), T)

LEMMA UnitsAddUp ==
    ASSUME NEW s \in Streams
    PROVE  /\ Units(s) \in [0 .. Len(s) -> Nat]
           /\ \A i \in 1 .. Len(s) :
                /\ s[i] \in VideoKinds    => Units(s)[i] = Units(s)[i - 1] + Content[s[i]]
                /\ s[i] \notin VideoKinds => Units(s)[i] = Units(s)[i - 1]
           /\ \A i \in 0 .. Len(s) : \A j \in i .. Len(s) : Units(s)[i] <= Units(s)[j]
<1>1. Len(s) \in Nat /\ \A v \in VideoKinds : Content[v] \in Nat
  BY StreamAssumption
<1>2. \A i \in 1 .. Len(s) : UnitsIn(s)[i] \in Nat
  BY <1>1 DEF UnitsIn
<1>3. SumsOf(UnitsIn(s), Len(s), Units(s))
  BY <1>1, <1>2, SumsExist DEF Units
<1>4. \A i \in 0 .. Len(s) : \A j \in i .. Len(s) : Units(s)[i] <= Units(s)[j]
  BY <1>1, <1>2, <1>3, SumsGrow
<1>5. /\ Units(s) \in [0 .. Len(s) -> Nat]
      /\ \A i \in 1 .. Len(s) : Units(s)[i] = Units(s)[i - 1] + UnitsIn(s)[i]
  BY <1>3 DEF SumsOf
<1>6. ASSUME NEW i \in 1 .. Len(s)
      PROVE  /\ s[i] \in VideoKinds    => Units(s)[i] = Units(s)[i - 1] + Content[s[i]]
             /\ s[i] \notin VideoKinds => Units(s)[i] = Units(s)[i - 1]
  <2>1. i - 1 \in 0 .. Len(s) /\ Units(s)[i - 1] \in Nat
    BY <1>1, <1>5
  <2>2. s[i] \notin VideoKinds => UnitsIn(s)[i] = 0
    BY DEF UnitsIn
  <2>3. s[i] \in VideoKinds => UnitsIn(s)[i] = Content[s[i]]
    BY DEF UnitsIn
  <2> QED BY <1>5, <2>1, <2>2, <2>3
<1> QED BY <1>4, <1>5, <1>6

\* Of an orderly stream's GOP all that has been gathered is in the sectors behind rptr,
\* and what is still to be placed has room in those that phase 2 has not yet reached.
EsInv == /\ vi \in Nat /\ vo \in Nat
         /\ pc = "leader" => vi = 0
         /\ Orderly(ps) =>
              /\ pc \in {"phase1", "shrink"} => vi = Units(ps)[rp + seq] - Units(ps)[rp]
              /\ pc = "phase2" => vo <= Units(ps)[rp + (seq - k)] - Units(ps)[rp]

\* In phase 2 each sector takes at least as much as it held.
LEMMA EsPhase2 ==
    ASSUME RunInv, EsInv, Phase2Sector
    PROVE  EsInv'
<1>0. /\ rp \in Nat /\ rd \in Nat /\ rp <= rd /\ rd <= Len(ps) /\ seq \in Nat /\ k \in Nat
      /\ ps \in Streams /\ Len(ps) \in Nat /\ vo \in Nat /\ vi \in Nat
  BY StreamAssumption DEF RunInv, Pointers, EsInv
<1>1. pc = "phase2" /\ k < seq /\ k' = k + 1 /\ UNCHANGED <<ps, pc, seq, vi>>
  BY DEF Phase2Sector
<1>2. k <= seq /\ rp + (seq - k) + 1 <= rd
  BY <1>1 DEF RunInv, Pointers
<1>3. rp + 1 \in 1 .. Len(ps) /\ rp + (seq - k) \in rp + 1 .. Len(ps)
  BY <1>0, <1>1, <1>2
<1>4. \A v \in VideoKinds : Room[v] \in Nat /\ Content[v] \in Nat /\ Content[v] <= Room[v]
  BY StreamAssumption
<1>5. vo' \in Nat
  BY <1>0, <1>4 DEF Phase2Sector, MinOf
<1>6. ASSUME Orderly(ps) PROVE vo' <= Units(ps)[rp' + (seq' - k')] - Units(ps)[rp']
  <2>1. ps[rp + 1] \notin {"pad", "bad"}
    BY <1>3, <1>6 DEF Orderly
  <2>2. rp' = rp + 1
    BY <2>1 DEF Phase2Sector, Copy, Skip
  <2>3. rp' + (seq' - k') = rp + (seq - k)
    BY <1>0, <1>1, <2>2
  <2> DEFINE here == Units(ps)[rp]
             next == Units(ps)[rp + 1]
             end  == Units(ps)[rp + (seq - k)]
  <2>4. here \in Nat /\ next \in Nat /\ end \in Nat /\ next <= end
    <3>1. /\ Units(ps) \in [0 .. Len(ps) -> Nat]
          /\ \A i \in 0 .. Len(ps) : \A j \in i .. Len(ps) : Units(ps)[i] <= Units(ps)[j]
      BY <1>0, UnitsAddUp
    <3>2. rp \in 0 .. Len(ps) /\ rp + 1 \in 0 .. Len(ps) /\ rp + (seq - k) \in 0 .. Len(ps)
      BY <1>0, <1>3
    <3> QED BY <1>3, <3>1, <3>2
  <2>5. vo <= end - here
    BY <1>1, <1>6 DEF EsInv
  <2>6. /\ ps[rp + 1] \in VideoKinds    => next = here + Content[ps[rp + 1]]
        /\ ps[rp + 1] \notin VideoKinds => next = here
    <3>1. (rp + 1) - 1 = rp
      BY <1>0
    <3> QED BY <1>0, <1>3, <3>1, UnitsAddUp
  <2> HIDE DEF here, next, end
  <2>7. CASE ps[rp + 1] \in VideoKinds /\ vo' = vo - MinOf(vo, Room[ps[rp + 1]])
    <3>1. vo' <= end - next
      <4>1. vo \in Nat /\ Room[ps[rp + 1]] \in Nat
        BY <1>0, <1>4, <2>7
      <4>2. next = here + Content[ps[rp + 1]] /\ Content[ps[rp + 1]] \in Nat
        BY <1>0, <1>4, <2>6, <2>7
      <4>3. CASE vo' = 0
        BY <2>4, <4>3
      <4>4. CASE vo' = vo - Room[ps[rp + 1]] /\ Content[ps[rp + 1]] <= Room[ps[rp + 1]]
        BY <2>4, <2>5, <4>1, <4>2, <4>4
      <4> QED BY <1>4, <2>7, <4>1, <4>3, <4>4 DEF MinOf
    <3> QED BY <1>1, <2>2, <2>3, <3>1 DEF next, end
  <2>8. CASE vo' = 0
    <3>1. vo' <= end - next
      BY <2>4, <2>8
    <3> QED BY <1>1, <2>2, <2>3, <3>1 DEF next, end
  <2>9. CASE ps[rp + 1] \notin VideoKinds /\ vo' = vo
    <3>1. vo' <= end - next
      BY <2>4, <2>5, <2>6, <2>9
    <3> QED BY <1>1, <2>2, <2>3, <3>1 DEF next, end
  <2> QED BY <2>1, <2>7, <2>8, <2>9 DEF Phase2Sector, VideoKinds
<1> QED BY <1>0, <1>1, <1>5, <1>6 DEF EsInv

LEMMA EsPhase1 ==
    ASSUME RunInv, EsInv, Phase1Sector
    PROVE  EsInv'
<1>0. /\ rp \in Nat /\ rd \in Nat /\ rp <= rd /\ rd <= Len(ps) /\ seq \in Nat
      /\ ps \in Streams /\ Len(ps) \in Nat /\ vo \in Nat /\ vi \in Nat
  BY StreamAssumption DEF RunInv, Pointers, EsInv
<1>1. pc = "phase1" /\ rp + seq + 1 <= rd /\ UNCHANGED <<ps, rp, vo>>
  BY <1>0 DEF Phase1Sector, avail
<1>2. CASE pc' = "shrink" /\ UNCHANGED <<seq, vi>>
  BY <1>0, <1>1, <1>2 DEF EsInv
<1>3. CASE /\ seq' = seq + 1 /\ pc' = pc
           /\ vi' = IF ps[rp + seq + 1] \in VideoKinds THEN vi + Content[ps[rp + seq + 1]] ELSE vi
  <2>1. \A v \in VideoKinds : Content[v] \in Nat
    BY StreamAssumption
  <2>2. vi' \in Nat
    BY <1>0, <1>3, <2>1
  <2>3. ASSUME Orderly(ps) PROVE vi' = Units(ps)[rp' + seq'] - Units(ps)[rp']
    <3>1. rp + seq + 1 \in 1 .. Len(ps) /\ (rp + seq + 1) - 1 = rp + seq /\ rp' + seq' = rp + seq + 1
      BY <1>0, <1>1, <1>3
    <3>2. Units(ps)[rp] \in Nat /\ Units(ps)[rp + seq] \in Nat
      <4>1. Units(ps) \in [0 .. Len(ps) -> Nat]
        BY <1>0, UnitsAddUp
      <4>2. rp \in 0 .. Len(ps) /\ rp + seq \in 0 .. Len(ps)
        BY <1>0, <1>1
      <4> QED BY <4>1, <4>2
    <3>3. /\ ps[rp + seq + 1] \in VideoKinds =>
               Units(ps)[rp + seq + 1] = Units(ps)[rp + seq] + Content[ps[rp + seq + 1]]
          /\ ps[rp + seq + 1] \notin VideoKinds =>
               Units(ps)[rp + seq + 1] = Units(ps)[rp + seq]
      BY <1>0, <3>1, UnitsAddUp
    <3>4. vi = Units(ps)[rp + seq] - Units(ps)[rp]
      BY <1>1, <2>3 DEF EsInv
    <3> QED BY <1>1, <1>3, <2>1, <3>1, <3>2, <3>3, <3>4
  <2> QED BY <1>0, <1>1, <1>3, <2>2, <2>3 DEF EsInv
<1> QED BY <1>1, <1>2, <1>3 DEF Phase1Sector

LEMMA EsStep == ASSUME RunInv, EsInv, [Next]_vars PROVE EsInv'
<1>0. /\ rp \in Nat /\ rd \in Nat /\ rp <= rd /\ rd <= Len(ps) /\ seq \in Nat
      /\ ps \in Streams /\ Len(ps) \in Nat /\ vo \in Nat /\ vi \in Nat
  BY StreamAssumption DEF RunInv, Pointers, EsInv
<1>1. ASSUME NEW n \in 0 .. Len(ps) PROVE Units(ps)[n] - Units(ps)[n] = 0
  BY <1>0, UnitsAddUp
<1>2. CASE LeaderRead
  BY <1>2 DEF EsInv, LeaderRead, Then
<1>3. CASE LeaderSector
  <2>1. seq = 0 /\ rp + 0 = rp /\ rp \in 0 .. Len(ps)
    BY <1>0, <1>3 DEF LeaderSector, RunInv, Pointers
  <2>2. pc' = "phase1" => UNCHANGED rp
    BY <1>3 DEF LeaderSector, Stay
  <2>3. pc = "leader" /\ pc' \in {"leader", "phase1"} /\ UNCHANGED <<ps, seq, vi, vo>>
    BY <1>3 DEF LeaderSector
  <2> QED BY <1>0, <1>1, <2>1, <2>2, <2>3 DEF EsInv
<1>4. CASE Phase1Read
  BY <1>4 DEF EsInv, Phase1Read, Then
<1>5. CASE Phase1Sector
  BY <1>5, EsPhase1
<1>6. CASE Shrink
  <2>1. pc = "shrink" /\ pc' \in {"phase2", "hang"} /\ k' = 0 /\ UNCHANGED <<ps, rp, seq, vi>>
    BY <1>6 DEF Shrink
  <2>2. vo' \in Nat /\ (pc' = "phase2" => vo' <= vi)
    BY <1>0, <1>6 DEF Shrink
  <2>3. seq - 0 = seq
    BY <1>0
  <2> QED BY <1>0, <2>1, <2>2, <2>3 DEF EsInv
<1>7. CASE Phase2Sector
  BY <1>7, EsPhase2
<1>8. CASE EndGop
  <2>1. pc' = "phase1" /\ seq' = 0 /\ vi' = 0 /\ UNCHANGED <<ps, rp, vo>> /\ rp + 0 = rp
    BY <1>0, <1>8 DEF EndGop
  <2>2. rp \in 0 .. Len(ps)
    BY <1>0
  <2> QED BY <1>0, <1>1, <2>1, <2>2 DEF EsInv
<1>9. CASE TrailerSector \/ EndTrailer \/ Fatal
  BY <1>9 DEF EsInv, TrailerSector, EndTrailer, Fatal
<1>10. CASE UNCHANGED vars
  BY <1>10 DEF EsInv, vars
<1> QED BY <1>2, <1>3, <1>4, <1>5, <1>6, <1>7, <1>8, <1>9, <1>10 DEF Next, Step, Terminated

\* Whatever is stored has room: what lock() reads inside rbuf, the requantized ES of
\* each GOP of an orderly stream in the sectors of that GOP.
THEOREM RoomEverywhere == Spec => []RoomForAll
<1>1. Init => EsInv
  BY DEF Init, EsInv
<1>2. RunInv /\ EsInv => RoomForAll
  <2> SUFFICES ASSUME RunInv, EsInv, pc = "phase2", k = seq, Orderly(ps) PROVE vo = 0
    BY DEF RoomForAll, EsPlaced, RunInv
  <2>1. /\ rp \in Nat /\ rp <= Len(ps) /\ seq \in Nat /\ ps \in Streams /\ Len(ps) \in Nat
    BY StreamAssumption DEF RunInv, Pointers
  <2>2. rp + (seq - k) = rp /\ rp \in 0 .. Len(ps)
    BY <2>1
  <2>3. Units(ps)[rp] \in Nat
    BY <2>1, <2>2, UnitsAddUp
  <2> QED BY <2>2, <2>3 DEF EsInv
<1> QED BY <1>1, <1>2, EsStep, RunInvariance, PTL DEF Spec

-------------------------------------------------------------------------------
\* The sectors looked at since the first sequence header that cannot be shrunk.
RestUpTo(n) == {s \in FirstSeq .. n : ps[s] \in {"aux", "nav"}}

LEMMA RestOneMore ==
    ASSUME NEW n \in Nat, FirstSeq \in 1 .. n + 1
    PROVE  /\ Cardinality(RestUpTo(n)) \in Nat
           /\ Cardinality(RestUpTo(n + 1)) = IF ps[n + 1] \in {"aux", "nav"}
                                               THEN Cardinality(RestUpTo(n)) + 1
                                               ELSE Cardinality(RestUpTo(n))
<1>1. IsFiniteSet(FirstSeq .. n) /\ RestUpTo(n) \in SUBSET (FirstSeq .. n)
  BY FS_Interval DEF RestUpTo
<1>2. IsFiniteSet(RestUpTo(n))
  BY <1>1, FS_Subset
<1>3. \A i : i \in FirstSeq .. n + 1 <=> i \in FirstSeq .. n \/ i = n + 1
  OBVIOUS
<1>4. CASE ps[n + 1] \in {"aux", "nav"}
  <2>1. RestUpTo(n + 1) = RestUpTo(n) \cup {n + 1} /\ n + 1 \notin RestUpTo(n)
    <3>1. n + 1 \notin RestUpTo(n)
      BY DEF RestUpTo
    <3> QED BY <1>3, <1>4, <3>1 DEF RestUpTo
  <2> QED BY <1>2, <1>4, <2>1, FS_AddElement, FS_CardinalityType
<1>5. CASE ps[n + 1] \notin {"aux", "nav"}
  <2>1. RestUpTo(n + 1) = RestUpTo(n)
    BY <1>3, <1>5 DEF RestUpTo
  <2> QED BY <1>2, <1>5, <2>1, FS_CardinalityType
<1> QED BY <1>4, <1>5

\* No counter has stopped at its bound.
Below == \A c \in Counters : count[c] < MaxCount

\* The figure of vaporize(), for the sectors up to the one looked at next.
InGops   == pc \in {"phase1", "shrink", "phase2"}
CountInv ==
    /\ count \in [Counters -> Nat]
    /\ pc = "leader" => count["skipped_aux"] = 0 /\ count["gap"] = 0
    /\ pc \in {"leader", "phase1", "shrink"} => k = 0
    /\ InGops /\ Orderly(ps) =>
         /\ FirstSeq \in 1 .. rp + 1
         /\ Below => count["total"] - (count["video"] + count["skipped_aux"] + count["gap"])
                       = 1 + Cardinality(RestUpTo(rp + (seq - k)))

LEMMA PlusCounts ==
    ASSUME count \in [Counters -> Nat], NEW n \in Nat, NEW cs, NEW c \in Counters
    PROVE  /\ Plus(n, cs) \in [Counters -> Nat]
           /\ Plus(n, cs)[c] < MaxCount =>
                Plus(n, cs)[c] = IF c \in cs THEN count[c] + n ELSE count[c]
           /\ c \notin cs => Plus(n, cs)[c] = count[c]
<1>1. MaxCount \in Nat
  BY StreamAssumption
<1>2. Plus(n, cs)[c] = IF c \in cs THEN MinOf(count[c] + n, MaxCount) ELSE count[c]
  BY DEF Plus
<1>3. \A d \in Counters : MinOf(count[d] + n, MaxCount) \in Nat
  BY <1>1 DEF MinOf
<1> QED BY <1>1, <1>2, <1>3 DEF Plus, MinOf

\* What phase 1 counts for one sector leaves the figure right.
LEMMA CountedRight ==
    ASSUME count \in [Counters -> Nat], NEW kind \in Kinds \ {"pad", "bad"},
           seq \in Nat, seq = 0 => kind = "seq"
    PROVE  LET c == Counted(kind)
               rest(d) == d["total"] - (d["video"] + d["skipped_aux"] + d["gap"])
           IN  /\ c \in [Counters -> Nat]
               /\ (\A d \in Counters : c[d] < MaxCount) =>
                    /\ Below
                    /\ rest(c) = IF kind \in {"aux", "nav"} THEN rest(count) + 1 ELSE rest(count)
<1> DEFINE first == seq = 0
           each  == (IF first THEN {} ELSE {"total"})
                      \cup (IF kind \in VideoKinds /\ ~first THEN {"video"} ELSE {})
                      \cup (IF kind = "pts" \/ (kind = "seq" /\ ~first) THEN {"seqhdr"} ELSE {})
                      \cup (IF kind \in {"aux", "drop"} THEN {"aux"} ELSE {})
                      \cup (IF kind \in {"drop", "pad"} THEN {"skipped_aux"} ELSE {})
                      \cup (IF kind = "nav" THEN {"nav"} ELSE {})
           once  == Plus(1, each)
           c     == Counted(kind)
<1>0. {"total", "video", "skipped_aux", "gap"} \subseteq Counters /\ MaxCount \in Nat /\ Gap \in Nat \ {0}
  BY StreamAssumption DEF Counters
<1>1. c = IF kind # "gap" THEN once
          ELSE [once EXCEPT !["gap"] = MinOf(@ + Gap, MaxCount),
                            !["total"] = MinOf(@ + (Gap - 1), MaxCount)]
  BY DEF Counted
<1>2. /\ "total" \in each <=> ~first
      /\ "video" \in each <=> kind \in VideoKinds /\ ~first
      /\ "skipped_aux" \in each <=> kind = "drop"
      /\ "gap" \notin each
  OBVIOUS
<1> HIDE DEF each
<1>3. once \in [Counters -> Nat]
  BY <1>0, PlusCounts
<1>4. \A d \in Counters : once[d] < MaxCount =>
                            once[d] = (IF d \in each THEN count[d] + 1 ELSE count[d])
  BY PlusCounts
<1> HIDE DEF once
<1>5. CASE kind # "gap"
  <2>1. c = once
    BY <1>1, <1>5
  <2>2. ASSUME \A d \in Counters : c[d] < MaxCount
        PROVE  /\ Below
               /\ c["total"] = (IF first THEN count["total"] ELSE count["total"] + 1)
               /\ c["video"] = (IF kind \in VideoKinds /\ ~first THEN count["video"] + 1 ELSE count["video"])
               /\ c["skipped_aux"] = (IF kind = "drop" THEN count["skipped_aux"] + 1 ELSE count["skipped_aux"])
               /\ c["gap"] = count["gap"]
    <3>1. \A d \in Counters : count[d] < MaxCount
      BY <1>0, <1>4, <2>1, <2>2
    <3> QED BY <1>0, <1>2, <1>4, <2>1, <2>2, <3>1 DEF Below
  <2>3. ~first => kind \in VideoKinds \/ kind = "drop" \/ kind \in {"aux", "nav"}
    BY <1>5 DEF Kinds
  <2>4. first => kind = "seq"
    OBVIOUS
  <2>5. /\ count["total"] \in Nat /\ count["video"] \in Nat /\ count["skipped_aux"] \in Nat
        /\ count["gap"] \in Nat
    BY <1>0
  <2>6. kind \in VideoKinds => kind # "drop" /\ kind \notin {"aux", "nav"}
    BY DEF VideoKinds
  <2> HIDE DEF c, first
  <2>7. ASSUME \A d \in Counters : c[d] < MaxCount
        PROVE  c["total"] - (c["video"] + c["skipped_aux"] + c["gap"])
                 = IF kind \in {"aux", "nav"}
                     THEN count["total"] - (count["video"] + count["skipped_aux"] + count["gap"]) + 1
                     ELSE count["total"] - (count["video"] + count["skipped_aux"] + count["gap"])
    <3>1. CASE first
      <4>1. kind = "seq"
        BY <2>4, <3>1
      <4> QED BY <2>2, <2>5, <2>7, <3>1, <4>1
    <3>2. CASE ~first
      BY <2>2, <2>3, <2>5, <2>6, <2>7, <3>2
    <3> QED BY <3>1, <3>2
  <2> QED BY <1>3, <2>1, <2>2, <2>7 DEF c
<1>6. CASE kind = "gap"
  <2>1. /\ c \in [Counters -> Nat]
        /\ c["gap"] = MinOf(once["gap"] + Gap, MaxCount)
        /\ c["total"] = MinOf(once["total"] + (Gap - 1), MaxCount)
        /\ \A d \in Counters \ {"gap", "total"} : c[d] = once[d]
    <3>1. c = [once EXCEPT !["gap"] = MinOf(@ + Gap, MaxCount),
                           !["total"] = MinOf(@ + (Gap - 1), MaxCount)]
      BY <1>1, <1>6
    <3>2. /\ MinOf(once["gap"] + Gap, MaxCount) \in Nat
          /\ MinOf(once["total"] + (Gap - 1), MaxCount) \in Nat
      BY <1>0, <1>3 DEF MinOf
    <3> HIDE DEF c
    <3> QED BY <1>0, <1>3, <3>1, <3>2
  <2> HIDE DEF c
  <2>2. ASSUME \A d \in Counters : c[d] < MaxCount
        PROVE  /\ Below
               /\ c["total"] = count["total"] + Gap /\ c["gap"] = count["gap"] + Gap
               /\ c["video"] = count["video"] /\ c["skipped_aux"] = count["skipped_aux"]
    <3>1. /\ c["gap"] = once["gap"] + Gap /\ once["gap"] < MaxCount
          /\ c["total"] = once["total"] + (Gap - 1) /\ once["total"] < MaxCount
      BY <1>0, <1>3, <2>1, <2>2 DEF MinOf
    <3>2. \A d \in Counters : once[d] < MaxCount
      BY <2>1, <2>2, <3>1
    <3>3. \A d \in Counters : count[d] < MaxCount
      BY <1>0, <1>4, <3>2
    <3>4. ~first
      BY <1>6
    <3>5. once["total"] = count["total"] + 1 /\ once["gap"] = count["gap"]
      BY <1>0, <1>2, <1>4, <3>2, <3>4
    <3>6. kind \notin VideoKinds /\ kind # "drop"
      BY <1>6 DEF VideoKinds
    <3>7. once["video"] = count["video"] /\ once["skipped_aux"] = count["skipped_aux"]
      BY <1>0, <1>2, <1>4, <3>2, <3>6
    <3>8. "video" \in Counters \ {"gap", "total"} /\ "skipped_aux" \in Counters \ {"gap", "total"}
      BY <1>0
    <3>9. c["total"] = count["total"] + Gap /\ c["gap"] = count["gap"] + Gap
      BY <1>0, <3>1, <3>5
    <3> QED BY <2>1, <3>3, <3>7, <3>8, <3>9 DEF Below
  <2>3. /\ count["total"] \in Nat /\ count["video"] \in Nat /\ count["skipped_aux"] \in Nat
        /\ count["gap"] \in Nat
    BY <1>0
  <2>4. ASSUME \A d \in Counters : c[d] < MaxCount
        PROVE  c["total"] - (c["video"] + c["skipped_aux"] + c["gap"])
                 = count["total"] - (count["video"] + count["skipped_aux"] + count["gap"])
    BY <1>0, <2>2, <2>3, <2>4
  <2> QED BY <1>6, <2>1, <2>2, <2>4 DEF c
<1> QED BY <1>5, <1>6

LEMMA CountPhase1 ==
    ASSUME RunInv, CountInv, Phase1Sector
    PROVE  CountInv'
<1>0. /\ rp \in Nat /\ rd \in Nat /\ rp <= rd /\ rd <= Len(ps) /\ seq \in Nat
      /\ ps \in Streams /\ Len(ps) \in Nat /\ count \in [Counters -> Nat]
  BY StreamAssumption DEF RunInv, Pointers, CountInv
<1>1. /\ pc = "phase1" /\ rp + seq + 1 <= rd /\ UNCHANGED <<ps, rp, k>>
      /\ count' = Counted(ps[rp + seq + 1]) /\ ps[rp + seq + 1] # "bad"
      /\ \/ ps[rp + seq + 1] = "seq" /\ pc' = "shrink" /\ UNCHANGED seq
         \/ seq' = seq + 1 /\ pc' = pc
  BY <1>0 DEF Phase1Sector, avail
<1>2. k = 0 /\ rp + (seq - k) = rp + seq
  BY <1>0, <1>1 DEF CountInv
<1>a. rp + seq + 1 \in 1 .. Len(ps)
  BY <1>0, <1>1
<1>3. ASSUME Orderly(ps)
      PROVE  /\ ps[rp + seq + 1] \in Kinds \ {"pad", "bad"}
             /\ seq = 0 => ps[rp + seq + 1] = "seq"
  <2>1. ps[rp + 1] = "seq"
    BY <1>1, <1>3 DEF RunInv, Gop
  <2>2. ps[rp + seq + 1] \in Kinds
    BY <1>0, <1>a, StreamAssumption
  <2>3. seq = 0 => rp + seq + 1 = rp + 1
    BY <1>0
  <2> QED BY <1>3, <1>a, <2>1, <2>2, <2>3 DEF Orderly
<1>4. count' \in [Counters -> Nat]
  <2>1. \A cs : Plus(1, cs) \in [Counters -> Nat]
    BY <1>0, PlusCounts DEF Counters
  <2>2. Gap \in Nat \ {0} /\ MaxCount \in Nat
    BY StreamAssumption
  <2>3. ASSUME NEW c \in [Counters -> Nat]
        PROVE  [c EXCEPT !["gap"] = MinOf(@ + Gap, MaxCount),
                         !["total"] = MinOf(@ + (Gap - 1), MaxCount)] \in [Counters -> Nat]
    <3>1. c["gap"] \in Nat /\ c["total"] \in Nat
      BY <2>3 DEF Counters
    <3>2. MinOf(c["gap"] + Gap, MaxCount) \in Nat /\ MinOf(c["total"] + (Gap - 1), MaxCount) \in Nat
      BY <2>2, <3>1 DEF MinOf
    <3> QED BY <3>2 DEF Counters
  <2> QED BY <1>1, <2>1, <2>3 DEF Counted
<1>5. ASSUME Orderly(ps)
      PROVE  /\ FirstSeq' \in 1 .. rp' + 1
             /\ Below' => count'["total"] - (count'["video"] + count'["skipped_aux"] + count'["gap"])
                            = 1 + Cardinality(RestUpTo(rp + (seq - k)))'
  <2> DEFINE kind == ps[rp + seq + 1]
             was  == count["total"] - (count["video"] + count["skipped_aux"] + count["gap"])
             is   == count'["total"] - (count'["video"] + count'["skipped_aux"] + count'["gap"])
             n    == rp + seq
  <2>1. FirstSeq' = FirstSeq /\ FirstSeq \in 1 .. rp + 1
    BY <1>1, <1>5 DEF FirstSeq, CountInv, InGops
  <2>2. n \in Nat /\ FirstSeq \in 1 .. n + 1
    BY <1>0, <2>1
  <2>3. Below' => Below /\ is = IF kind \in {"aux", "nav"} THEN was + 1 ELSE was
    BY <1>0, <1>1, <1>3, <1>5, CountedRight DEF Below
  <2>4. Below => was = 1 + Cardinality(RestUpTo(n))
    BY <1>1, <1>2, <1>5 DEF CountInv, InGops
  <2>5. RestUpTo(rp + (seq - k))' = RestUpTo(rp + (seq' - 0))
    BY <1>1, <1>2, <2>1 DEF RestUpTo
  <2>6. /\ Cardinality(RestUpTo(n)) \in Nat
        /\ Cardinality(RestUpTo(n + 1)) = IF kind \in {"aux", "nav"}
                                            THEN Cardinality(RestUpTo(n)) + 1
                                            ELSE Cardinality(RestUpTo(n))
    BY <2>2, RestOneMore
  <2> HIDE DEF was, is
  <2>7. CASE kind = "seq" /\ UNCHANGED seq
    <3>1. rp + (seq' - 0) = n
      BY <1>0, <2>7
    <3>2. Below' => is = 1 + Cardinality(RestUpTo(n))
      BY <2>3, <2>4, <2>7
    <3> QED BY <1>1, <2>1, <2>5, <3>1, <3>2 DEF is
  <2>8. CASE seq' = seq + 1
    <3>1. rp + (seq' - 0) = n + 1
      BY <1>0, <2>8
    <3>2. Below' => is = 1 + Cardinality(RestUpTo(n + 1))
      BY <2>3, <2>4, <2>6
    <3> QED BY <1>1, <2>1, <2>5, <3>1, <3>2 DEF is
  <2> QED BY <1>1, <2>7, <2>8
<1>6. pc' \in {"phase1", "shrink"} /\ k' = 0
  BY <1>1, <1>2
<1>7. Orderly(ps)' = Orderly(ps)
  BY <1>1 DEF Orderly, ShortLeader, GopsFit
<1> QED BY <1>4, <1>5, <1>6, <1>7 DEF CountInv

LEMMA CountStep == ASSUME RunInv, CountInv, [Next]_vars PROVE CountInv'
<1>0. /\ rp \in Nat /\ rd \in Nat /\ rp <= rd /\ rd <= Len(ps) /\ seq \in Nat
      /\ ps \in Streams /\ Len(ps) \in Nat /\ count \in [Counters -> Nat] /\ k \in Nat
  BY StreamAssumption DEF RunInv, Pointers, CountInv
<1>a. UNCHANGED ps => UNCHANGED <<FirstSeq, Orderly(ps)>>
  BY DEF FirstSeq, Orderly, ShortLeader, GopsFit
\* A step that leaves the counters, and the end of what has been looked at, alone.
<1>b. ASSUME UNCHANGED <<ps, count>>, InGops' /\ Orderly(ps) => InGops,
             InGops' /\ Orderly(ps) => rp <= rp' /\ rp' \in Nat,
             InGops' /\ Orderly(ps) => rp' + (seq' - k') = rp + (seq - k),
             pc' = "leader" => pc = "leader",
             pc' \in {"leader", "phase1", "shrink"} => k' = 0
      PROVE  CountInv'
  <2>1. Below' = Below
    BY <1>b DEF Below
  <2>2. ASSUME Orderly(ps), InGops'
        PROVE  /\ FirstSeq' \in 1 .. rp' + 1
               /\ RestUpTo(rp + (seq - k))' = RestUpTo(rp + (seq - k))
    <3>1. FirstSeq' = FirstSeq /\ FirstSeq \in 1 .. rp + 1
      BY <1>a, <1>b, <2>2 DEF CountInv
    <3> QED BY <1>0, <1>b, <2>2, <3>1 DEF RestUpTo
  <2>3. ASSUME Orderly(ps), InGops', Below
        PROVE  count'["total"] - (count'["video"] + count'["skipped_aux"] + count'["gap"])
                 = 1 + Cardinality(RestUpTo(rp + (seq - k)))'
    BY <1>b, <2>2, <2>3 DEF CountInv
  <2> QED BY <1>a, <1>b, <2>1, <2>2, <2>3 DEF CountInv
<1>1. CASE LeaderRead
  BY <1>1, <1>b DEF LeaderRead, Then, InGops, CountInv
<1>2. CASE LeaderSector
  <2>0. pc = "leader" /\ seq = 0 /\ k = 0 /\ rp < rd /\ UNCHANGED <<ps, seq>>
    BY <1>0, <1>2 DEF LeaderSector, avail, RunInv, Pointers, CountInv
  <2>k. k' = 0
    BY <1>2, <2>0 DEF LeaderSector
  <2>1. CASE ps[rp + 1] # "seq"
    <3>1. pc' = "leader" /\ (count' = count \/ count' = Plus(1, {"seqhdr"}))
      BY <1>2, <2>0, <2>1 DEF LeaderSector
    <3>2. \A c \in {"skipped_aux", "gap"} :
             c \in Counters /\ c \notin {"seqhdr"}
      BY DEF Counters
    <3>3. count' \in [Counters -> Nat] /\ count'["skipped_aux"] = count["skipped_aux"]
          /\ count'["gap"] = count["gap"]
      <4>1. CASE count' = Plus(1, {"seqhdr"})
        <5>1. Plus(1, {"seqhdr"}) \in [Counters -> Nat]
          <6>1. count \in [Counters -> Nat] /\ 1 \in Nat /\ "gap" \in Counters
            BY <1>0, <3>2
          <6> QED BY <6>1, PlusCounts
        <5>2. \A c \in {"skipped_aux", "gap"} : Plus(1, {"seqhdr"})[c] = count[c]
          BY <1>0, <3>2, PlusCounts
        <5> QED BY <4>1, <5>1, <5>2
      <4> QED BY <1>0, <3>1, <4>1
    <3> QED BY <2>0, <2>k, <3>1, <3>3 DEF CountInv, InGops
  <2>2. CASE ps[rp + 1] = "seq"
    <3>1. /\ pc' = "phase1" /\ UNCHANGED rp
          /\ count' = [count EXCEPT !["total"] = 2, !["nav"] = 1, !["video"] = 1]
      BY <1>2, <2>2 DEF LeaderSector, Stay
    <3>2. /\ count' \in [Counters -> Nat]
          /\ count'["total"] = 2 /\ count'["video"] = 1
          /\ count'["skipped_aux"] = 0 /\ count'["gap"] = 0
      BY <1>0, <2>0, <3>1 DEF Counters, CountInv
    <3>3. FirstSeq = rp + 1
      <4>1. /\ rp + 1 \in 1 .. Len(ps)
            /\ \A r \in 1 .. (rp + 1) - 1 : ps[r] # "seq"
        BY <1>0, <2>0 DEF RunInv, Leader
      <4>2. /\ FirstSeq \in 1 .. Len(ps) /\ ps[FirstSeq] = "seq"
            /\ \A r \in 1 .. FirstSeq - 1 : ps[r] # "seq"
        BY <2>2, <4>1 DEF FirstSeq
      <4>3. ~(FirstSeq < rp + 1)
        BY <1>0, <4>1, <4>2
      <4>4. ~(rp + 1 < FirstSeq)
        BY <1>0, <2>2, <4>2
      <4> QED BY <1>0, <4>2, <4>3, <4>4
    <3>4. rp' + (seq' - k') = rp /\ FirstSeq' = rp + 1
      BY <1>0, <1>a, <2>0, <2>k, <3>1, <3>3
    <3>5. RestUpTo(rp + (seq - k))' = {}
      <4>1. (rp + 1) .. rp = {}
        BY <1>0
      <4> QED BY <3>4, <4>1 DEF RestUpTo
    <3>6. Cardinality(RestUpTo(rp + (seq - k)))' = 0
      BY <3>5, FS_EmptySet
    <3>7. count'["total"] - (count'["video"] + count'["skipped_aux"] + count'["gap"])
            = 1 + Cardinality(RestUpTo(rp + (seq - k)))'
      BY <3>2, <3>6
    <3>8. FirstSeq' \in 1 .. rp' + 1 /\ count'["skipped_aux"] = 0 /\ count'["gap"] = 0
      BY <1>0, <3>1, <3>2, <3>4
    <3> QED BY <2>k, <3>1, <3>2, <3>7, <3>8 DEF CountInv
  <2> QED BY <2>1, <2>2
<1>3. CASE Phase1Read
  BY <1>0, <1>3, <1>b DEF Phase1Read, Then, InGops, CountInv
<1>4. CASE Phase1Sector
  BY <1>4, CountPhase1
<1>5. CASE Shrink
  <2>1. pc = "shrink" /\ pc' \in {"phase2", "hang"} /\ k' = 0 /\ k = 0
        /\ UNCHANGED <<ps, rp, seq, count>>
    BY <1>5 DEF Shrink, CountInv
  <2> QED BY <1>0, <1>b, <2>1 DEF InGops
<1>6. CASE Phase2Sector
  <2>1. pc = "phase2" /\ pc' = pc /\ k < seq /\ k' = k + 1 /\ UNCHANGED <<ps, seq>>
    BY <1>6 DEF Phase2Sector
  <2>a. rp + (seq - k) + 1 <= rd
    BY <2>1 DEF RunInv, Pointers
  <2>b. rp + 1 \in 1 .. Len(ps)
    BY <1>0, <2>1, <2>a
  <2>2. ASSUME Orderly(ps) PROVE rp' = rp + 1
    <3>1. ps[rp + 1] # "pad"
      BY <2>2, <2>b DEF Orderly
    <3> QED BY <1>6, <3>1 DEF Phase2Sector, Copy, Skip
  <2>3. CASE UNCHANGED count
    <3>1. Orderly(ps) => rp' + (seq' - k') = rp + (seq - k)
      BY <1>0, <2>1, <2>2
    <3> QED BY <1>0, <1>b, <2>1, <2>2, <2>3, <3>1 DEF InGops
  <2>4. CASE count' = Plus(1, {"skipped_video"})
    <3>1. /\ count' \in [Counters -> Nat]
          /\ \A c \in {"total", "video", "skipped_aux", "gap"} : count'[c] = count[c]
      <4>1. \A c \in {"total", "video", "skipped_aux", "gap"} :
               c \in Counters /\ c \notin {"skipped_video"}
        BY DEF Counters
      <4> QED BY <1>0, <2>4, <4>1, PlusCounts
    <3>2. Below' => Below
      <4>1. ASSUME NEW c \in Counters, count'[c] < MaxCount PROVE count[c] < MaxCount
        BY <1>0, <2>4, <4>1, PlusCounts, StreamAssumption
      <4> QED BY <4>1 DEF Below
    <3>3. ASSUME Orderly(ps)
          PROVE  /\ FirstSeq' \in 1 .. rp' + 1
                 /\ RestUpTo(rp + (seq - k))' = RestUpTo(rp + (seq - k))
      <4>1. FirstSeq' = FirstSeq /\ FirstSeq \in 1 .. rp + 1
        BY <1>a, <2>1, <3>3 DEF CountInv, InGops
      <4>2. rp' + (seq' - k') = rp + (seq - k)
        BY <1>0, <2>1, <2>2, <3>3
      <4> QED BY <1>0, <2>1, <2>2, <3>3, <4>1, <4>2 DEF RestUpTo
    <3>4. ASSUME Orderly(ps), Below'
          PROVE  count'["total"] - (count'["video"] + count'["skipped_aux"] + count'["gap"])
                   = 1 + Cardinality(RestUpTo(rp + (seq - k)))'
      BY <2>1, <3>1, <3>2, <3>3, <3>4 DEF CountInv, InGops
    <3> QED BY <1>a, <2>1, <3>1, <3>3, <3>4 DEF CountInv
  <2> QED BY <1>6, <2>3, <2>4 DEF Phase2Sector
<1>7. CASE EndGop
  <2>1. pc = "phase2" /\ k = seq /\ pc' = "phase1" /\ seq' = 0 /\ k' = 0
        /\ UNCHANGED <<ps, rp, count>>
    BY <1>7 DEF EndGop
  <2> QED BY <1>0, <1>b, <2>1 DEF InGops
<1>8. CASE TrailerSector \/ EndTrailer \/ Fatal
  BY <1>8, <1>b DEF TrailerSector, EndTrailer, Fatal, InGops
<1>9. CASE UNCHANGED vars
  BY <1>0, <1>9, <1>b DEF vars, InGops, CountInv
<1> QED BY <1>1, <1>2, <1>3, <1>4, <1>5, <1>6, <1>7, <1>8, <1>9 DEF Next, Step, Terminated

\* As long as no counter of the model has reached the bound at which it stops, the
\* packs vaporize() takes for not shrinkable are those there are.
THEOREM ForecastCounts == Spec => [](Below => RestPacks)
<1>1. Init => CountInv
  BY DEF Init, CountInv, InGops, NoCount, Counters
<1>2. RunInv /\ CountInv => (Below => RestPacks)
  <2> SUFFICES ASSUME RunInv, CountInv, Below, pc \in {"phase1", "shrink"}, Orderly(ps)
               PROVE  count["total"] - (count["video"] + count["skipped_aux"] + count["gap"])
                        = 1 + Cardinality(RestUpTo(rp + seq))
    BY DEF RestPacks, RestUpTo
  <2>1. k = 0 /\ seq - 0 = seq
    BY DEF CountInv, RunInv, Pointers
  <2> QED BY <2>1 DEF CountInv, InGops
<1> QED BY <1>1, <1>2, CountStep, RunInvariance, PTL DEF Spec

-------------------------------------------------------------------------------
\* A sector that is worked off is copied or dropped as VampsFilter allows, if there
\* is one.
LEMMA FilterCopy ==
    ASSUME SelInv, Copy, UNCHANGED ps, rp + 1 \in 1 .. Len(ps), pc # "done", pc' # "done",
           ps[rp + 1] \in {"aux", "nav"} \cup VideoKinds
    PROVE  Filter!FilterNext
<1>1. rp' = rp + 1 /\ Written' = Append(Written, rp + 1)
  BY CopyWrites DEF SelInv
<1>2. rp < Len(ps)
  BY DEF SelInv, Buffers
<1>3. Filter!CopySector
  BY <1>1, <1>2 DEF Filter!CopySector, Filter!More
<1> QED BY <1>3 DEF Filter!FilterNext

LEMMA FilterDrop ==
    ASSUME SelInv, Skip, UNCHANGED ps, rp + 1 \in 1 .. Len(ps), pc # "done", pc' # "done",
           ps[rp + 1] \in {"drop", "gap"} \cup VideoKinds
    PROVE  Filter!FilterNext
<1>1. rp' = rp + 1 /\ Written' = Written
  BY DEF Skip, Written
<1>2. rp < Len(ps)
  BY DEF SelInv, Buffers
<1>3. Filter!DropSector
  BY <1>1, <1>2 DEF Filter!DropSector, Filter!More
<1> QED BY <1>3 DEF Filter!FilterNext

\* The program ends when all of the stream has been worked off.
LEMMA FilterEnd ==
    ASSUME SelInv, Flush, UNCHANGED <<ps, rp>>, rp = Len(ps), pc # "done", pc' = "done"
    PROVE  Filter!FilterNext
<1>1. Written' = Written
  BY FlushWrites DEF SelInv
<1>2. Filter!End
  BY <1>1 DEF Filter!End
<1> QED BY <1>2 DEF Filter!FilterNext

LEMMA FilterIdle ==
    ASSUME UNCHANGED <<ps, rp, wb, out>>, (pc # "done" /\ pc' # "done") \/ pc' = pc
    PROVE  UNCHANGED Filter!filtervars
BY DEF Filter!filtervars, Written

LEMMA FilterStep ==
    ASSUME SelInv, RunInv, Orderly(ps), Step
    PROVE  [Filter!FilterNext]_(Filter!filtervars)
<1>0. /\ rp \in Nat /\ rd \in Nat /\ rp <= rd /\ rd <= Len(ps)
      /\ seq \in Nat /\ k \in Nat /\ Len(ps) \in Nat /\ ps \in Seq(Kinds)
      /\ RBUF \in Nat \ {0}
  BY StreamAssumption DEF RunInv, Pointers
<1>1. ASSUME rp < rd
      PROVE  /\ rp + 1 \in 1 .. Len(ps)
             /\ ps[rp + 1] \in {"aux", "nav", "drop", "gap"} \cup VideoKinds
  <2>1. rp + 1 \in 1 .. Len(ps)
    BY <1>0, <1>1
  <2>2. ps[rp + 1] \in Kinds /\ ps[rp + 1] \notin {"pad", "bad"}
    BY <1>0, <2>1 DEF Orderly
  <2> QED BY <2>1, <2>2 DEF Kinds
<1>2. CASE LeaderRead
  <2>1. PICK n \in Readable :
          /\ avail < 1
          /\ \/ Then("leader") /\ UNCHANGED <<wb, out>>
             \/ n = 0 /\ Flush /\ pc' = "done"
    BY <1>2 DEF LeaderRead, Lock
  <2>2. pc = "leader" /\ UNCHANGED <<ps, rp>>
    BY <1>2 DEF LeaderRead
  <2>3. CASE n = 0 /\ Flush /\ pc' = "done"
    <3>1. RBUF = avail \/ rd = Len(ps)
      BY <2>3, ReadBounds DEF RunInv
    <3>2. rp = Len(ps)
      BY <1>0, <2>1, <3>1 DEF avail
    <3> QED BY <2>2, <2>3, <3>2, FilterEnd
  <2>4. CASE Then("leader") /\ UNCHANGED <<wb, out>>
    BY <2>2, <2>4, FilterIdle DEF Then
  <2> QED BY <2>1, <2>3, <2>4
<1>3. CASE LeaderSector
  <2>1. rp < rd /\ pc = "leader" /\ pc' # "done" /\ UNCHANGED ps
    BY <1>0, <1>3 DEF LeaderSector, avail
  <2> QED BY <1>1, <1>3, <2>1, FilterCopy, FilterDrop, FilterIdle DEF LeaderSector, Stay, VideoKinds
<1>4. CASE Phase1Read
  BY <1>4, FilterIdle DEF Phase1Read, Then
<1>5. CASE Phase1Sector
  BY <1>5, FilterIdle DEF Phase1Sector
<1>6. CASE Shrink
  BY <1>6, FilterIdle DEF Shrink
<1>7. CASE Phase2Sector
  <2>1. pc = "phase2" /\ pc' # "done" /\ UNCHANGED ps /\ rp < rd
    BY <1>0, <1>7 DEF Phase2Sector, RunInv, Pointers
  <2> QED BY <1>1, <1>7, <2>1, FilterCopy, FilterDrop, FilterIdle DEF Phase2Sector, Stay
<1>8. CASE EndGop
  BY <1>8, FilterIdle DEF EndGop
<1>9. CASE TrailerSector
  <2>1. pc = "trailer" /\ pc' # "done" /\ UNCHANGED ps /\ rp < rd
    BY <1>0, <1>9 DEF TrailerSector, RunInv, Pointers
  <2>a. ps[rp + 1] # "pad"
    BY <1>1, <2>1 DEF VideoKinds
  <2>2. \/ ps[rp + 1] \in {"drop", "gap"} /\ Skip
        \/ ps[rp + 1] \notin {"drop", "gap"} /\ Copy
    BY <1>9, <2>a DEF TrailerSector
  <2> QED BY <1>1, <2>1, <2>2, FilterCopy, FilterDrop
<1>10. CASE EndTrailer
  <2>1. pc = "trailer" /\ pc' = "done" /\ k = seq /\ Flush /\ UNCHANGED <<ps, rp>>
    BY <1>10 DEF EndTrailer
  <2>2. rp = Len(ps)
    BY <1>0, <2>1 DEF RunInv, Gop
  <2> QED BY <2>1, <2>2, FilterEnd
<1>11. CASE Fatal
  <2>1. ps \notin Faulty
    BY DEF Orderly
  <2>2. pc # "done" /\ pc' # "done" /\ UNCHANGED <<ps, rp, wb, out>>
    BY <1>11, <2>1 DEF Fatal
  <2> QED BY <2>2, FilterIdle
<1> QED BY <1>2, <1>3, <1>4, <1>5, <1>6, <1>7, <1>8, <1>9, <1>10, <1>11 DEF Step

\* vamps implements the filter: every step of its passes over an orderly stream copies
\* or drops the next sector as VampsFilter allows, or changes nothing it knows of, and
\* it ends only when every sector of the stream has been worked off.
THEOREM FilterRefined == Spec => Filter!FilterInit /\ [][Filter!FilterNext]_(Filter!filtervars)
<1>1. Init => Filter!FilterInit
  <2> SUFFICES ASSUME Init PROVE Filter!FilterInit
    OBVIOUS
  <2>1. ps \in Seq(Kinds) /\ rp = 0 /\ Written = <<>> /\ pc # "done"
    BY StreamAssumption DEF Init, Written
  <2>2. ASSUME Orderly(ps) PROVE ps \in Seq({"aux", "nav"} \cup {"drop", "gap"} \cup VideoKinds)
    <3>1. /\ Len(ps) \in Nat
          /\ \A i \in 1 .. Len(ps) : ps[i] \in {"aux", "nav"} \cup {"drop", "gap"} \cup VideoKinds
      <4>1. \A i \in 1 .. Len(ps) : ps[i] \in Kinds
        BY <2>1
      <4> QED BY <2>1, <2>2, <4>1 DEF Orderly, Kinds
    <3>2. ps = [i \in 1 .. Len(ps) |-> ps[i]]
      BY <2>1
    <3> QED BY <3>1, <3>2, SeqDef
  <2> QED BY <2>1, <2>2 DEF Filter!FilterInit
<1>2. ASSUME SelInv, RunInv, [Next]_vars PROVE [Filter!FilterNext]_(Filter!filtervars)
  <2>1. UNCHANGED ps
    BY <1>2 DEF Next, Step, Terminated, vars, LeaderRead, LeaderSector, Phase1Read,
                Phase1Sector, Shrink, Phase2Sector, EndGop, TrailerSector, EndTrailer, Fatal
  <2>2. CASE ~Orderly(ps)
    <3>1. Orderly(ps)' = Orderly(ps)
      BY <2>1 DEF Orderly, ShortLeader, GopsFit
    <3> QED BY <2>1, <2>2, <3>1 DEF Filter!FilterNext, Filter!Whatever
  <2>3. CASE Orderly(ps) /\ Step
    BY <1>2, <2>3, FilterStep
  <2>4. CASE UNCHANGED vars
    BY <2>4, FilterIdle DEF vars
  <2> QED BY <1>2, <2>2, <2>3, <2>4 DEF Next, Terminated
<1>3. Init => SelInv
  BY StreamAssumption
  DEF Init, SelInv, Buffers, Ordered, ReadBefore, Complete, Clean, Written
<1> QED BY <1>1, <1>2, <1>3, SelStep, RunInvariance, PTL DEF Spec

-------------------------------------------------------------------------------
(***************************************************************************)
(* VampsPacket                                                             *)
(***************************************************************************)
PacketInv == PacketTypeOK /\ Rewritable /\ FillsUp

\* A packet that check_video_packet() accepts has room for its own video bytes.
LEMMA InitPacketInv == PacketInit => PacketInv
  BY PacketAssumption, SMT
  DEF PacketInit, PacketInv, PacketTypeOK, Rewritable, FillsUp, Accepted, PacketLength,
      DataLength, KeptHeader

\* Each of the three shapes gen_video_packet() writes keeps all three.
LEMMA GenerateStep ==
    ASSUME PacketInv, hdr <= MaxHeader, NEW n \in 1 .. SECT, Generate(n)
    PROVE  PacketInv'
<1> USE PacketAssumption DEF PacketInv, PacketTypeOK, Rewritable, FillsUp, Accepted,
                             PacketLength, DataLength, KeptHeader, Generate
<1>1. CASE FullPacket(n)
    BY <1>1, SMT DEF FullPacket
<1>2. CASE ShortPacket(n)
    BY <1>2, SMT DEF ShortPacket
<1>3. CASE StuffedPacket(n)
    <2>1. KeptHeader + (DataLength - n) < Byte /\ KeptHeader + (DataLength - n) >= 0
        BY <1>3, SMT DEF StuffedPacket
    <2>2. hdr' = KeptHeader + (DataLength - n)
        BY <1>3, <2>1, SMT DEF StuffedPacket
    <2> QED
        BY <1>3, <2>1, <2>2, SMT DEF StuffedPacket
<1> QED
    BY <1>1, <1>2, <1>3

\* However often a sector is rewritten, and with however many bytes at hand, it
\* stays exactly full and acceptable, and it holds all it was given or is full.
THEOREM PacketInvariance == PacketSpec => [](PacketTypeOK /\ Rewritable /\ FillsUp)
<1>1. ASSUME PacketInv, [PacketNext]_packetVars PROVE PacketInv'
    <2>1. CASE UNCHANGED packetVars
        BY <1>1, <2>1 DEF PacketInv, PacketTypeOK, Rewritable, FillsUp, Accepted,
                          PacketLength, DataLength, KeptHeader, packetVars
    <2>2. CASE Rewrite
        BY <1>1, <2>2, GenerateStep DEF Rewrite
    <2> QED
        BY <1>1, <2>1, <2>2 DEF PacketNext, Retired
<1> QED
    BY <1>1, InitPacketInv, PTL DEF PacketSpec, PacketInv
===============================================================================
