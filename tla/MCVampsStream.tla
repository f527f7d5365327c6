----------------------------- MODULE MCVampsStream ----------------------------
(* The main thread of vamps for TLC: all short program streams of some kinds   *)
(* of sector, and, beside the empty one, each video sector with its packet.    *)
EXTENDS VampsStream, VampsPacket

SeqsUpTo(S, n) == UNION {[1 .. m -> S] : m \in 0 .. n}

\* Orderly streams: a navigation pack, then GOPs that fit in rbuf.
MCClean == LET short == {<<"nav">> \o t : t \in SeqsUpTo({"seq", "pts", "vid", "aux",
                                                         "drop", "nav", "gap"}, 3)}
               long  == {<<"nav", "seq">> \o t : t \in SeqsUpTo({"seq", "vid", "aux",
                                                                "drop"}, 5)}
           IN  {s \in short \cup long : GopsFit(s)}
\* Anything at all, and reads and writes that fail.
MCRough == SeqsUpTo({"seq", "aux", "drop", "pad", "bad"}, 5)
MCStreams == MCClean \cup MCRough

MCContent == [v \in VideoKinds |-> IF v = "vid" THEN 2 ELSE 1]
MCRoom    == [v \in VideoKinds |-> IF v = "seq" THEN 1 ELSE 2]

\* A stream goes through vamps, or one sector does.
FullSector == flags = 0 /\ hdr = 0 /\ es = SECT - 23 /\ pad = 0 /\ unplaced = 0
MCInit == /\ Init
          /\ \/ FullSector
             \/ ps = <<>> /\ PacketInit
MCNext == \/ Next /\ UNCHANGED packetVars
          \/ PacketNext /\ ps = <<>> /\ pc = "leader" /\ UNCHANGED vars
MCSpec == MCInit /\ [][MCNext]_<<vars, packetVars>> /\ WF_vars(Step)
===============================================================================
