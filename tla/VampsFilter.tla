----------------------------- MODULE VampsFilter ------------------------------
(***************************************************************************)
(* What vamps promises to do to the sectors of a program stream (vamps.c,  *)
(* 733-738 and 1083-1087): they leave in the order they came; navigation   *)
(* packs and the selected audio and subpicture packs are all copied, those *)
(* not selected and the "Vamps-data" packs of play_cell are all dropped,   *)
(* and a video pack is copied or dropped with the shrinking of its GOP.    *)
(* The stream is worked off to its end.  Of a stream that is not orderly   *)
(* nothing is promised.                                                    *)
(***************************************************************************)
EXTENDS Naturals, Sequences

CONSTANTS Kept,       \* kinds of sector that must be copied
          Dropped,    \* kinds of sector that must be dropped
          Video       \* kinds of sector that may be either

VARIABLES stream,     \* the kinds of the sectors of the input
          pos,        \* sectors worked off
          written,    \* numbers of the sectors copied
          over,       \* the program has ended
          orderly     \* something is promised of this stream

filtervars == <<stream, pos, written, over, orderly>>

FilterInit == /\ orderly => stream \in Seq(Kept \cup Dropped \cup Video)
              /\ pos = 0 /\ written = <<>> /\ over = FALSE

More == ~over /\ pos < Len(stream)

CopySector == /\ More /\ stream[pos + 1] \in Kept \cup Video
              /\ written' = Append(written, pos + 1)
              /\ pos' = pos + 1
              /\ UNCHANGED <<stream, over, orderly>>

DropSector == /\ More /\ stream[pos + 1] \in Dropped \cup Video
              /\ pos' = pos + 1
              /\ UNCHANGED <<stream, written, over, orderly>>

End == /\ ~over /\ pos = Len(stream)
       /\ over' = TRUE
       /\ UNCHANGED <<stream, pos, written, orderly>>

\* What becomes of any other stream.
Whatever == ~orderly /\ UNCHANGED <<stream, orderly>>

FilterNext == CopySector \/ DropSector \/ End \/ Whatever

FilterSpec == FilterInit /\ [][FilterNext]_filtervars /\ WF_filtervars(orderly /\ FilterNext)
===============================================================================
