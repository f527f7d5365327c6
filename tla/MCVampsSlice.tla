----------------------------- MODULE MCVampsSlice -----------------------------
(* Pictures of two rows of four macroblocks for TLC, every macroblock with   *)
(* two blocks of at most two coefficients.                                   *)
EXTENDS VampsSlice

C(run, level) == [run |-> run, level |-> level]
MCCoded  == {<<C(0, -2), C(0, 1)>>, <<C(0, 1), C(1, -2)>>}
MCScales == (0 :> <<2, 4, 6>>) @@ (1 :> <<1, 5>>)
MCExts   == {[q_scale_type |-> 0, concealment_motion_vectors |-> FALSE],
             [q_scale_type |-> 1, concealment_motion_vectors |-> TRUE]}
=============================================================================
