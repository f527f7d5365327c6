------------------------------ MODULE MCVobsub ------------------------------
(* One or two languages for TLC, with fragments around the sizes at which   *)
(* the padding changes and times that differ by less than a millisecond;    *)
(* one of them is a millisecond that comes out too low.                     *)
EXTENDS Vobsub

Lens == {100, 2017, 2020, 2024}
Times == {900, 930, 1790, 1800}
MCRoundedDown == {1800}

Fragments == [len : Lens, pts : Times]
InOrder(s) == \A k \in 2 .. Len(s) : s[k - 1].pts <= s[k].pts

Run(i, append, input) ==
  [index |-> i, append |-> append, named |-> TRUE, first |-> 0, last |-> 9000, start |-> 0, input |-> input]

\* -e with a part of the stream, moved; the IFO file has no language code
Part(i, append, input) ==
  [index |-> i, append |-> append, named |-> FALSE, first |-> 920, last |-> 1790, start |-> 0, input |-> input]

Three == {s \in [1 .. 3 -> Fragments] : InOrder(s)}
Two == {s \in [1 .. 2 -> [len : {100, 2020}, pts : Times]] : InOrder(s)}

MCJobs ==
  {<<Run(0, FALSE, a)>> : a \in Three}
  \cup {<<Run(0, FALSE, a), Run(1, append, b)>> : a \in Two, b \in Two, append \in BOOLEAN}
  \cup {<<Part(1, TRUE, a), Run(0, TRUE, b)>> : a \in Two, b \in Two}
  \cup {<<Run(0, TRUE, a), Part(1, TRUE, b)>> : a \in Two, b \in Two}

ASSUME InTurn == OneEach
=============================================================================
